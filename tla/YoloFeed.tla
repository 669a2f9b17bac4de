------------------------------ MODULE YoloFeed ------------------------------
(***************************************************************************)
(* The media relay's retained H.264 feed (services/media-relay, package    *)
(* yolofeed) and the one Python client it serves over a unix socket.       *)
(*                                                                         *)
(* A publisher's access units are kept in a backlog until the client       *)
(* acknowledges that a viewer has seen them.  A loss, an overflow, a       *)
(* restarted source or a client that cannot resume starts a new epoch:     *)
(* the backlog is dropped and nothing is kept until the next keyframe      *)
(* (IDR).  Each step of serve() that holds the feed's mutex is one action. *)
(*                                                                         *)
(* What is abstracted: the bytes of an access unit (only its size and      *)
(* whether it is a keyframe matter here), its timestamps (the source is    *)
(* evenly paced, so a span in seconds is a difference of sequence          *)
(* numbers), QR metadata, and the packets it was assembled from.  A fault  *)
(* is a lost packet, a broken connection, a client crash, a resync         *)
(* request, or the source ending; MaxFaults bounds them.                   *)
(***************************************************************************)
EXTENDS Integers, Sequences, FiniteSets

CONSTANTS
    KeySize,      \* bytes of a keyframe
    DeltaSize,    \* bytes of any other access unit
    MaxBytes,     \* Feed.maxBytes; 0 disables the limit
    MaxSpan,      \* Feed.maxSeconds in frame intervals; 0 disables the limit
    MaxUnits,     \* bound: access units the source sends
    MaxFaults     \* bound: faults, see above

ASSUME FeedAssumption ==
    /\ KeySize \in Nat /\ DeltaSize \in Nat
    /\ MaxBytes \in Nat /\ MaxSpan \in Nat
    /\ MaxUnits \in Nat /\ MaxFaults \in Nat

VARIABLES
    feed,    \* the Feed struct, guarded by its mutex
    conn,    \* the locals of serve() and where it stands
    wire,    \* records written to the socket and not yet read by Python
    py,      \* what the Python process knows of the feed
    cmds,    \* AppState.feed_commands, with those already on the socket
    seen,    \* history: the newest access unit any decoder was given
    used     \* history: how much of each bound is spent

vars == <<feed, conn, wire, py, cmds, seen, used>>

-----------------------------------------------------------------------------

Unit == [epoch : Nat, seq : Nat, key : BOOLEAN]

Feed == [backlog : Seq(Unit), bytes : Int, epoch : Nat, nextSeq : Nat,
         seenIDR : BOOLEAN, sourceEnded : BOOLEAN, endSent : BOOLEAN]

Record == [type : {"START", "RESET", "FRAME", "END"},
           epoch : Nat, seq : Nat, key : BOOLEAN]

Command == [type : {"presented", "resync", "stop"}, epoch : Nat, seq : Nat]

\* "evicted" and "noIDR" are the gaps between the two critical sections of the
\* eviction check and of the handshake.
ServeStep == {"idle", "hello", "rewind", "noIDR", "start",
              "loop", "evicted", "sending", "complete"}

Conn == [pc : ServeStep, epoch : Nat, nextSeq : Nat]

\* hello is the BEGIN record on its way, or NoHello.  got is the newest unit of
\* py.epoch this process has decoded; rec the last record it read.
NoHello == [epoch |-> 0, last |-> -2]
Py == [link : {"down", "up", "draining"}, hello : [epoch : Nat, last : Int],
       epoch : Nat, last : Nat \cup {-1}, got : Nat \cup {-1}, rec : Record]

Size(key) == IF key THEN KeySize ELSE DeltaSize
Start(e) == [type |-> "START", epoch |-> e, seq |-> 0, key |-> FALSE]
ResetRec(e) == [type |-> "RESET", epoch |-> e, seq |-> 0, key |-> FALSE]
Frame(u) == [type |-> "FRAME", epoch |-> u.epoch, seq |-> u.seq, key |-> u.key]
End == [type |-> "END", epoch |-> 0, seq |-> 0, key |-> FALSE]
\* Where a connection has read nothing yet: like after END, only START may come.
NoRecord == End

-----------------------------------------------------------------------------
(* The methods of Feed, as functions of the struct.                        *)

\* Mutants of ResetLocked: the backlog, or the byte counter, is not cleared.
ResetKeepsBacklog(f) ==
    [backlog |-> f.backlog, bytes |-> 0, epoch |-> f.epoch + 1, nextSeq |-> 0,
     seenIDR |-> FALSE, sourceEnded |-> FALSE, endSent |-> FALSE]
ResetKeepsBytes(f) ==
    [backlog |-> <<>>, bytes |-> f.bytes, epoch |-> f.epoch + 1, nextSeq |-> 0,
     seenIDR |-> FALSE, sourceEnded |-> FALSE, endSent |-> FALSE]

ResetLocked(f) ==
    [backlog |-> <<>>, bytes |-> 0, epoch |-> f.epoch + 1, nextSeq |-> 0,
     seenIDR |-> FALSE, sourceEnded |-> FALSE, endSent |-> FALSE]

Overflow(f) ==
    \/ MaxBytes > 0 /\ f.bytes > MaxBytes
    \/ /\ MaxSpan > 0 /\ Len(f.backlog) >= 2
       /\ f.backlog[Len(f.backlog)].seq - f.backlog[1].seq > MaxSpan

\* The unit joins the backlog unless the epoch still waits for its keyframe.
Retain(f, key) ==
    [f EXCEPT !.backlog = Append(@, [epoch |-> f.epoch, seq |-> f.nextSeq,
                                     key |-> key]),
              !.bytes = @ + Size(key),
              !.nextSeq = @ + 1,
              !.seenIDR = @ \/ key]

FinishAccessUnit(f, key) ==
    IF ~f.seenIDR /\ ~key THEN f
    ELSE IF Overflow(Retain(f, key)) THEN ResetLocked(Retain(f, key))
    ELSE Retain(f, key)

\* The head of Publish: a packet after End, or after a hole, opens a new epoch.
Admit(f, gap) == IF f.sourceEnded \/ gap THEN ResetLocked(f) ELSE f

\* Mutant: an acknowledgement removes the unit after it, too.
CutOnePast(f, seq) ==
    Cardinality({n \in DOMAIN f.backlog :
                   \A i \in 1..n : f.backlog[i].seq <= seq + 1})

\* How many units an acknowledgement of seq removes: the longest run from the
\* front in which none is newer.
Cut(f, seq) ==
    Cardinality({n \in DOMAIN f.backlog : \A i \in 1..n : f.backlog[i].seq <= seq})

\* The sizes of the n first units.
FrontBytes(f, n) ==
    LET keys == {i \in 1..n : f.backlog[i].key}
    IN  KeySize * Cardinality(keys) + DeltaSize * Cardinality((1..n) \ keys)

\* Mutant: an acknowledgement of another epoch counts.
AcknowledgeAnyEpoch(f, epoch, seq) ==
    [f EXCEPT !.backlog = SubSeq(@, Cut(f, seq) + 1, Len(@)),
              !.bytes = @ - FrontBytes(f, Cut(f, seq))]

Acknowledge(f, epoch, seq) ==
    IF epoch # f.epoch THEN f
    ELSE [f EXCEPT !.backlog = SubSeq(@, Cut(f, seq) + 1, Len(@)),
                   !.bytes = @ - FrontBytes(f, Cut(f, seq))]

Oldest(f) == IF f.backlog = <<>> THEN f.nextSeq ELSE f.backlog[1].seq

\* Mutants: any retained keyframe will do; any retained unit will do.
KeyframesAnywhere(f, seq) ==
    {f.backlog[i].seq : i \in {j \in DOMAIN f.backlog : f.backlog[j].key}}
UnitsUpTo(f, seq) ==
    {f.backlog[i].seq : i \in {j \in DOMAIN f.backlog : f.backlog[j].seq <= seq}}

\* The retained keyframes at or before seq, as sequence numbers.
KeyframesUpTo(f, seq) ==
    {f.backlog[i].seq : i \in {j \in DOMAIN f.backlog :
                                 f.backlog[j].key /\ f.backlog[j].seq <= seq}}

Retained(f, epoch, seq) ==
    epoch = f.epoch /\ \E i \in DOMAIN f.backlog : f.backlog[i].seq = seq

-----------------------------------------------------------------------------

Init ==
    /\ feed = [backlog |-> <<>>, bytes |-> 0, epoch |-> 1, nextSeq |-> 0,
               seenIDR |-> FALSE, sourceEnded |-> FALSE, endSent |-> FALSE]
    /\ conn = [pc |-> "idle", epoch |-> 0, nextSeq |-> 0]
    /\ wire = <<>>
    /\ py = [link |-> "down", hello |-> NoHello, epoch |-> 0, last |-> -1,
             got |-> -1, rec |-> NoRecord]
    /\ cmds = <<>>
    /\ seen = [epoch |-> 0, seq |-> 0]
    /\ used = [units |-> 0, faults |-> 0]

Fault == /\ used.faults < MaxFaults
         /\ used' = [used EXCEPT !.faults = @ + 1]

-----------------------------------------------------------------------------
(* The source: readPublisher's calls of Publish, and End.                  *)

\* One packet, in order or (gap) behind a hole in the sequence numbers.  It
\* completes an access unit, or (unit = "none") it does not; a packet that does
\* neither of these changes nothing kept here.
Publish(gap, unit) ==
    /\ gap => ~feed.sourceEnded
    /\ unit = "none" => gap \/ feed.sourceEnded
    /\ used.units + (IF unit = "none" THEN 0 ELSE 1) <= MaxUnits
    /\ used.faults + (IF gap THEN 1 ELSE 0) <= MaxFaults
    /\ used' = [units |-> used.units + (IF unit = "none" THEN 0 ELSE 1),
                faults |-> used.faults + (IF gap THEN 1 ELSE 0)]
    /\ feed' = IF unit = "none" THEN Admit(feed, gap)
               ELSE FinishAccessUnit(Admit(feed, gap), unit = "key")
    /\ UNCHANGED <<conn, wire, py, cmds, seen>>

EndSource ==
    /\ Fault
    /\ feed' = [feed EXCEPT !.sourceEnded = TRUE, !.endSent = FALSE]
    /\ UNCHANGED <<conn, wire, py, cmds, seen>>

-----------------------------------------------------------------------------
(* serve().  A record written to a connection the client has left is lost, *)
(* and the write error ends serve().                                       *)

Write(recs, next) ==
    IF py.link = "up"
    THEN wire' = wire \o recs /\ conn' = next
    ELSE UNCHANGED wire /\ conn' = [next EXCEPT !.pc = "idle"]

Accept ==
    /\ conn.pc = "idle" /\ py.link = "up"
    /\ conn' = [pc |-> "hello", epoch |-> feed.epoch, nextSeq |-> Oldest(feed)]
    /\ UNCHANGED <<feed, wire, py, cmds, seen, used>>

\* Mutant: resume at the unit presented last.  Before any was (-1), an unsigned
\* sequence number wraps.
ReadBeginAtLast(timeout) ==
    /\ conn.pc = "hello" /\ (py.hello # NoHello \/ py.link # "up")
    /\ conn' = [conn EXCEPT
                  !.pc = "rewind",
                  !.nextSeq = IF /\ ~timeout /\ py.hello # NoHello
                                 /\ py.hello.epoch = conn.epoch
                              THEN py.hello.last ELSE @]
    /\ py' = [py EXCEPT !.hello = NoHello]
    /\ UNCHANGED <<feed, wire, cmds, seen, used>>

\* BEGIN arrives, or two seconds pass without it (it is then ignored later).
ReadBegin(timeout) ==
    /\ conn.pc = "hello" /\ (py.hello # NoHello \/ py.link # "up")
    /\ conn' = [conn EXCEPT
                  !.pc = "rewind",
                  !.nextSeq = IF /\ ~timeout /\ py.hello # NoHello
                                 /\ py.hello.epoch = conn.epoch
                                 /\ py.hello.last >= -1
                              THEN py.hello.last + 1 ELSE @]
    /\ py' = [py EXCEPT !.hello = NoHello]
    /\ UNCHANGED <<feed, wire, cmds, seen, used>>

\* keyframeStart: rewind to the newest retained keyframe at or before nextSeq.
Rewind ==
    /\ conn.pc = "rewind"
    /\ LET keys == IF conn.epoch = feed.epoch
                   THEN KeyframesUpTo(feed, conn.nextSeq) ELSE {}
       IN  \/ /\ keys = {}
              /\ conn' = [conn EXCEPT !.pc = "noIDR"]
           \/ \E s \in keys :
                 /\ \A t \in keys : t <= s
                 /\ conn' = [conn EXCEPT !.pc = "start", !.nextSeq = s]
    /\ UNCHANGED <<feed, wire, py, cmds, seen, used>>

StartRequiresIDR ==
    /\ conn.pc = "noIDR"
    /\ feed' = IF conn.epoch = feed.epoch /\ feed.seenIDR
               THEN ResetLocked(feed) ELSE feed
    /\ conn' = [pc |-> "start", epoch |-> feed'.epoch, nextSeq |-> 0]
    /\ UNCHANGED <<wire, py, cmds, seen, used>>

SendStart ==
    /\ conn.pc = "start"
    /\ Write(<<Start(conn.epoch)>>, [conn EXCEPT !.pc = "loop"])
    /\ UNCHANGED <<feed, py, cmds, seen, used>>

TakeCommand(type) ==
    /\ conn.pc = "loop" /\ py.link = "up"
    /\ cmds # <<>> /\ Head(cmds).type = type
    /\ cmds' = Tail(cmds)
    /\ UNCHANGED <<seen, used>>

HandleAck ==
    /\ TakeCommand("presented")
    /\ feed' = Acknowledge(feed, Head(cmds).epoch, Head(cmds).seq)
    /\ UNCHANGED <<conn, wire, py>>

HandleResync ==
    /\ TakeCommand("resync")
    /\ feed' = IF feed.seenIDR THEN ResetLocked(feed) ELSE feed
    /\ Write(<<ResetRec(feed'.epoch), Start(feed'.epoch)>>,
             [pc |-> "loop", epoch |-> feed'.epoch, nextSeq |-> 0])
    /\ UNCHANGED py

HandleStop ==
    /\ TakeCommand("stop")
    /\ conn' = [conn EXCEPT !.pc = "idle"]
    /\ py' = [py EXCEPT !.link = "draining"]
    /\ UNCHANGED <<feed, wire>>

\* Mutant: the tick does not look for a new epoch.
TickSameEpoch ==
    /\ conn.pc = "loop"
    /\ conn' = [conn EXCEPT !.pc = IF /\ feed.epoch = conn.epoch
                                      /\ conn.nextSeq < Oldest(feed)
                                   THEN "evicted" ELSE "sending"]
    /\ UNCHANGED <<feed, wire, py, cmds, seen, used>>

\* A tick: look for a new epoch or an evicted resume point, then send.
Tick ==
    /\ conn.pc = "loop"
    /\ \/ /\ feed.epoch # conn.epoch
          /\ Write(<<ResetRec(feed.epoch), Start(feed.epoch)>>,
                   [pc |-> "sending", epoch |-> feed.epoch, nextSeq |-> 0])
       \/ /\ feed.epoch = conn.epoch
          /\ conn' = [conn EXCEPT !.pc = IF conn.nextSeq < Oldest(feed)
                                         THEN "evicted" ELSE "sending"]
          /\ UNCHANGED wire
    /\ UNCHANGED <<feed, py, cmds, seen, used>>

ResumeUnavailable ==
    /\ conn.pc = "evicted"
    /\ feed' = ResetLocked(feed)
    /\ Write(<<ResetRec(feed'.epoch), Start(feed'.epoch)>>,
             [pc |-> "sending", epoch |-> feed'.epoch, nextSeq |-> 0])
    /\ UNCHANGED <<py, cmds, seen, used>>

\* One turn of the loop over find(): send the next unit, or leave the loop.
SendFrame ==
    /\ conn.pc = "sending"
    /\ \/ /\ Retained(feed, conn.epoch, conn.nextSeq)
          /\ \E i \in DOMAIN feed.backlog :
                /\ feed.backlog[i].seq = conn.nextSeq
                /\ Write(<<Frame(feed.backlog[i])>>, [conn EXCEPT !.nextSeq = @ + 1])
       \/ /\ ~Retained(feed, conn.epoch, conn.nextSeq)
          /\ conn' = [conn EXCEPT !.pc = "complete"]
          /\ UNCHANGED wire
    /\ UNCHANGED <<feed, py, cmds, seen, used>>

\* Mutant: END does not wait for the units still to be sent.
SourceEndedOnly(f, epoch, nextSeq) == epoch = f.epoch /\ f.sourceEnded /\ ~f.endSent

\* endSent is set before END is written, whether or not the write succeeds.
SourceComplete(f, epoch, nextSeq) ==
    epoch = f.epoch /\ f.sourceEnded /\ ~f.endSent /\ nextSeq >= f.nextSeq

SendEnd ==
    /\ conn.pc = "complete"
    /\ \/ /\ SourceComplete(feed, conn.epoch, conn.nextSeq)
          /\ feed' = [feed EXCEPT !.endSent = TRUE]
          /\ Write(<<End>>, [conn EXCEPT !.pc = "loop"])
       \/ /\ ~SourceComplete(feed, conn.epoch, conn.nextSeq)
          /\ conn' = [conn EXCEPT !.pc = "loop"]
          /\ UNCHANGED <<feed, wire>>
    /\ UNCHANGED <<py, cmds, seen, used>>

\* The reader goroutine hits the end of the connection.
ServeEOF ==
    /\ conn.pc = "loop" /\ py.link = "down"
    /\ conn' = [conn EXCEPT !.pc = "idle"]
    /\ UNCHANGED <<feed, wire, py, cmds, seen, used>>

Serve ==
    \/ Accept \/ (\E t \in BOOLEAN : ReadBegin(t)) \/ Rewind \/ StartRequiresIDR
    \/ SendStart \/ HandleAck \/ HandleResync \/ HandleStop \/ Tick
    \/ ResumeUnavailable \/ SendFrame \/ SendEnd \/ ServeEOF

-----------------------------------------------------------------------------
(* Python: frame_receiver, and the viewer's messages it forwards.          *)

\* _relay_connection.  The retry delay (0.5 s) outlasts the relay's 10 ms tick,
\* so serve() has noticed the old connection's end.
Connect ==
    /\ py.link = "down" /\ conn.pc = "idle"
    /\ py' = [py EXCEPT !.link = "up",
                        !.hello = [epoch |-> py.epoch, last |-> py.last],
                        !.rec = NoRecord]
    /\ UNCHANGED <<feed, conn, wire, cmds, seen, used>>

\* Commands written to a connection that then breaks are lost unless serve()
\* took them first: what is left is a suffix of the queue.
Unread == {SubSeq(cmds, n, Len(cmds)) : n \in 1..(Len(cmds) + 1)}

\* _decode_session, one record.  START keeps the state of the epoch it names;
\* RESET and a START of another epoch clear it.
Receive ==
    /\ py.link # "down" /\ wire # <<>>
    /\ LET r == Head(wire)
           new == \/ r.type = "RESET"
                  \/ r.type = "START" /\ r.epoch # 0 /\ r.epoch # py.epoch
       IN  /\ py' = [py EXCEPT
                       !.epoch = IF new THEN r.epoch ELSE @,
                       !.last = IF new THEN -1 ELSE @,
                       !.got = IF new THEN -1
                               ELSE IF r.type = "FRAME" /\ r.seq > @ THEN r.seq
                               ELSE @,
                       !.rec = r,
                       !.link = IF r.type = "END" THEN "down" ELSE @]
           /\ wire' = IF r.type = "END" THEN <<>> ELSE Tail(wire)
           /\ \E rest \in IF r.type = "END" THEN Unread ELSE {cmds} : cmds' = rest
           /\ seen' = IF r.type = "FRAME" /\ (r.epoch # seen.epoch \/ r.seq > seen.seq)
                      THEN [epoch |-> r.epoch, seq |-> r.seq] ELSE seen
    /\ UNCHANGED <<feed, conn, used>>

\* The relay closed the connection and everything it wrote has been read.
Drained ==
    /\ py.link = "draining" /\ wire = <<>>
    /\ py' = [py EXCEPT !.link = "down"]
    /\ UNCHANGED <<feed, conn, wire, cmds, seen, used>>

\* The client side of the connection breaks.
Disconnect ==
    /\ py.link = "up"
    /\ Fault
    /\ py' = [py EXCEPT !.link = "down", !.hello = NoHello]
    /\ wire' = <<>>
    /\ \E rest \in Unread : cmds' = rest
    /\ UNCHANGED <<feed, conn, seen>>

\* The decoder rejects a unit: ask for a new epoch and drop the connection.
DecodeError ==
    /\ py.link # "down" /\ wire # <<>> /\ Head(wire).type = "FRAME"
    /\ Fault
    /\ py' = [py EXCEPT !.link = "down", !.hello = NoHello]
    /\ wire' = <<>>
    /\ \E rest \in Unread :
          cmds' = Append(rest, [type |-> "resync", epoch |-> 0, seq |-> 0])
    /\ UNCHANGED <<feed, conn, seen>>

PyRestart ==
    /\ Fault
    /\ py' = [py EXCEPT !.link = "down", !.hello = NoHello, !.epoch = 0,
                        !.last = -1, !.got = -1]
    /\ wire' = <<>> /\ cmds' = <<>>
    /\ UNCHANGED <<feed, conn, seen>>

\* The viewer painted a decoded frame; acknowledgements are cumulative.
Present ==
    /\ \E s \in (py.last + 1)..py.got :
          /\ py' = [py EXCEPT !.last = s]
          /\ cmds' = Append(cmds, [type |-> "presented", epoch |-> py.epoch, seq |-> s])
    /\ UNCHANGED <<feed, conn, wire, seen, used>>

\* A viewer starts anew or jumps to live: what it presented is forgotten.
ViewerResync ==
    /\ Fault
    /\ py' = [py EXCEPT !.last = -1]
    /\ cmds' = Append(cmds, [type |-> "resync", epoch |-> 0, seq |-> 0])
    /\ UNCHANGED <<feed, conn, wire, seen>>

ViewerStop ==
    /\ Fault
    /\ cmds' = Append(cmds, [type |-> "stop", epoch |-> 0, seq |-> 0])
    /\ UNCHANGED <<feed, conn, wire, py, seen>>

Python ==
    \/ Connect \/ Receive \/ Drained \/ Disconnect \/ DecodeError \/ PyRestart
    \/ Present \/ ViewerResync \/ ViewerStop

Source ==
    \/ \E gap \in BOOLEAN, unit \in {"none", "key", "delta"} : Publish(gap, unit)
    \/ EndSource

Next == Source \/ Serve \/ Python

\* serve() runs on a ticker and frame_receiver is a loop: neither may stop for
\* ever while it can go on.  Go's select picks at random among the ready cases,
\* so a command, or the end of the connection, is not passed over for ever.
\* The source, the viewer and the faults are free.
Fairness ==
    /\ WF_vars(Serve)
    /\ SF_vars(HandleAck \/ HandleResync \/ HandleStop)
    /\ SF_vars(ServeEOF)
    /\ WF_vars(Connect \/ Receive \/ Drained)

Spec == Init /\ [][Next]_vars

FairSpec == Spec /\ Fairness
-----------------------------------------------------------------------------
(* Properties                                                              *)

TypeOK ==
    /\ feed \in Feed /\ conn \in Conn /\ wire \in Seq(Record)
    /\ py \in Py /\ cmds \in Seq(Command)
    /\ seen \in [epoch : Nat, seq : Nat]
    /\ used \in [units : 0..MaxUnits, faults : 0..MaxFaults]

\* The backlog is a run of consecutive units of the current epoch that ends at
\* the newest one: find() and keyframeStart() look units up by sequence number
\* alone, and acknowledge() stops at the first one it keeps.
BacklogContiguous ==
    \A i \in DOMAIN feed.backlog :
        /\ feed.backlog[i].epoch = feed.epoch
        /\ feed.backlog[i].seq = feed.nextSeq - Len(feed.backlog) + i - 1

\* The byte counter overflowLocked() compares with the limit is exact after any
\* mix of publishing, partial acknowledgement and reset.
BytesExact == feed.bytes = FrontBytes(feed, Len(feed.backlog))

\* What one process reads next on the socket can follow what it read before.
\* A decoder is new at START, so its first unit is a keyframe, and after that
\* no unit of the epoch is left out or repeated.
Follows(prev, r) ==
    /\ r.type = "FRAME" =>
          /\ prev.type \in {"START", "FRAME"} /\ prev.epoch = r.epoch
          /\ prev.type = "START" => r.key
          /\ prev.type = "FRAME" => r.seq = prev.seq + 1
    /\ r.type = "START" /\ prev.type = "RESET" => r.epoch = prev.epoch
    /\ r.type = "END" => prev.type # "RESET"

\* Whatever resets, resyncs, acknowledgements and reconnects do around it, the
\* decoder of each connection can decode every unit it is given.
StreamDecodable ==
    \A i \in DOMAIN wire :
        Follows(IF i = 1 THEN py.rec ELSE wire[i - 1], wire[i])

\* "Never silently jump over unseen data": across connections and restarts of
\* either loop, a unit arrives only after every earlier one of its epoch was
\* given to a decoder.
NoSilentJump ==
    wire # <<>> /\ Head(wire).type = "FRAME" =>
        Head(wire).seq <= IF seen.epoch = Head(wire).epoch THEN seen.seq + 1 ELSE 0

\* When Python reads END, and the epoch END closed is still the current one, it
\* has decoded every unit of that epoch.
EndAfterAll ==
    wire # <<>> /\ Head(wire).type = "END" /\ feed.epoch = py.epoch =>
        py.got = feed.nextSeq - 1

\* Within an epoch a unit leaves the backlog only after a decoder was given it:
\* acknowledgements that outlive their epoch or their connection free nothing.
OnlySeenIsFreed ==
    [][feed'.epoch = feed.epoch =>
         \A i \in DOMAIN feed.backlog :
            \/ Retained(feed', feed.epoch, feed.backlog[i].seq)
            \/ seen.epoch = feed.epoch /\ feed.backlog[i].seq <= seen.seq]_vars

\* A unit that was kept reaches a decoder unless a new epoch drops it: once the
\* faults are over the client always catches up with the newest unit.
CaughtUp ==
    feed.nextSeq = 0 \/ seen = [epoch |-> feed.epoch, seq |-> feed.nextSeq - 1]

EventuallyDelivered == []<>CaughtUp

\* A connection that rewound to a retained keyframe is not told later that its
\* resume point is gone.
ResumePreserved == conn.pc # "evicted"

-----------------------------------------------------------------------------
(* What the feed promises, without its connections: see Delivery.          *)

D == INSTANCE Delivery WITH
        epoch <- feed.epoch, first <- Oldest(feed), next <- feed.nextSeq,
        seen <- seen

\* Handshakes, rewinds, lost connections and crashes are invisible from
\* outside: the feed and its client together implement the plain store of
\* Delivery, in which a unit is kept until it was delivered, and delivered
\* after all those before it.
Delivers == D!Spec
=============================================================================
