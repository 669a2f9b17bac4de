--------------------------- MODULE YoloFeedDelivery ---------------------------
(***************************************************************************)
(* Proofs that YoloFeed loses nothing in silence, for every size, limit    *)
(* and bound, and that it implements Delivery.                             *)
(*                                                                         *)
(* The argument: what a decoder has been given of an epoch, its newest     *)
(* unit `seen', has no holes.  So it is enough that everything else lags   *)
(* behind seen: an acknowledgement, what a client says it has presented,   *)
(* the oldest unit of the backlog, and the place at which serve() resumes. *)
(***************************************************************************)
EXTENDS YoloFeedProofs

-----------------------------------------------------------------------------
(* The inductive invariant.                                                *)

\* When s was seen: unit seq of the epoch was given to a decoder, or the epoch is
\* over for all decoders.
Given(s, epoch, seq) ==
    epoch < s.epoch \/ (epoch = s.epoch /\ seq <= s.seq)

\* The unit of the epoch that a decoder has to be given next.
Wanted(s, epoch) == IF s.epoch = epoch THEN s.seq + 1 ELSE 0

\* The record before the i-th of w, if rec was read last.
Prev(rec, w, i) == IF i = 1 THEN rec ELSE w[i - 1]

\* Decoders are never ahead of the source.
SeenOK ==
    /\ seen.epoch <= feed.epoch
    /\ seen.epoch = feed.epoch => seen.seq < feed.nextSeq
    /\ feed.epoch > 0

\* Nothing that a decoder still has to be given has left the backlog.
BacklogOK == Oldest(feed) <= Wanted(seen, feed.epoch)

AcksOK(s, q) ==
    \A i \in 1..Len(q) : q[i].type = "presented" => Given(s, q[i].epoch, q[i].seq)

\* Acknowledgements, what the client has decoded, and what it asks to resume
\* behind, were given to a decoder.
ClientOK ==
    /\ AcksOK(seen, cmds)
    /\ py.last <= py.got
    /\ py.got >= 0 => Given(seen, py.epoch, py.got)
    /\ py.hello.last >= 0 => Given(seen, py.hello.epoch, py.hello.last)
    /\ py.epoch <= feed.epoch

\* The last record read agrees with the client's state.
RecOK ==
    py.link # "down" =>
        /\ py.rec.type \in {"START", "FRAME"} => py.rec.epoch = py.epoch
        /\ py.rec.type = "FRAME" =>
              /\ py.rec.epoch = seen.epoch /\ py.rec.seq <= seen.seq
              /\ py.rec.seq <= py.got
        /\ py.rec.type = "END" /\ wire # <<>> => wire[1].type = "START"
        /\ py.rec.type = "END" /\ wire = <<>> /\ py.link = "up" =>
              conn.pc \notin Streaming

\* A record behind record prev on the wire is not from the future, and the first
\* of a run of frames begins where it is wanted or before.
RecordOK(s, f, prev, r) ==
    /\ r.epoch <= f.epoch
    /\ r.type = "START" => r.epoch > 0
    /\ r.type = "FRAME" =>
          /\ s.epoch <= r.epoch /\ 0 < r.epoch
          /\ r.epoch = f.epoch => r.seq < f.nextSeq
          /\ prev.type # "FRAME" => r.seq <= Wanted(s, r.epoch)

\* The epochs of frames never go back.
Ordered(w) ==
    \A i \in 1..Len(w) : \A j \in (i + 1)..Len(w) :
        w[i].type = "FRAME" /\ w[j].type = "FRAME" => w[i].epoch <= w[j].epoch

WireOK ==
    /\ \A i \in 1..Len(wire) : RecordOK(seen, feed, Prev(py.rec, wire, i), wire[i])
    /\ Ordered(wire)

\* Where serve() resumes, unless it continues behind a frame.
ResumeOK ==
    /\ conn.pc # "idle" => conn.epoch > 0
    /\ py.link = "up" /\ conn.pc # "idle" /\ conn.epoch = feed.epoch =>
          \/ conn.nextSeq <= Wanted(seen, conn.epoch)
          \/ conn.pc \in Streaming /\ LastRecord.type \in {"FRAME", "END"}

\* END behind record r closes the epoch of r, as long as that is the current one.
Closes(f, r) ==
    r.type \in {"START", "FRAME"} /\ r.epoch = f.epoch =>
        /\ f.sourceEnded
        /\ r.type = "START" => f.nextSeq = 0
        /\ r.type = "FRAME" => r.seq + 1 = f.nextSeq

EndOK ==
    \A i \in 1..Len(wire) :
        wire[i].type = "END" => Closes(feed, Prev(py.rec, wire, i))

DInv == SeenOK /\ BacklogOK /\ ClientOK /\ RecOK /\ WireOK /\ ResumeOK /\ EndOK

-----------------------------------------------------------------------------
(* What the methods of Feed do to the numbers of the units kept.           *)

\* The backlog is known by its length and the next number.
LEMMA OldestIs ==
    ASSUME NEW f \in Feed, FeedOK(f)
    PROVE  /\ Oldest(f) = f.nextSeq - Len(f.backlog)
           /\ Len(f.backlog) \in Nat /\ Oldest(f) \in Int
           /\ DOMAIN f.backlog = 1..Len(f.backlog)
<1>1. /\ Len(f.backlog) \in Nat /\ f.nextSeq \in Nat /\ f.backlog \in Seq(Unit)
      /\ DOMAIN f.backlog = 1..Len(f.backlog)
    BY LenProperties DEF Feed
<1>2. CASE f.backlog = <<>>
    <2>1. Len(f.backlog) = 0
        BY <1>2, EmptySeq
    <2> QED
        BY <1>1, <1>2, <2>1 DEF Oldest
<1>3. CASE f.backlog # <<>>
    <2>1. 1 \in 1..Len(f.backlog)
        BY <1>1, <1>3, EmptySeq
    <2>2. f.backlog[1].seq = f.nextSeq - Len(f.backlog) + 1 - 1
        BY <2>1 DEF FeedOK, Contiguous
    <2> QED
        BY <1>1, <1>3, <2>2 DEF Oldest
<1> QED
    BY <1>2, <1>3

\* A unit is kept exactly if its number is one from Oldest on.
LEMMA RetainedIs ==
    ASSUME NEW f \in Feed, FeedOK(f), NEW seq \in Int,
           Oldest(f) <= seq, seq < f.nextSeq
    PROVE  Retained(f, f.epoch, seq)
<1> DEFINE i == seq - Oldest(f) + 1
<1>1. /\ Oldest(f) = f.nextSeq - Len(f.backlog) /\ Len(f.backlog) \in Nat
      /\ DOMAIN f.backlog = 1..Len(f.backlog) /\ f.nextSeq \in Nat
    BY OldestIs DEF Feed
<1>2. i \in 1..Len(f.backlog)
    BY <1>1
<1>3. f.backlog[i].seq = f.nextSeq - Len(f.backlog) + i - 1
    BY <1>2 DEF FeedOK, Contiguous
<1>4. f.backlog[i].seq = seq
    BY <1>1, <1>3
<1> QED
    BY <1>1, <1>2, <1>4 DEF Retained

\* The units an acknowledgement removes are those up to its number.
LEMMA CutIs ==
    ASSUME NEW f \in Feed, FeedOK(f), NEW seq \in Nat
    PROVE  /\ Cut(f, seq) = 0 => Oldest(f) > seq \/ f.backlog = <<>>
           /\ Cut(f, seq) > 0 =>
                 \/ Oldest(f) + Cut(f, seq) = seq + 1
                 \/ Oldest(f) + Cut(f, seq) <= seq /\ Cut(f, seq) = Len(f.backlog)
<1> DEFINE L == Len(f.backlog)
           b == Oldest(f)
           S == {n \in DOMAIN f.backlog : \A i \in 1..n : f.backlog[i].seq <= seq}
           c == IF seq < b THEN 0 ELSE IF seq - b + 1 < L THEN seq - b + 1 ELSE L
<1>1. /\ b = f.nextSeq - L /\ L \in Nat /\ b \in Int /\ f.nextSeq \in Nat
      /\ DOMAIN f.backlog = 1..L
    BY OldestIs DEF Feed
<1>2. \A i \in 1..L : f.backlog[i].seq = b + i - 1
    BY <1>1 DEF FeedOK, Contiguous
<1> HIDE DEF b
<1>3. c \in 0..L
    BY <1>1
<1>4. \A n \in 1..L : n <= c <=> b + n - 1 <= seq
    BY <1>1
<1>5. S = 1..c
    <2>1. ASSUME NEW n \in S PROVE n \in 1..c
        <3>1. n \in 1..L /\ \A i \in 1..n : f.backlog[i].seq <= seq
            BY <1>1, <2>1
        <3>2. n \in 1..n
            BY <3>1
        <3>3. f.backlog[n].seq <= seq
            BY <3>1, <3>2
        <3>4. b + n - 1 <= seq
            BY <1>2, <3>1, <3>3
        <3> QED
            BY <1>3, <1>4, <3>1, <3>4
    <2>2. ASSUME NEW n \in 1..c PROVE n \in S
        <3>1. n \in 1..L
            BY <1>1, <1>3
        <3>2. ASSUME NEW i \in 1..n PROVE f.backlog[i].seq <= seq
            <4>1. i \in 1..L /\ i <= c
                BY <1>1, <1>3, <3>1
            <4> QED
                BY <1>2, <1>4, <4>1
        <3> QED
            BY <1>1, <3>1, <3>2
    <2> QED
        BY <2>1, <2>2
<1>6. Cut(f, seq) = c
    <2> HIDE DEF c
    <2>1. Cardinality(1..c) = c
        BY <1>1, <1>3, FS_Interval
    <2> QED
        BY <1>5, <2>1 DEF Cut
<1>7. c = 0 => b > seq \/ L = 0
    BY <1>1
<1>8. c > 0 => b + c = seq + 1 \/ (b + c <= seq /\ c = L)
    BY <1>1
<1>9. L = 0 => f.backlog = <<>>
    BY EmptySeq DEF Feed
<1> QED
    BY <1>6, <1>7, <1>8, <1>9 DEF b

\* Three ways in which the feed moves on: the epoch gets at most one unit more,
\* a new one begins, or units that were seen are freed.
Grows(f, g) ==
    /\ g.epoch = f.epoch /\ Oldest(g) = Oldest(f)
    /\ g.nextSeq \in {f.nextSeq, f.nextSeq + 1}

Renews(f, g) == f.epoch < g.epoch /\ Oldest(g) = 0 /\ g.nextSeq \in {0, 1}

Frees(f, g) ==
    /\ g.epoch = f.epoch /\ g.nextSeq = f.nextSeq /\ seen.epoch = f.epoch
    /\ Oldest(f) < Oldest(g) /\ Oldest(g) <= seen.seq + 1

LEMMA ResetMoves ==
    ASSUME NEW f \in Feed
    PROVE  Renews(f, ResetLocked(f)) /\ ResetLocked(f).nextSeq = 0
<1>1. ResetLocked(f).backlog = <<>> /\ ResetLocked(f).nextSeq = 0
    BY DEF ResetLocked
<1>2. f.epoch < ResetLocked(f).epoch
    BY ResetOK DEF Feed
<1> QED
    BY <1>1, <1>2 DEF Renews, Oldest

LEMMA GrowsReflexive == \A f \in Feed : Grows(f, f)
    BY DEF Grows

LEMMA FinishMoves ==
    ASSUME NEW f \in Feed, NEW key \in BOOLEAN, FeedOK(f), ~f.sourceEnded
    PROVE  \/ Grows(f, FinishAccessUnit(f, key))
           \/ /\ Renews(f, FinishAccessUnit(f, key))
              /\ FinishAccessUnit(f, key).nextSeq = 0
<1> DEFINE g == Retain(f, key)
<1>1. CASE ~f.seenIDR /\ ~key
    BY <1>1, GrowsReflexive DEF FinishAccessUnit
<1>2. CASE f.seenIDR \/ key
    <2>1. /\ g \in Feed /\ g.epoch = f.epoch /\ g.nextSeq = f.nextSeq + 1
          /\ Len(g.backlog) = Len(f.backlog) + 1
        BY RetainType
    <2>2. FeedOK(g)
        BY <1>2, RetainOK
    <2>3. f.nextSeq \in Nat
        BY DEF Feed
    <2>4. CASE ~Overflow(g)
        <3>1. FinishAccessUnit(f, key) = g
            BY <1>2, <2>4 DEF FinishAccessUnit
        <3> HIDE DEF g
        <3>2. Oldest(g) = g.nextSeq - Len(g.backlog)
            BY <2>1, <2>2, OldestIs
        <3>3. Oldest(f) = f.nextSeq - Len(f.backlog) /\ Len(f.backlog) \in Nat
            BY OldestIs
        <3>4. Oldest(g) = Oldest(f)
            BY <2>1, <2>3, <3>2, <3>3
        <3> QED
            BY <2>1, <3>1, <3>4 DEF Grows
    <2>5. CASE Overflow(g)
        <3>1. FinishAccessUnit(f, key) = ResetLocked(g)
            BY <1>2, <2>5 DEF FinishAccessUnit
        <3> HIDE DEF g
        <3> QED
            BY <2>1, <3>1, ResetMoves DEF Renews
    <2> QED
        BY <2>4, <2>5
<1> QED
    BY <1>1, <1>2

LEMMA PublishMoves ==
    ASSUME NEW f \in Feed, NEW gap \in BOOLEAN, NEW key \in BOOLEAN, FeedOK(f)
    PROVE  /\ Grows(f, Admit(f, gap)) \/ Renews(f, Admit(f, gap))
           /\ \/ Grows(f, FinishAccessUnit(Admit(f, gap), key))
              \/ Renews(f, FinishAccessUnit(Admit(f, gap), key))
<1> DEFINE g == Admit(f, gap)
           h == FinishAccessUnit(g, key)
<1>1. g \in Feed /\ FeedOK(g) /\ ~g.sourceEnded
    BY AdmitOK
<1>2. Grows(g, h) \/ (Renews(g, h) /\ h.nextSeq = 0)
    BY <1>1, FinishMoves
<1>3. g = f \/ (Renews(f, g) /\ g.nextSeq = 0)
    BY ResetMoves DEF Admit
<1>4. h \in Feed
    BY <1>1, FinishOK
<1> HIDE DEF g, h
<1>5. f.epoch \in Nat /\ g.epoch \in Nat /\ h.epoch \in Nat
    BY <1>1, <1>4 DEF Feed
<1>6. Grows(f, g) \/ Renews(f, g)
    BY <1>3, GrowsReflexive
<1>7. Grows(f, h) \/ Renews(f, h)
    <2>1. CASE g = f
        BY <1>2, <2>1
    <2>2. CASE Renews(f, g) /\ g.nextSeq = 0
        BY <1>2, <1>5, <2>2 DEF Grows, Renews
    <2> QED
        BY <1>3, <2>1, <2>2
<1> QED
    BY <1>6, <1>7 DEF g, h

LEMMA AckMoves ==
    ASSUME NEW f \in Feed, NEW epoch \in Nat, NEW seq \in Nat, FeedOK(f)
    PROVE  \/ Grows(f, Acknowledge(f, epoch, seq))
           \/ LET g == Acknowledge(f, epoch, seq)
              IN  /\ epoch = f.epoch /\ g.epoch = f.epoch /\ g.nextSeq = f.nextSeq
                  /\ Oldest(f) < Oldest(g) /\ Oldest(g) <= seq + 1
<1>1. CASE epoch # f.epoch
    BY <1>1, GrowsReflexive DEF Acknowledge
<1>2. CASE epoch = f.epoch
    <2> DEFINE g == Acknowledge(f, epoch, seq)
    <2>1. /\ g \in Feed /\ g.epoch = f.epoch /\ g.nextSeq = f.nextSeq
          /\ Len(g.backlog) = Len(f.backlog) - Cut(f, seq)
        BY <1>2, AcknowledgeType
    <2>2. FeedOK(g)
        BY AcknowledgeOK
    <2>3. Cut(f, seq) \in 0..Len(f.backlog) /\ f.nextSeq \in Nat
        BY CutType DEF Feed
    <2> HIDE DEF g
    <2>4. /\ Oldest(f) = f.nextSeq - Len(f.backlog) /\ Len(f.backlog) \in Nat
          /\ Oldest(g) = g.nextSeq - Len(g.backlog)
        BY <2>1, <2>2, OldestIs
    <2>5. Oldest(g) = Oldest(f) + Cut(f, seq)
        BY <2>1, <2>3, <2>4
    <2>6. CASE Cut(f, seq) = 0
        BY <2>1, <2>4, <2>5, <2>6 DEF Grows, g
    <2>7. CASE Cut(f, seq) > 0
        <3>1. Oldest(f) + Cut(f, seq) <= seq + 1
            BY <2>3, <2>4, <2>7, CutIs
        <3> QED
            BY <1>2, <2>1, <2>3, <2>4, <2>5, <2>7, <3>1 DEF g
    <2> QED
        BY <2>3, <2>6, <2>7
<1> QED
    BY <1>1, <1>2

-----------------------------------------------------------------------------
(* What a decoder has been given only grows.                               *)

SeenGrows ==
    /\ seen.epoch <= seen'.epoch
    /\ seen'.epoch = seen.epoch => seen.seq <= seen'.seq

LEMMA GivenStays ==
    ASSUME TypeOK, seen' \in [epoch : Nat, seq : Nat], SeenGrows,
           NEW epoch \in Nat, NEW seq \in Int, Given(seen, epoch, seq)
    PROVE  Given(seen', epoch, seq)
<1>1. seen.epoch \in Nat /\ seen.seq \in Nat /\ seen'.epoch \in Nat /\ seen'.seq \in Nat
    BY DEF TypeOK
<1> QED
    BY <1>1 DEF SeenGrows, Given

\* In the feed's epoch, the only one that is still delivered.
LEMMA WantedGrows ==
    ASSUME TypeOK, seen' \in [epoch : Nat, seq : Nat], SeenGrows,
           NEW epoch \in Nat, seen'.epoch <= epoch
    PROVE  Wanted(seen, epoch) <= Wanted(seen', epoch) /\ Wanted(seen, epoch) \in Nat
<1>1. seen.epoch \in Nat /\ seen.seq \in Nat /\ seen'.epoch \in Nat /\ seen'.seq \in Nat
    BY DEF TypeOK
<1> QED
    BY <1>1 DEF SeenGrows, Wanted

LEMMA SeenMoves ==
    ASSUME [Next]_vars, ~Receive
    PROVE  seen' = seen
BY DEF Next, Source, Publish, EndSource, Serve, Accept, ReadBegin, Rewind,
       StartRequiresIDR, SendStart, TakeCommand, HandleAck, HandleResync, HandleStop,
       Tick, ResumeUnavailable, SendFrame, SendEnd, ServeEOF, Python, Connect,
       Drained, Disconnect, DecodeError, PyRestart, Present, ViewerResync,
       ViewerStop, vars

\* A record that is read is the first of the wire.  If it is a frame it is of
\* the client's epoch, and at most one ahead of what was seen of it.
LEMMA ReceiveSeen ==
    ASSUME IInv, DInv, Receive
    PROVE  /\ Head(wire) = wire[1] /\ wire[1] \in Record /\ 1 \in 1..Len(wire)
           /\ wire \in Seq(Record) /\ py.link # "down"
           /\ UNCHANGED <<feed, conn>>
           /\ seen' \in [epoch : Nat, seq : Nat]
           /\ wire[1].type # "FRAME" => seen' = seen
           /\ wire[1].type = "FRAME" =>
                 /\ wire[1].epoch = py.epoch /\ wire[1].epoch = seen'.epoch
                 /\ wire[1].seq <= seen'.seq
                 /\ wire[1].seq <= Wanted(seen, wire[1].epoch)
                 /\ seen' = IF wire[1].epoch # seen.epoch \/ wire[1].seq > seen.seq
                            THEN [epoch |-> wire[1].epoch, seq |-> wire[1].seq]
                            ELSE seen
           /\ SeenGrows
<1> DEFINE r == wire[1]
<1>1. /\ wire \in Seq(Record) /\ wire # <<>> /\ py.link # "down"
      /\ UNCHANGED <<feed, conn>> /\ seen \in [epoch : Nat, seq : Nat]
      /\ py \in Py
    BY DEF Receive, IInv, TypeOK
<1>2. Head(wire) = r /\ r \in Record /\ 1 \in 1..Len(wire)
    BY <1>1, HeadTailProperties, LenProperties, EmptySeq, ElementOfSeq
<1>3. r.epoch \in Nat /\ r.seq \in Nat
    BY <1>2 DEF Record
<1>4. seen' = IF r.type = "FRAME" /\ (r.epoch # seen.epoch \/ r.seq > seen.seq)
              THEN [epoch |-> r.epoch, seq |-> r.seq] ELSE seen
    BY <1>2 DEF Receive
<1>5. Follows(py.rec, r)
    BY <1>2 DEF IInv, Decodable
<1>6. r.type = "FRAME" => seen.epoch <= r.epoch
    BY <1>2 DEF DInv, WireOK, RecordOK
<1>7. r.type = "FRAME" /\ py.rec.type # "FRAME" => r.seq <= Wanted(seen, r.epoch)
    BY <1>2 DEF DInv, WireOK, RecordOK, Prev
<1>8. r.type = "FRAME" /\ py.rec.type = "FRAME" => r.seq <= Wanted(seen, r.epoch)
    <2>1. SUFFICES ASSUME r.type = "FRAME", py.rec.type = "FRAME"
                   PROVE  r.seq <= Wanted(seen, r.epoch)
        OBVIOUS
    <2>2. r.seq = py.rec.seq + 1 /\ py.rec.epoch = r.epoch
        BY <1>5, <2>1 DEF Follows
    <2>3. py.rec.epoch = seen.epoch /\ py.rec.seq <= seen.seq
        BY <1>1, <2>1 DEF DInv, RecOK
    <2>4. py.rec.seq \in Nat /\ seen.seq \in Nat
        BY <1>1 DEF Py, Record
    <2> QED
        BY <2>2, <2>3, <2>4 DEF Wanted
<1>9. r.type = "FRAME" => r.epoch = py.epoch
    BY <1>1, <1>5 DEF Follows, DInv, RecOK
<1> HIDE DEF r
<1>10. seen.epoch \in Nat /\ seen.seq \in Nat /\ seen' \in [epoch : Nat, seq : Nat]
    BY <1>1, <1>3, <1>4
<1>11. /\ r.type # "FRAME" => seen' = seen
       /\ r.type = "FRAME" => r.epoch = seen'.epoch /\ r.seq <= seen'.seq
    BY <1>3, <1>4, <1>10
<1>12. SeenGrows
    BY <1>3, <1>4, <1>6, <1>10 DEF SeenGrows
<1> QED
    BY <1>1, <1>2, <1>4, <1>7, <1>8, <1>9, <1>10, <1>11, <1>12 DEF r

LEMMA SeenStep ==
    ASSUME IInv, DInv, [Next]_vars
    PROVE  seen' \in [epoch : Nat, seq : Nat] /\ SeenGrows
<1>1. CASE Receive
    BY <1>1, ReceiveSeen
<1>2. CASE ~Receive
    <2>1. seen' = seen /\ seen \in [epoch : Nat, seq : Nat]
        BY <1>2, SeenMoves DEF IInv, TypeOK
    <2> QED
        BY <2>1 DEF SeenGrows
<1> QED
    BY <1>1, <1>2

LEMMA SeenOKStep ==
    ASSUME IInv, DInv, [Next]_vars
    PROVE  SeenOK'
<1>1. /\ feed \in Feed /\ feed' \in Feed /\ Evolves(feed, feed')
      /\ seen \in [epoch : Nat, seq : Nat]
    BY FeedStep DEF IInv, TypeOK
<1>2. /\ feed.epoch \in Nat /\ feed.nextSeq \in Nat /\ feed'.epoch \in Nat
      /\ feed'.nextSeq \in Nat /\ seen.epoch \in Nat /\ seen.seq \in Nat
    BY <1>1 DEF Feed
<1>3. SeenOK
    BY DEF DInv
<1>4. CASE ~Receive
    <2>1. seen' = seen
        BY <1>4, SeenMoves
    <2> QED
        BY <1>1, <1>2, <1>3, <2>1 DEF SeenOK, Evolves
<1>5. CASE Receive
    <2>1. CASE wire[1].type # "FRAME"
        BY <1>3, <1>5, <2>1, ReceiveSeen DEF SeenOK
    <2>2. CASE wire[1].type = "FRAME"
        <3>1. /\ wire[1].epoch <= feed.epoch
              /\ wire[1].epoch = feed.epoch => wire[1].seq < feed.nextSeq
            BY <1>5, <2>2, ReceiveSeen DEF DInv, WireOK, RecordOK
        <3>2. /\ feed' = feed
              /\ seen' = seen \/ seen' = [epoch |-> wire[1].epoch, seq |-> wire[1].seq]
            BY <1>5, <2>2, ReceiveSeen
        <3> QED
            BY <1>3, <3>1, <3>2 DEF SeenOK
    <2> QED
        BY <2>1, <2>2
<1> QED
    BY <1>4, <1>5

-----------------------------------------------------------------------------
(* What leaves the backlog was seen.                                       *)

\* The oldest command, if it is an acknowledgement, was given.
LEMMA AckGiven ==
    ASSUME IInv, DInv, HandleAck
    PROVE  /\ Head(cmds).epoch \in Nat /\ Head(cmds).seq \in Nat
           /\ Given(seen, Head(cmds).epoch, Head(cmds).seq)
<1>1. cmds \in Seq(Command) /\ cmds # <<>> /\ Head(cmds).type = "presented"
    BY DEF IInv, TypeOK, HandleAck, TakeCommand
<1>2. Head(cmds) = cmds[1] /\ cmds[1] \in Command /\ 1 \in 1..Len(cmds)
    BY <1>1, HeadTailProperties, LenProperties, EmptySeq, ElementOfSeq
<1>3. cmds[1].epoch \in Nat /\ cmds[1].seq \in Nat
    BY <1>2 DEF Command
<1> QED
    BY <1>1, <1>2, <1>3 DEF DInv, ClientOK, AcksOK

LEMMA FeedMoves ==
    ASSUME IInv, DInv, [Next]_vars
    PROVE  Grows(feed, feed') \/ Renews(feed, feed') \/ Frees(feed, feed')
<1>0. feed \in Feed /\ FeedOK(feed)
    BY DEF IInv, TypeOK
<1>1. CASE UNCHANGED feed
    BY <1>0, <1>1, GrowsReflexive
<1>2. CASE feed' = ResetLocked(feed)
    BY <1>0, <1>2, ResetMoves
<1>3. ASSUME NEW gap \in BOOLEAN, NEW unit \in {"none", "key", "delta"},
             Publish(gap, unit)
      PROVE  Grows(feed, feed') \/ Renews(feed, feed')
    <2>1. (unit = "key") \in BOOLEAN
        OBVIOUS
    <2> QED
        BY <1>0, <1>3, <2>1, PublishMoves DEF Publish
<1>4. CASE feed' = [feed EXCEPT !.sourceEnded = TRUE, !.endSent = FALSE]
           \/ feed' = [feed EXCEPT !.endSent = TRUE]
    BY <1>0, <1>4 DEF Feed, Grows, Oldest
<1>5. CASE HandleAck
    <2> DEFINE e == Head(cmds).epoch
               s == Head(cmds).seq
    <2>1. e \in Nat /\ s \in Nat /\ Given(seen, e, s)
        BY <1>5, AckGiven
    <2>2. feed' = Acknowledge(feed, e, s)
        BY <1>5 DEF HandleAck
    <2> HIDE DEF e, s
    <2>3. \/ Grows(feed, feed')
          \/ /\ e = feed.epoch /\ feed'.epoch = feed.epoch
             /\ feed'.nextSeq = feed.nextSeq
             /\ Oldest(feed) < Oldest(feed') /\ Oldest(feed') <= s + 1
        BY <1>0, <2>1, <2>2, AckMoves
    <2>4. e = feed.epoch => seen.epoch = feed.epoch /\ s <= seen.seq
        <3>1. seen.epoch \in Nat /\ feed.epoch \in Nat
            BY DEF IInv, TypeOK, Feed
        <3> QED
            BY <2>1, <3>1 DEF Given, DInv, SeenOK
    <2>5. /\ seen.seq \in Int
          /\ feed' \in Feed /\ FeedOK(feed')
        BY FeedStep DEF IInv, TypeOK
    <2>6. Oldest(feed') \in Int
        BY <2>5, OldestIs
    <2> QED
        BY <2>1, <2>3, <2>4, <2>5, <2>6 DEF Frees
<1>6. CASE Serve
    BY <1>1, <1>2, <1>4, <1>5, <1>6
       DEF Serve, Accept, ReadBegin, Rewind, StartRequiresIDR, SendStart,
           HandleResync, HandleStop, Tick, ResumeUnavailable, SendFrame, SendEnd,
           ServeEOF
<1>7. CASE Python
    BY <1>1, <1>7 DEF Python, Connect, Receive, Drained, Disconnect, DecodeError,
           PyRestart, Present, ViewerResync, ViewerStop
<1> QED
    BY <1>1, <1>3, <1>4, <1>6, <1>7 DEF Next, Source, EndSource, vars

LEMMA BacklogOKStep ==
    ASSUME IInv, DInv, [Next]_vars
    PROVE  BacklogOK'
<1>1. /\ feed \in Feed /\ feed' \in Feed /\ FeedOK(feed) /\ FeedOK(feed')
      /\ TypeOK /\ SeenOK /\ SeenOK' /\ BacklogOK
    BY FeedStep, SeenOKStep DEF IInv, TypeOK, DInv
<1>2. /\ seen' \in [epoch : Nat, seq : Nat] /\ SeenGrows
      /\ seen \in [epoch : Nat, seq : Nat]
    BY SeenStep DEF IInv, TypeOK
<1>3. /\ feed.epoch \in Nat /\ feed'.epoch \in Nat
      /\ Oldest(feed) \in Int /\ Oldest(feed') \in Int
    BY <1>1, OldestIs DEF Feed
<1>4. Wanted(seen', feed'.epoch) \in Nat
    BY <1>2 DEF Wanted
<1>5. CASE Grows(feed, feed')
    <2>1. feed'.epoch = feed.epoch /\ Oldest(feed') = Oldest(feed)
        BY <1>5 DEF Grows
    <2>2. seen'.epoch <= feed.epoch
        BY <1>1, <2>1 DEF SeenOK
    <2>3. /\ Wanted(seen, feed.epoch) <= Wanted(seen', feed.epoch)
          /\ Wanted(seen, feed.epoch) \in Nat
        BY <1>1, <1>2, <1>3, <2>2, WantedGrows
    <2>4. Wanted(seen', feed'.epoch) = Wanted(seen', feed.epoch)
        BY <2>1 DEF Wanted
    <2>5. Wanted(seen', feed.epoch) \in Nat
        BY <1>4, <2>4
    <2> QED
        BY <1>1, <1>3, <2>1, <2>3, <2>4, <2>5 DEF BacklogOK
<1>6. CASE Renews(feed, feed')
    BY <1>4, <1>6 DEF Renews, BacklogOK, Oldest
<1>7. CASE Frees(feed, feed')
    <2>1. seen.epoch = feed'.epoch /\ Oldest(feed') <= seen.seq + 1
        BY <1>7 DEF Frees
    <2>2. seen'.epoch = seen.epoch /\ seen.seq <= seen'.seq
        BY <1>1, <1>2, <1>3, <2>1 DEF SeenOK, SeenGrows
    <2> QED
        BY <1>2, <1>3, <2>1, <2>2 DEF BacklogOK, Wanted, Oldest
<1> QED
    BY <1>5, <1>6, <1>7, FeedMoves

-----------------------------------------------------------------------------
(* What the client says was given.                                         *)

LEMMA AcksStay ==
    ASSUME TypeOK, seen' \in [epoch : Nat, seq : Nat], SeenGrows,
           NEW q \in Seq(Command), AcksOK(seen, q)
    PROVE  AcksOK(seen', q)
<1> SUFFICES ASSUME NEW i \in 1..Len(q), q[i].type = "presented"
             PROVE  Given(seen', q[i].epoch, q[i].seq)
    BY DEF AcksOK
<1>1. q[i].epoch \in Nat /\ q[i].seq \in Nat
    <2>1. q[i] \in Command
        BY ElementOfSeq
    <2> QED
        BY <2>1 DEF Command
<1>2. Given(seen, q[i].epoch, q[i].seq)
    BY DEF AcksOK
<1> QED
    BY <1>1, <1>2, GivenStays

\* Whatever is lost of the commands, those left are a suffix.
LEMMA AcksUnread ==
    ASSUME TypeOK, NEW s, AcksOK(s, cmds), NEW rest \in Unread
    PROVE  AcksOK(s, rest)
<1>1. cmds \in Seq(Command) /\ Len(cmds) \in Nat
    BY LenProperties DEF TypeOK
<1>2. PICK n \in 1..(Len(cmds) + 1) : rest = SubSeq(cmds, n, Len(cmds))
    BY DEF Unread
<1>3. n \in Nat /\ n > 0 /\ n <= Len(cmds) + 1
    BY <1>1
<1>4. \A i \in n..Len(cmds) : cmds[i] \in Command
    BY <1>1, <1>3, ElementOfSeq
<1>5. /\ Len(rest) = IF n <= Len(cmds) THEN Len(cmds) - n + 1 ELSE 0
      /\ \A i \in 1..(Len(cmds) - n + 1) : rest[i] = cmds[n + i - 1]
    BY <1>1, <1>2, <1>3, <1>4, SubSeqProperties
<1>6. ASSUME NEW i \in 1..Len(rest)
      PROVE  rest[i] = cmds[n + i - 1] /\ n + i - 1 \in 1..Len(cmds)
    BY <1>1, <1>3, <1>5
<1> QED
    BY <1>6 DEF AcksOK

LEMMA AcksTail ==
    ASSUME TypeOK, NEW s, AcksOK(s, cmds), cmds # <<>>
    PROVE  AcksOK(s, Tail(cmds))
<1>1. cmds \in Seq(Command) /\ Len(cmds) \in Nat
    BY LenProperties DEF TypeOK
<1>2. /\ Len(Tail(cmds)) = Len(cmds) - 1
      /\ \A i \in 1..Len(Tail(cmds)) : Tail(cmds)[i] = cmds[i + 1]
    BY <1>1, HeadTailProperties
<1>3. \A i \in 1..Len(Tail(cmds)) : i + 1 \in 1..Len(cmds)
    BY <1>1, <1>2
<1> QED
    BY <1>2, <1>3 DEF AcksOK

LEMMA AcksAppend ==
    ASSUME NEW s, NEW q \in Seq(Command), NEW c \in Command, AcksOK(s, q),
           c.type = "presented" => Given(s, c.epoch, c.seq)
    PROVE  AcksOK(s, Append(q, c))
<1>1. Len(q) \in Nat
    BY LenProperties
<1>2. /\ Len(Append(q, c)) = Len(q) + 1
      /\ \A i \in 1..Len(q) : Append(q, c)[i] = q[i]
      /\ Append(q, c)[Len(q) + 1] = c
    BY AppendProperties
<1>3. \A i \in 1..Len(Append(q, c)) : i \in 1..Len(q) \/ i = Len(q) + 1
    BY <1>1, <1>2
<1> QED
    BY <1>2, <1>3 DEF AcksOK

LEMMA ClientOKServe ==
    ASSUME IInv, DInv, Serve
    PROVE  ClientOK'
<1>1. seen' = seen /\ feed'.epoch \in Nat /\ feed.epoch <= feed'.epoch
    <2>1. ~Receive => seen' = seen
        BY SeenMoves DEF Next
    <2>2. seen' = seen
        BY <2>1 DEF Serve, Accept, ReadBegin, Rewind, StartRequiresIDR, SendStart,
               TakeCommand, HandleAck, HandleResync, HandleStop, Tick,
               ResumeUnavailable, SendFrame, SendEnd, ServeEOF
    <2>3. feed' \in Feed /\ feed \in Feed /\ Evolves(feed, feed')
        BY FeedStep DEF IInv, TypeOK, Next
    <2> QED
        BY <2>2, <2>3 DEF Evolves, Feed
<1>2. TypeOK /\ ClientOK /\ py \in Py
    BY DEF IInv, DInv, TypeOK
<1>3. AcksOK(seen, cmds')
    <2>1. CASE cmds' = cmds
        BY <1>2, <2>1 DEF ClientOK
    <2>2. CASE HandleAck \/ HandleResync \/ HandleStop
        <3>1. cmds # <<>> /\ cmds' = Tail(cmds)
            BY <2>2 DEF HandleAck, HandleResync, HandleStop, TakeCommand
        <3> QED
            BY <1>2, <3>1, AcksTail DEF ClientOK
    <2> QED
        BY <2>1, <2>2 DEF Serve, Accept, ReadBegin, Rewind, StartRequiresIDR,
               SendStart, Tick, ResumeUnavailable, SendFrame, SendEnd, ServeEOF
<1>4. /\ py'.last = py.last /\ py'.got = py.got /\ py'.epoch = py.epoch
      /\ py'.hello = py.hello \/ py'.hello.last = -2
    <2>1. CASE UNCHANGED py
        BY <2>1
    <2>2. CASE HandleStop
        BY <1>2, <2>2 DEF HandleStop, Py
    <2>3. ASSUME NEW t \in BOOLEAN, ReadBegin(t)
          PROVE  /\ py'.last = py.last /\ py'.got = py.got /\ py'.epoch = py.epoch
                 /\ py'.hello.last = -2
        <3>1. py' = [py EXCEPT !.hello = NoHello]
            BY <2>3 DEF ReadBegin
        <3> QED
            BY <1>2, <3>1 DEF Py, NoHello
    <2> QED
        BY <2>1, <2>2, <2>3 DEF Serve, Accept, Rewind, StartRequiresIDR, SendStart,
               HandleAck, HandleResync, Tick, ResumeUnavailable, SendFrame, SendEnd,
               ServeEOF
<1>5. py.epoch \in Nat /\ feed.epoch \in Nat
    BY <1>2 DEF TypeOK, Py, Feed
<1> QED
    BY <1>1, <1>2, <1>3, <1>4, <1>5 DEF ClientOK

\* A record changes what the client knows of its epoch, unless it is a frame.
LEMMA ReceivePy ==
    ASSUME IInv, DInv, Receive
    PROVE  /\ py'.hello = py.hello /\ py'.rec = wire[1]
           /\ wire[1].type # "END" => py'.link = py.link
           /\ wire[1].type = "END" => py'.link = "down"
           /\ wire[1].type = "RESET" => py'.epoch = wire[1].epoch
           /\ wire[1].type = "START" => py'.epoch = wire[1].epoch
           /\ wire[1].type \in {"FRAME", "END"} => py'.epoch = py.epoch
           /\ \/ py'.last = -1 /\ py'.got = -1
              \/ py'.epoch = py.epoch /\ py'.last = py.last /\ py'.got = py.got
              \/ /\ wire[1].type = "FRAME" /\ py'.epoch = py.epoch
                 /\ py'.last = py.last /\ py'.got = wire[1].seq
                 /\ wire[1].seq > py.got
           /\ wire[1].type = "FRAME" => py'.got >= wire[1].seq
<1> DEFINE r == wire[1]
           new == \/ r.type = "RESET"
                  \/ r.type = "START" /\ r.epoch # 0 /\ r.epoch # py.epoch
<1>1. /\ Head(wire) = r /\ r \in Record /\ 1 \in 1..Len(wire) /\ py \in Py
    BY ReceiveSeen DEF IInv, TypeOK
<1>2. r.type = "START" => r.epoch > 0
    BY <1>1 DEF DInv, WireOK, RecordOK
<1>3. py' = [py EXCEPT
               !.epoch = IF new THEN r.epoch ELSE @,
               !.last = IF new THEN -1 ELSE @,
               !.got = IF new THEN -1
                       ELSE IF r.type = "FRAME" /\ r.seq > @ THEN r.seq ELSE @,
               !.rec = r,
               !.link = IF r.type = "END" THEN "down" ELSE @]
    BY <1>1 DEF Receive
<1>4. /\ r.epoch \in Nat /\ r.seq \in Nat /\ py.got \in Int
      /\ r.type \in {"START", "RESET", "FRAME", "END"}
    BY <1>1 DEF Record, Py
<1> HIDE DEF r
<1>5. /\ py'.hello = py.hello /\ py'.rec = r
      /\ py'.epoch = IF new THEN r.epoch ELSE py.epoch
      /\ py'.last = IF new THEN -1 ELSE py.last
      /\ py'.got = IF new THEN -1
                   ELSE IF r.type = "FRAME" /\ r.seq > py.got THEN r.seq ELSE py.got
      /\ py'.link = IF r.type = "END" THEN "down" ELSE py.link
    BY <1>1, <1>3 DEF Py
<1> QED
    BY <1>2, <1>4, <1>5 DEF r

LEMMA ClientOKStep ==
    ASSUME IInv, DInv, [Next]_vars
    PROVE  ClientOK'
<1>0. /\ TypeOK /\ ClientOK /\ py \in Py /\ cmds \in Seq(Command)
      /\ py.epoch \in Nat /\ py.last \in Int /\ py.got \in Int
      /\ py.hello.epoch \in Nat /\ py.hello.last \in Int
    BY DEF IInv, DInv, TypeOK, Py
<1>1. /\ seen' \in [epoch : Nat, seq : Nat] /\ SeenGrows
      /\ feed.epoch \in Nat /\ feed'.epoch \in Nat /\ feed.epoch <= feed'.epoch
    <2>1. feed' \in Feed /\ feed \in Feed /\ Evolves(feed, feed')
        BY FeedStep DEF IInv, TypeOK
    <2> QED
        BY <2>1, SeenStep DEF Evolves, Feed
<1>2. /\ AcksOK(seen', cmds)
      /\ py.got >= 0 => Given(seen', py.epoch, py.got)
      /\ py.hello.last >= 0 => Given(seen', py.hello.epoch, py.hello.last)
      /\ py.last <= py.got /\ py.epoch <= feed'.epoch
    BY <1>0, <1>1, AcksStay, GivenStays DEF ClientOK
<1>3. AcksOK(seen', <<>>)
    BY EmptySeq DEF AcksOK
<1>4. \A rest \in Unread : rest \in Seq(Command) /\ AcksOK(seen', rest)
    BY <1>0, <1>2, UnreadType, AcksUnread
<1>5. \A t \in {"resync", "stop"}, q \in Seq(Command) :
         AcksOK(seen', q) =>
            AcksOK(seen', Append(q, [type |-> t, epoch |-> 0, seq |-> 0]))
    <2>1. \A t \in {"resync", "stop"} :
             /\ [type |-> t, epoch |-> 0, seq |-> 0] \in Command
             /\ [type |-> t, epoch |-> 0, seq |-> 0].type # "presented"
        BY DEF Command
    <2> QED
        BY <2>1, AcksAppend
<1>6. CASE Serve
    BY <1>6, ClientOKServe
<1>7. CASE UNCHANGED <<py, cmds>>
    BY <1>2, <1>7 DEF ClientOK
<1>8. CASE Connect
    <2>1. /\ py'.last = py.last /\ py'.got = py.got /\ py'.epoch = py.epoch
          /\ py'.hello.epoch = py.epoch /\ py'.hello.last = py.last
          /\ cmds' = cmds
        BY <1>0, <1>8 DEF Connect, Py
    <2>2. py.last >= 0 => Given(seen', py.epoch, py.last)
        BY <1>0, <1>1, <1>2 DEF Given
    <2> QED
        BY <1>2, <2>1, <2>2 DEF ClientOK
<1>9. CASE Receive
    <2>1. AcksOK(seen', cmds')
        BY <1>2, <1>4, <1>9 DEF Receive
    <2>2. py'.hello = py.hello
        BY <1>9, ReceivePy
    <2>3. /\ wire[1] \in Record /\ feed' = feed
          /\ wire[1].epoch <= feed.epoch
          /\ wire[1].type \in {"START", "RESET", "FRAME", "END"}
        <3>1. wire[1] \in Record /\ 1 \in 1..Len(wire) /\ feed' = feed
            BY <1>9, ReceiveSeen
        <3> QED
            BY <3>1 DEF DInv, WireOK, RecordOK, Record
    <2>4. py'.epoch <= feed'.epoch
        BY <1>2, <1>9, <2>3, ReceivePy
    <2>5. py'.last <= py'.got /\ (py'.got >= 0 => Given(seen', py'.epoch, py'.got))
        <3>1. CASE py'.last = -1 /\ py'.got = -1
            BY <3>1
        <3>2. CASE py'.epoch = py.epoch /\ py'.last = py.last /\ py'.got = py.got
            BY <1>2, <3>2
        <3>3. CASE /\ wire[1].type = "FRAME" /\ py'.epoch = py.epoch
                   /\ py'.last = py.last /\ py'.got = wire[1].seq
                   /\ wire[1].seq > py.got
            <4>1. /\ wire[1].epoch = py.epoch /\ seen'.epoch = py.epoch
                  /\ wire[1].seq <= seen'.seq
                BY <1>9, <3>3, ReceiveSeen
            <4>2. wire[1].seq \in Nat
                BY <2>3 DEF Record
            <4> QED
                BY <1>0, <1>2, <3>3, <4>1, <4>2 DEF Given
        <3> QED
            BY <1>9, <3>1, <3>2, <3>3, ReceivePy
    <2> QED
        BY <1>2, <2>1, <2>2, <2>4, <2>5 DEF ClientOK
<1>10. CASE Drained
    <2>1. /\ py'.last = py.last /\ py'.got = py.got /\ py'.epoch = py.epoch
          /\ py'.hello = py.hello /\ cmds' = cmds
        BY <1>0, <1>10 DEF Drained, Py
    <2> QED
        BY <1>2, <2>1 DEF ClientOK
<1>11. CASE Disconnect \/ DecodeError
    <2>1. py' = [py EXCEPT !.link = "down", !.hello = NoHello]
        BY <1>11 DEF Disconnect, DecodeError
    <2>2. /\ py'.last = py.last /\ py'.got = py.got /\ py'.epoch = py.epoch
          /\ py'.hello.last = -2
        BY <1>0, <2>1 DEF NoHello, Py
    <2>3. AcksOK(seen', cmds')
        BY <1>4, <1>5, <1>11 DEF Disconnect, DecodeError
    <2> QED
        BY <1>2, <2>2, <2>3 DEF ClientOK
<1>12. CASE PyRestart
    <2>1. py' = [py EXCEPT !.link = "down", !.hello = NoHello, !.epoch = 0,
                           !.last = -1, !.got = -1]
        BY <1>12 DEF PyRestart
    <2>2. /\ py'.last = -1 /\ py'.got = -1 /\ py'.epoch = 0 /\ py'.hello.last = -2
        BY <1>0, <2>1 DEF NoHello, Py
    <2>3. cmds' = <<>>
        BY <1>12 DEF PyRestart
    <2> QED
        BY <1>1, <1>3, <2>2, <2>3 DEF ClientOK
<1>13. CASE Present
    <2>1. PICK s \in (py.last + 1)..py.got :
             /\ py' = [py EXCEPT !.last = s]
             /\ cmds' = Append(cmds, [type |-> "presented", epoch |-> py.epoch,
                                      seq |-> s])
        BY <1>13 DEF Present
    <2>2. s \in Nat /\ s <= py.got
        BY <1>0 DEF Py
    <2>3. Given(seen', py.epoch, s)
        BY <1>0, <1>1, <1>2, <2>2 DEF Given
    <2>4. [type |-> "presented", epoch |-> py.epoch, seq |-> s] \in Command
        BY <1>0, <2>2 DEF Command
    <2>5. AcksOK(seen', cmds')
        BY <1>0, <1>2, <2>1, <2>3, <2>4, AcksAppend
    <2>6. /\ py'.last = s /\ py'.got = py.got /\ py'.epoch = py.epoch
          /\ py'.hello = py.hello
        BY <1>0, <2>1 DEF Py
    <2> QED
        BY <1>2, <2>2, <2>5, <2>6 DEF ClientOK
<1>14. CASE ViewerResync
    <2>1. /\ py'.last = -1 /\ py'.got = py.got /\ py'.epoch = py.epoch
          /\ py'.hello = py.hello
        BY <1>0, <1>14 DEF ViewerResync, Py
    <2>2. -1 <= py.got
        BY <1>0 DEF Py
    <2> QED
        BY <1>0, <1>2, <1>5, <1>14, <2>1, <2>2 DEF ClientOK, ViewerResync
<1>15. CASE ViewerStop
    BY <1>0, <1>2, <1>5, <1>15 DEF ClientOK, ViewerStop
<1> QED
    BY <1>6, <1>7, <1>8, <1>9, <1>10, <1>11, <1>12, <1>13, <1>14, <1>15
       DEF Next, Source, Publish, EndSource, Python, vars

-----------------------------------------------------------------------------
(* The records on the wire.                                                *)

\* What serve() may add to the wire, when the client is there to read it.
ServeWrites(recs) ==
    \/ conn.pc = "start" /\ recs = <<Start(conn.epoch)>>
    \/ conn.pc \in Streaming /\ recs = <<ResetRec(feed'.epoch), Start(feed'.epoch)>>
    \/ /\ conn.pc \in Streaming /\ UNCHANGED feed
       /\ \E u \in Unit :
             /\ u.epoch = feed.epoch /\ conn.epoch = feed.epoch
             /\ u.seq = conn.nextSeq /\ u.seq < feed.nextSeq
             /\ recs = <<Frame(u)>>
    \/ /\ conn.pc \in Streaming /\ recs = <<End>>
       /\ SourceComplete(feed, conn.epoch, conn.nextSeq)
       /\ feed' = [feed EXCEPT !.endSent = TRUE]

LEMMA ServeWire ==
    ASSUME IInv, DInv, Serve
    PROVE  /\ py'.rec = py.rec /\ py'.got = py.got /\ py'.epoch = py.epoch
           /\ UNCHANGED seen
           /\ wire' # wire =>
                 /\ py' = py /\ py.link = "up"
                 /\ \E recs \in Seq(Record) : ServeWrites(recs) /\ wire' = wire \o recs
<1>0. /\ feed \in Feed /\ FeedOK(feed) /\ conn \in Conn /\ py \in Py
      /\ feed' \in Feed
    BY FeedStep DEF IInv, TypeOK, Next
<1>1. UNCHANGED seen
    BY DEF Serve, Accept, ReadBegin, Rewind, StartRequiresIDR, SendStart,
           TakeCommand, HandleAck, HandleResync, HandleStop, Tick,
           ResumeUnavailable, SendFrame, SendEnd, ServeEOF
<1>2. py'.rec = py.rec /\ py'.got = py.got /\ py'.epoch = py.epoch
    <2>1. CASE HandleStop
        BY <1>0, <2>1 DEF HandleStop, Py
    <2>2. CASE \E t \in BOOLEAN : ReadBegin(t)
        BY <1>0, <2>2 DEF ReadBegin, Py
    <2> QED
        BY <2>1, <2>2 DEF Serve, Accept, Rewind, StartRequiresIDR, SendStart,
               HandleAck, HandleResync, Tick, ResumeUnavailable, SendFrame, SendEnd,
               ServeEOF
<1>3. conn.epoch \in Nat /\ feed'.epoch \in Nat
    BY <1>0 DEF Feed, Conn
<1>4. \A e \in Nat : /\ <<Start(e)>> \in Seq(Record)
                     /\ <<ResetRec(e), Start(e)>> \in Seq(Record)
    BY RecordTypes
<1>5. SUFFICES ASSUME wire' # wire
               PROVE  /\ py' = py /\ py.link = "up"
                      /\ \E recs \in Seq(Record) :
                            ServeWrites(recs) /\ wire' = wire \o recs
    BY <1>1, <1>2
<1>6. CASE SendStart
    BY <1>3, <1>4, <1>5, <1>6 DEF SendStart, Write, ServeWrites
<1>7. CASE HandleResync \/ Tick \/ ResumeUnavailable
    <2>1. py' = py /\ conn.pc \in Streaming
        BY <1>7 DEF HandleResync, TakeCommand, Tick, ResumeUnavailable, Streaming
    <2>2. py.link = "up" /\ wire' = wire \o <<ResetRec(feed'.epoch), Start(feed'.epoch)>>
        BY <1>5, <1>7 DEF HandleResync, Tick, ResumeUnavailable, Write
    <2> QED
        BY <1>3, <1>4, <2>1, <2>2 DEF ServeWrites
<1>8. CASE SendFrame
    <2>1. /\ Retained(feed, conn.epoch, conn.nextSeq)
          /\ py' = py /\ UNCHANGED feed /\ conn.pc \in Streaming
        BY <1>5, <1>8 DEF SendFrame, Streaming
    <2>2. PICK i \in DOMAIN feed.backlog :
             /\ feed.backlog[i].seq = conn.nextSeq
             /\ Write(<<Frame(feed.backlog[i])>>, [conn EXCEPT !.nextSeq = @ + 1])
        BY <1>5, <1>8 DEF SendFrame
    <2> DEFINE u == feed.backlog[i]
    <2>3. i \in 1..Len(feed.backlog) /\ feed.backlog \in Seq(Unit)
        BY <1>0, OldestIs DEF Feed
    <2>4. u \in Unit /\ u.epoch = feed.epoch /\ conn.epoch = feed.epoch
          /\ u.seq = feed.nextSeq - Len(feed.backlog) + i - 1
        BY <1>0, <2>1, <2>3, ElementOfSeq DEF FeedOK, Contiguous, Retained
    <2>5. u.seq < feed.nextSeq
        <3>1. feed.nextSeq \in Nat /\ Len(feed.backlog) \in Nat
            BY <1>0, OldestIs DEF Feed
        <3> QED
            BY <2>3, <2>4, <3>1
    <2>6. Frame(u) \in Record
        BY <2>4, RecordTypes
    <2>7. wire' = wire \o <<Frame(u)>> /\ py.link = "up"
        BY <1>5, <2>2 DEF Write
    <2>8. <<Frame(u)>> \in Seq(Record)
        BY <2>6
    <2>9. u.seq = conn.nextSeq
        BY <2>2
    <2> HIDE DEF u
    <2> QED
        BY <2>1, <2>4, <2>5, <2>7, <2>8, <2>9 DEF ServeWrites
<1>9. CASE SendEnd
    <2>1. /\ SourceComplete(feed, conn.epoch, conn.nextSeq)
          /\ feed' = [feed EXCEPT !.endSent = TRUE]
          /\ py' = py /\ py.link = "up" /\ conn.pc \in Streaming
          /\ wire' = wire \o <<End>>
        BY <1>5, <1>9 DEF SendEnd, Write, Streaming
    <2>2. <<End>> \in Seq(Record)
        BY RecordTypes
    <2> QED
        BY <2>1, <2>2 DEF ServeWrites
<1> QED
    BY <1>5, <1>6, <1>7, <1>8, <1>9
       DEF Serve, Accept, ReadBegin, Rewind, StartRequiresIDR, HandleAck, HandleStop,
           ServeEOF

\* The last record stands before the first one added.
LEMMA ConcatPrev ==
    ASSUME NEW w \in Seq(Record), NEW recs \in Seq(Record), NEW rec
    PROVE  /\ Len(w) \in Nat /\ Len(recs) \in Nat
           /\ Len(w \o recs) = Len(w) + Len(recs)
           /\ \A i \in 1..Len(w) : /\ (w \o recs)[i] = w[i]
                                   /\ Prev(rec, w \o recs, i) = Prev(rec, w, i)
           /\ \A k \in 1..Len(recs) : (w \o recs)[Len(w) + k] = recs[k]
           /\ recs # <<>> => Prev(rec, w \o recs, Len(w) + 1) =
                                IF w = <<>> THEN rec ELSE w[Len(w)]
<1> DEFINE n == Len(w)
           v == w \o recs
<1>1. /\ n \in Nat /\ Len(recs) \in Nat /\ Len(v) = n + Len(recs)
      /\ \A i \in 1..(n + Len(recs)) : v[i] = IF i <= n THEN w[i] ELSE recs[i - n]
    BY LenProperties, ConcatProperties
<1> HIDE DEF v
<1>2. w = <<>> <=> n = 0
    BY EmptySeq
<1> HIDE DEF n
<1>3. \A i \in 1..n : v[i] = w[i]
    BY <1>1
<1>4. \A i \in 1..n : Prev(rec, v, i) = Prev(rec, w, i)
    BY <1>1 DEF Prev
<1>5. \A k \in 1..Len(recs) : v[n + k] = recs[k]
    BY <1>1
<1>6. recs # <<>> => Prev(rec, v, n + 1) = IF w = <<>> THEN rec ELSE w[n]
    <2>1. CASE n = 0
        BY <1>2, <2>1 DEF Prev
    <2>2. CASE n # 0
        <3>1. n \in 1..n /\ n + 1 # 1 /\ n + 1 - 1 = n
            BY <1>1, <2>2
        <3> QED
            BY <1>2, <1>3, <2>2, <3>1 DEF Prev
    <2> QED
        BY <2>1, <2>2
<1> QED
    BY <1>1, <1>3, <1>4, <1>5, <1>6 DEF n, v

\* Reading moves every record one place to the front.
LEMMA TailPrev ==
    ASSUME NEW w \in Seq(Record), w # <<>>
    PROVE  /\ Len(Tail(w)) = Len(w) - 1 /\ Len(w) \in Nat
           /\ \A i \in 1..Len(Tail(w)) :
                 /\ i + 1 \in 1..Len(w) /\ Tail(w)[i] = w[i + 1]
                 /\ \A rec : Prev(w[1], Tail(w), i) = Prev(rec, w, i + 1)
<1>1. /\ Len(w) \in Nat /\ Len(Tail(w)) = Len(w) - 1
      /\ \A i \in 1..Len(Tail(w)) : Tail(w)[i] = w[i + 1]
    BY LenProperties, HeadTailProperties
<1>2. ASSUME NEW i \in 1..Len(Tail(w)), NEW rec
      PROVE  Prev(w[1], Tail(w), i) = Prev(rec, w, i + 1)
    <2>1. i + 1 # 1 /\ (i + 1) - 1 = i
        BY <1>1
    <2>2. Prev(rec, w, i + 1) = w[i]
        BY <2>1 DEF Prev
    <2>3. i # 1 => Tail(w)[i - 1] = w[i]
        <3>1. i # 1 => i - 1 \in 1..Len(Tail(w)) /\ (i - 1) + 1 = i
            BY <1>1
        <3> QED
            BY <1>1, <3>1
    <2> QED
        BY <2>2, <2>3 DEF Prev
<1>3. \A i \in 1..Len(Tail(w)) : i + 1 \in 1..Len(w)
    BY <1>1
<1> QED
    BY <1>1, <1>2, <1>3

LEMMA RecordStays ==
    ASSUME IInv, [Next]_vars, NEW prev, NEW r \in Record,
           RecordOK(seen, feed, prev, r)
    PROVE  RecordOK(seen, feed', prev, r)
<1>1. feed \in Feed /\ feed' \in Feed /\ Evolves(feed, feed')
    BY FeedStep DEF IInv, TypeOK
<1>2. /\ feed.epoch \in Nat /\ feed.nextSeq \in Nat /\ feed'.epoch \in Nat
      /\ feed'.nextSeq \in Nat
    BY <1>1 DEF Feed
<1>3. r.epoch \in Nat /\ r.seq \in Nat
    BY DEF Record
<1>4. \/ feed.epoch < feed'.epoch
      \/ feed.epoch = feed'.epoch /\ feed.nextSeq <= feed'.nextSeq
    BY <1>1 DEF Evolves
<1> QED
    BY <1>2, <1>3, <1>4 DEF RecordOK

\* Resets and starts are of the feed's epoch or one before; a frame begins
\* where serve() resumes, or continues.
LEMMA ServeWritesOK ==
    ASSUME IInv, DInv, [Next]_vars, NEW recs \in Seq(Record), ServeWrites(recs),
           py.link = "up"
    PROVE  /\ Len(recs) \in {1, 2}
           /\ RecordOK(seen, feed', LastRecord, recs[1])
           /\ Len(recs) = 2 => RecordOK(seen, feed', recs[1], recs[2])
           /\ \A k \in 2..Len(recs) : recs[k].type # "FRAME"
           /\ recs[1].type = "FRAME" => recs[1].epoch = feed.epoch
<1>1. /\ feed \in Feed /\ feed' \in Feed /\ Evolves(feed, feed') /\ conn \in Conn
      /\ conn.epoch <= feed.epoch
    BY FeedStep DEF IInv, TypeOK, PositionOK
<1>2. /\ feed.epoch \in Nat /\ feed'.epoch \in Nat /\ feed.epoch <= feed'.epoch
      /\ conn.epoch \in Nat /\ conn.nextSeq \in Nat /\ feed.nextSeq \in Nat
    BY <1>1 DEF Feed, Conn, Evolves
<1>3. feed.epoch > 0
    BY DEF DInv, SeenOK
<1>4. CASE conn.pc = "start" /\ recs = <<Start(conn.epoch)>>
    <2>1. Len(recs) = 1 /\ recs[1] = Start(conn.epoch)
        BY <1>4
    <2>2. conn.epoch > 0
        BY <1>4 DEF DInv, ResumeOK
    <2> QED
        BY <1>1, <1>2, <2>1, <2>2 DEF Start, RecordOK
<1>5. CASE recs = <<ResetRec(feed'.epoch), Start(feed'.epoch)>>
    <2>1. /\ Len(recs) = 2 /\ recs[1] = ResetRec(feed'.epoch)
          /\ recs[2] = Start(feed'.epoch)
        BY <1>5
    <2> QED
        BY <1>2, <1>3, <2>1 DEF Start, ResetRec, RecordOK
<1>6. ASSUME conn.pc \in Streaming, UNCHANGED feed, NEW u \in Unit,
             u.epoch = feed.epoch, conn.epoch = feed.epoch, u.seq = conn.nextSeq,
             u.seq < feed.nextSeq, recs = <<Frame(u)>>
      PROVE  /\ Len(recs) = 1 /\ RecordOK(seen, feed', LastRecord, recs[1])
             /\ recs[1].epoch = feed.epoch
    <2>1. /\ Len(recs) = 1 /\ recs[1].type = "FRAME" /\ recs[1].epoch = u.epoch
          /\ recs[1].seq = u.seq
        BY <1>6 DEF Frame
    <2>2. LastRecord.type = "END" => conn.nextSeq >= feed.nextSeq
        BY <1>6 DEF IInv, PositionOK
    <2>3. LastRecord.type # "END"
        BY <1>2, <1>6, <2>2
    <2>4. LastRecord.type # "FRAME" => conn.nextSeq <= Wanted(seen, conn.epoch)
        <3>1. conn.pc # "idle"
            BY <1>6 DEF Streaming
        <3> QED
            BY <1>6, <2>3, <3>1 DEF DInv, ResumeOK
    <2>5. seen.epoch <= feed.epoch
        BY DEF DInv, SeenOK
    <2> QED
        BY <1>2, <1>3, <1>6, <2>1, <2>4, <2>5 DEF RecordOK
<1>7. CASE recs = <<End>>
    <2>1. Len(recs) = 1 /\ recs[1] = End
        BY <1>7
    <2> QED
        BY <1>2, <2>1 DEF End, RecordOK
<1> QED
    BY <1>4, <1>5, <1>6, <1>7 DEF ServeWrites

\* Reading a frame leaves those behind it in order with what is now seen.
LEMMA RecordReceived ==
    ASSUME IInv, DInv, Receive, NEW prev, NEW r \in Record,
           RecordOK(seen, feed, prev, r),
           r.type = "FRAME" /\ wire[1].type = "FRAME" => wire[1].epoch <= r.epoch
    PROVE  RecordOK(seen', feed', prev, r)
<1>1. /\ feed' = feed /\ SeenGrows /\ TypeOK
      /\ seen' \in [epoch : Nat, seq : Nat] /\ r.epoch \in Nat /\ r.seq \in Nat
    BY ReceiveSeen DEF IInv, Record
<1>2. r.type = "FRAME" => seen'.epoch <= r.epoch
    <2>1. CASE wire[1].type # "FRAME"
        BY <2>1, ReceiveSeen DEF RecordOK
    <2>2. CASE wire[1].type = "FRAME"
        BY <2>2, ReceiveSeen
    <2> QED
        BY <2>1, <2>2
<1>3. r.type = "FRAME" /\ r.seq <= Wanted(seen, r.epoch) =>
         r.seq <= Wanted(seen', r.epoch)
    <2>1. Wanted(seen', r.epoch) \in Nat
        BY <1>1 DEF Wanted
    <2> QED
        BY <1>1, <1>2, <2>1, WantedGrows
<1> QED
    BY <1>1, <1>2, <1>3 DEF RecordOK

LEMMA WireOKStep ==
    ASSUME IInv, DInv, [Next]_vars
    PROVE  WireOK'
<1>0. /\ wire \in Seq(Record) /\ WireOK /\ py \in Py
      /\ \A i \in 1..Len(wire) : wire[i] \in Record
    <2>1. wire \in Seq(Record) /\ WireOK /\ py \in Py
        BY DEF IInv, TypeOK, DInv
    <2> QED
        BY <2>1, ElementOfSeq
<1>1. CASE UNCHANGED <<wire, seen>> /\ py'.rec = py.rec
    BY <1>0, <1>1, RecordStays DEF WireOK
<1>2. CASE wire' = <<>>
    BY <1>2, EmptySeq DEF WireOK, Ordered
<1>3. CASE Serve
    <2>1. CASE wire' = wire
        BY <1>1, <1>3, <2>1, ServeWire
    <2>2. CASE wire' # wire
        <3>1. PICK recs \in Seq(Record) : ServeWrites(recs) /\ wire' = wire \o recs
            BY <1>3, <2>2, ServeWire
        <3>2. py'.rec = py.rec /\ UNCHANGED seen /\ py.link = "up"
            BY <1>3, <2>2, ServeWire
        <3> DEFINE n == Len(wire)
        <3>3. /\ Len(recs) \in {1, 2}
              /\ RecordOK(seen, feed', LastRecord, recs[1])
              /\ Len(recs) = 2 => RecordOK(seen, feed', recs[1], recs[2])
              /\ \A k \in 2..Len(recs) : recs[k].type # "FRAME"
              /\ recs[1].type = "FRAME" => recs[1].epoch = feed.epoch
            BY <3>1, <3>2, ServeWritesOK
        <3>4. /\ n \in Nat /\ Len(wire') = n + Len(recs)
              /\ \A i \in 1..n : wire'[i] = wire[i]
                                 /\ Prev(py.rec, wire', i) = Prev(py.rec, wire, i)
              /\ \A k \in 1..Len(recs) : wire'[n + k] = recs[k]
              /\ recs # <<>> => Prev(py.rec, wire', n + 1) = LastRecord
            <4> DEFINE w == wire \o recs
            <4>1. /\ n \in Nat /\ Len(w) = n + Len(recs)
                  /\ \A i \in 1..n : w[i] = wire[i]
                  /\ \A k \in 1..Len(recs) : w[n + k] = recs[k]
                BY <1>0, ConcatPrev
            <4>2. \A i \in 1..n : Prev(py.rec, w, i) = Prev(py.rec, wire, i)
                BY <4>1 DEF Prev
            <4>3. recs # <<>> => Prev(py.rec, w, n + 1) =
                                   IF wire = <<>> THEN py.rec ELSE wire[n]
                BY <1>0, ConcatPrev
            <4>4. wire' = w
                BY <3>1
            <4> HIDE DEF w
            <4> QED
                BY <4>1, <4>2, <4>3, <4>4 DEF LastRecord, n
        <3>5. /\ recs # <<>> /\ wire'[n + 1] = recs[1]
              /\ Len(recs) = 2 => wire'[n + 2] = recs[2]
                                  /\ Prev(py.rec, wire', n + 2) = recs[1]
            <4>1. recs # <<>> /\ 1 \in 1..Len(recs)
                BY <3>3, EmptySeq
            <4>2. Len(recs) = 2 => 2 \in 1..Len(recs)
                OBVIOUS
            <4>3. wire'[n + 1] = recs[1] /\ (Len(recs) = 2 => wire'[n + 2] = recs[2])
                BY <3>4, <4>1, <4>2
            <4>4. n + 2 # 1 /\ n + 2 - 1 = n + 1
                BY <3>4
            <4>5. Prev(py.rec, wire', n + 2) = wire'[n + 1]
                BY <4>4 DEF Prev
            <4> QED
                BY <4>1, <4>3, <4>5
        <3> HIDE DEF n
        <3>6. \A i \in 1..Len(wire') :
                 i \in 1..n \/ i = n + 1 \/ (Len(recs) = 2 /\ i = n + 2)
            BY <3>3, <3>4
        <3>7. ASSUME NEW i \in 1..Len(wire')
              PROVE  RecordOK(seen, feed', Prev(py.rec, wire', i), wire'[i])
            <4>1. CASE i \in 1..n
                BY <1>0, <3>4, <4>1, RecordStays DEF WireOK, n
            <4>2. CASE i = n + 1
                BY <3>3, <3>4, <3>5, <4>2
            <4>3. CASE Len(recs) = 2 /\ i = n + 2
                BY <3>3, <3>5, <4>3
            <4> QED
                BY <3>6, <4>1, <4>2, <4>3
        <3>8. ASSUME NEW i \in 1..Len(wire'), NEW j \in (i + 1)..Len(wire'),
                     wire'[i].type = "FRAME", wire'[j].type = "FRAME"
              PROVE  wire'[i].epoch <= wire'[j].epoch
            <4>1. j \in 1..Len(wire') /\ i < j
                BY <3>3, <3>4
            <4>2. \A k \in 1..Len(wire') :
                     wire'[k].type = "FRAME" => k \in 1..n \/ k = n + 1
                <5>1. Len(recs) = 2 => wire'[n + 2].type # "FRAME"
                    BY <3>3, <3>5
                <5> QED
                    BY <3>6, <5>1
            <4>3. i \in 1..n
                BY <3>4, <3>8, <4>1, <4>2
            <4>4. CASE j \in 1..n
                <5>1. j \in (i + 1)..n
                    BY <3>4, <4>1, <4>3, <4>4
                <5> QED
                    BY <1>0, <3>4, <3>8, <4>3, <4>4, <5>1 DEF WireOK, Ordered, n
            <4>5. CASE j = n + 1
                <5>1. wire[i].epoch <= feed.epoch
                    BY <1>0, <4>3 DEF WireOK, RecordOK, n
                <5>2. wire'[j].epoch = feed.epoch /\ wire'[i] = wire[i]
                    BY <3>3, <3>4, <3>5, <3>8, <4>3, <4>5
                <5> QED
                    BY <5>1, <5>2
            <4> QED
                BY <3>8, <4>1, <4>2, <4>4, <4>5
        <3> QED
            BY <3>2, <3>7, <3>8 DEF WireOK, Ordered
    <2> QED
        BY <2>1, <2>2
<1>4. CASE Receive
    <2>1. CASE wire' = Tail(wire)
        <3>1. /\ wire # <<>> /\ py'.rec = wire[1] /\ wire \in Seq(Record)
              /\ 1 \in 1..Len(wire)
            BY <1>4, ReceivePy, ReceiveSeen DEF Receive
        <3>2. /\ Len(wire') = Len(wire) - 1 /\ Len(wire) \in Nat
              /\ \A i \in 1..Len(wire') :
                    /\ i + 1 \in 1..Len(wire) /\ wire'[i] = wire[i + 1]
                    /\ Prev(wire[1], wire', i) = Prev(py.rec, wire, i + 1)
            BY <2>1, <3>1, TailPrev
        <3>3. ASSUME NEW i \in 1..Len(wire')
              PROVE  RecordOK(seen', feed', Prev(wire[1], wire', i), wire'[i])
            <4>1. /\ i + 1 \in 1..Len(wire) /\ wire'[i] = wire[i + 1]
                  /\ i + 1 \in (1 + 1)..Len(wire)
                  /\ Prev(wire[1], wire', i) = Prev(py.rec, wire, i + 1)
                BY <3>2
            <4> DEFINE r == wire[i + 1]
                       p == Prev(py.rec, wire, i + 1)
            <4>2. r \in Record /\ RecordOK(seen, feed, p, r)
                BY <1>0, <4>1 DEF WireOK
            <4>3. r.type = "FRAME" /\ wire[1].type = "FRAME" => wire[1].epoch <= r.epoch
                BY <1>0, <3>1, <4>1 DEF WireOK, Ordered
            <4> HIDE DEF r, p
            <4>4. RecordOK(seen', feed', p, r)
                BY <1>4, <4>2, <4>3, RecordReceived
            <4> QED
                BY <4>1, <4>4 DEF r, p
        <3>4. Ordered(wire')
            <4> SUFFICES ASSUME NEW i \in 1..Len(wire'), NEW j \in (i + 1)..Len(wire'),
                                wire'[i].type = "FRAME", wire'[j].type = "FRAME"
                         PROVE  wire'[i].epoch <= wire'[j].epoch
                BY DEF Ordered
            <4>1. /\ i + 1 \in 1..Len(wire) /\ j + 1 \in ((i + 1) + 1)..Len(wire)
                  /\ j \in 1..Len(wire')
                BY <3>2
            <4>2. wire'[i] = wire[i + 1] /\ wire'[j] = wire[j + 1]
                BY <3>2, <4>1
            <4> QED
                BY <1>0, <4>1, <4>2 DEF WireOK, Ordered
        <3> QED
            BY <3>1, <3>3, <3>4 DEF WireOK
    <2> QED
        BY <1>2, <1>4, <2>1 DEF Receive
<1>5. CASE Connect
    <2>1. wire' = <<>>
        BY <1>5 DEF Connect, IInv, LinkOK
    <2> QED
        BY <1>2, <2>1
<1>6. CASE Disconnect \/ DecodeError \/ PyRestart
    BY <1>2, <1>6 DEF Disconnect, DecodeError, PyRestart
<1>7. CASE Drained \/ Present \/ ViewerResync \/ ViewerStop
    BY <1>0, <1>1, <1>7 DEF Drained, Present, ViewerResync, ViewerStop, Py
<1> QED
    BY <1>1, <1>3, <1>4, <1>5, <1>6, <1>7
       DEF Next, Source, Publish, EndSource, Python, vars

-----------------------------------------------------------------------------
(* What the client read last, and where serve() resumes.                   *)

\* What serve() does to a wire: nothing, or it gets longer.
LEMMA ServeFirst ==
    ASSUME IInv, DInv, Serve
    PROVE  /\ wire' = <<>> => wire = <<>>
           /\ wire # <<>> => wire'[1] = wire[1]
           /\ wire = <<>> /\ wire' # <<>> => \E recs \in Seq(Record) :
                 ServeWrites(recs) /\ wire'[1] = recs[1] /\ recs # <<>>
<1>1. wire \in Seq(Record)
    BY DEF IInv, TypeOK
<1>2. CASE wire' = wire
    BY <1>2
<1>3. CASE wire' # wire
    <2>1. PICK recs \in Seq(Record) : ServeWrites(recs) /\ wire' = wire \o recs
        BY <1>3, ServeWire
    <2>2. recs # <<>>
        <3>1. \A r, q : <<r>> # <<>> /\ <<r, q>> # <<>>
            OBVIOUS
        <3>2. \/ \E r : recs = <<r>>
              \/ \E r, q : recs = <<r, q>>
            BY <2>1, Zenon DEF ServeWrites
        <3> QED
            BY <3>1, <3>2
    <2>3. Len(recs) \in Nat \ {0} /\ Len(wire) \in Nat
        BY <1>1, <2>2, LenProperties, EmptySeq
    <2>4. /\ Len(wire') = Len(wire) + Len(recs)
          /\ \A i \in 1..(Len(wire) + Len(recs)) :
                wire'[i] = IF i <= Len(wire) THEN wire[i] ELSE recs[i - Len(wire)]
        BY <1>1, <2>1, ConcatProperties
    <2>5. wire' # <<>>
        <3>1. Len(wire') > 0
            BY <2>3, <2>4
        <3> QED
            BY <3>1
    <2>6. wire # <<>> => wire'[1] = wire[1]
        <3>1. wire # <<>> => Len(wire) > 0
            BY <1>1, <2>3, EmptySeq
        <3> QED
            BY <2>3, <2>4, <3>1
    <2>7. wire = <<>> => wire'[1] = recs[1]
        <3>1. wire = <<>> => Len(wire) = 0
            BY EmptySeq
        <3>2. 1 \in 1..(0 + Len(recs)) /\ 1 - 0 = 1 /\ ~(1 <= 0)
            BY <2>3
        <3> QED
            BY <2>4, <3>1, <3>2
    <2> QED
        BY <2>1, <2>2, <2>5, <2>6, <2>7
<1> QED
    BY <1>2, <1>3

LEMMA RecOKServe ==
    ASSUME IInv, DInv, Serve
    PROVE  RecOK'
<1>1. /\ py'.rec = py.rec /\ py'.got = py.got /\ py'.epoch = py.epoch
      /\ UNCHANGED seen /\ RecOK /\ py \in Py /\ conn \in Conn
    BY ServeWire DEF DInv, IInv, TypeOK
<1>2. py'.link # "down" => py.link # "down"
    BY <1>1 DEF Serve, Accept, ReadBegin, Rewind, StartRequiresIDR, SendStart,
           HandleAck, HandleResync, HandleStop, TakeCommand, Tick,
           ResumeUnavailable, SendFrame, SendEnd, ServeEOF, Py
<1>3. py'.link = "up" => py.link = "up"
    BY <1>1 DEF Serve, Accept, ReadBegin, Rewind, StartRequiresIDR, SendStart,
           HandleAck, HandleResync, HandleStop, TakeCommand, Tick,
           ResumeUnavailable, SendFrame, SendEnd, ServeEOF, Py
<1>4. SUFFICES ASSUME py'.link # "down", py.rec.type = "END"
               PROVE  /\ wire' # <<>> => wire'[1].type = "START"
                      /\ wire' = <<>> /\ py'.link = "up" => conn'.pc \notin Streaming
    BY <1>1, <1>2 DEF RecOK
<1>5. wire' # <<>> => wire'[1].type = "START"
    <2>1. CASE wire # <<>>
        BY <1>1, <1>2, <1>4, <2>1, ServeFirst DEF RecOK
    <2>2. CASE wire = <<>> /\ wire' # <<>>
        <3>1. PICK recs \in Seq(Record) :
                 ServeWrites(recs) /\ wire'[1] = recs[1] /\ recs # <<>>
            BY <2>2, ServeFirst
        <3>2. py.link = "up" /\ conn.pc \notin Streaming
            BY <1>1, <1>2, <1>4, <2>2, ServeWire DEF RecOK
        <3>3. recs = <<Start(conn.epoch)>>
            BY <3>1, <3>2 DEF ServeWrites
        <3> QED
            BY <3>1, <3>3 DEF Start
    <2> QED
        BY <2>1, <2>2
<1>6. ASSUME wire' = <<>>, py'.link = "up"
      PROVE  conn'.pc \notin Streaming
    <2>1. wire = <<>> /\ py.link = "up" /\ conn.pc \notin Streaming
        BY <1>1, <1>3, <1>4, <1>6, ServeFirst DEF RecOK
    <2>2. CASE SendStart
        BY <1>6, <2>1, <2>2 DEF SendStart, Write
    <2>3. CASE Rewind
        BY <1>1, <2>3 DEF Rewind, Streaming, Conn
    <2>4. CASE \E t \in BOOLEAN : ReadBegin(t)
        BY <1>1, <2>4 DEF ReadBegin, Streaming, Conn
    <2> QED
        BY <2>1, <2>2, <2>3, <2>4 DEF Serve, Accept, StartRequiresIDR, HandleAck,
               HandleResync, HandleStop, TakeCommand, Tick, ResumeUnavailable,
               SendFrame, SendEnd, ServeEOF, Streaming
<1> QED
    BY <1>5, <1>6

LEMMA RecOKStep ==
    ASSUME IInv, DInv, [Next]_vars
    PROVE  RecOK'
<1>1. py \in Py /\ RecOK
    BY DEF IInv, TypeOK, DInv
<1>2. CASE UNCHANGED <<py, wire, conn, seen>>
    BY <1>1, <1>2 DEF RecOK
<1>3. CASE Serve
    BY <1>3, RecOKServe
<1>4. CASE Connect
    <2>1. wire' = <<>> /\ conn' = conn /\ conn.pc = "idle" /\ py'.rec = NoRecord
        BY <1>1, <1>4 DEF Connect, IInv, LinkOK, Py
    <2> QED
        BY <2>1 DEF RecOK, NoRecord, End, Streaming
<1>5. CASE Receive
    <2>1. CASE wire[1].type = "END"
        BY <1>5, <2>1, ReceivePy DEF RecOK
    <2>2. CASE wire[1].type # "END"
        <3>1. py'.rec = wire[1] /\ wire[1].type \in {"START", "RESET", "FRAME", "END"}
            BY <1>5, ReceivePy, ReceiveSeen DEF Record
        <3>2. wire[1].type \in {"START", "FRAME"} => wire[1].epoch = py'.epoch
            BY <1>5, ReceivePy, ReceiveSeen
        <3>3. wire[1].type = "FRAME" =>
                 /\ wire[1].epoch = seen'.epoch /\ wire[1].seq <= seen'.seq
                 /\ wire[1].seq <= py'.got
            <4>1. wire[1].type = "FRAME" =>
                     /\ wire[1].epoch = seen'.epoch /\ wire[1].seq <= seen'.seq
                BY <1>5, ReceiveSeen
            <4>2. wire[1].type = "FRAME" => py'.got >= wire[1].seq
                BY <1>5, ReceivePy
            <4>3. wire[1].seq \in Nat /\ py'.got \in Int
                BY <1>5, ReceiveSeen, ReceiveType DEF Record, Py, IInv
            <4> QED
                BY <4>1, <4>2, <4>3
        <3> QED
            BY <2>2, <3>1, <3>2, <3>3 DEF RecOK
    <2> QED
        BY <2>1, <2>2
<1>6. CASE Drained \/ Disconnect \/ DecodeError \/ PyRestart
    <2>1. py'.link = "down"
        BY <1>1, <1>6 DEF Drained, Disconnect, DecodeError, PyRestart, Py
    <2> QED
        BY <2>1 DEF RecOK
<1>7. CASE Present \/ ViewerResync
    <2>1. /\ py'.link = py.link /\ py'.rec = py.rec /\ py'.got = py.got
          /\ py'.epoch = py.epoch /\ UNCHANGED <<wire, conn, seen>>
        BY <1>1, <1>7 DEF Present, ViewerResync, Py
    <2> QED
        BY <1>1, <2>1 DEF RecOK
<1> QED
    BY <1>2, <1>3, <1>4, <1>5, <1>6, <1>7
       DEF Next, Source, Publish, EndSource, Python, ViewerStop, vars

\* A step after which serve() is where it was, or rewound, leaves it behind what
\* is wanted; Python, the source and acknowledgements take no such step.
LEMMA ResumeStays ==
    ASSUME IInv, DInv, [Next]_vars, py'.link = "up" => py.link = "up",
           conn'.pc # "idle", conn.pc # "idle", conn'.epoch = conn.epoch,
           conn' \in Conn, conn'.nextSeq <= conn.nextSeq,
           py'.link = "up" /\ conn.pc \in Streaming =>
              conn'.pc \in Streaming /\ LastRecord'.type = LastRecord.type
    PROVE  ResumeOK'
<1>1. /\ feed \in Feed /\ feed' \in Feed /\ Evolves(feed, feed') /\ conn \in Conn
      /\ TypeOK /\ seen \in [epoch : Nat, seq : Nat]
    BY FeedStep DEF IInv, TypeOK
<1>2. /\ feed.epoch \in Nat /\ feed'.epoch \in Nat /\ feed.epoch <= feed'.epoch
      /\ conn.epoch \in Nat /\ conn.nextSeq \in Nat /\ conn'.nextSeq \in Nat
    BY <1>1 DEF Feed, Conn, Evolves
<1>3. conn.epoch > 0
    BY DEF DInv, ResumeOK
<1>4. ASSUME py'.link = "up", conn.epoch = feed'.epoch
      PROVE  \/ conn'.nextSeq <= Wanted(seen', conn.epoch)
             \/ conn'.pc \in Streaming /\ LastRecord'.type \in {"FRAME", "END"}
    <2>1. conn.epoch = feed.epoch
        BY <1>2, <1>4 DEF IInv, PositionOK
    <2>2. \/ conn.nextSeq <= Wanted(seen, conn.epoch)
          \/ conn.pc \in Streaming /\ LastRecord.type \in {"FRAME", "END"}
        BY <1>4, <2>1 DEF DInv, ResumeOK
    <2>3. CASE conn.pc \in Streaming /\ LastRecord.type \in {"FRAME", "END"}
        BY <1>4, <2>3
    <2>4. CASE conn.nextSeq <= Wanted(seen, conn.epoch)
        <3>1. /\ seen' \in [epoch : Nat, seq : Nat] /\ SeenGrows
              /\ seen'.epoch <= feed'.epoch
            BY SeenStep, SeenOKStep DEF SeenOK
        <3>2. /\ Wanted(seen, conn.epoch) <= Wanted(seen', conn.epoch)
              /\ Wanted(seen, conn.epoch) \in Nat
            BY <1>1, <1>2, <1>4, <3>1, WantedGrows
        <3>3. Wanted(seen', conn.epoch) \in Nat
            BY <3>1 DEF Wanted
        <3> QED
            BY <1>2, <2>4, <3>2, <3>3
    <2> QED
        BY <2>2, <2>3, <2>4
<1>5. Wanted(seen', conn.epoch) = Wanted(seen', conn'.epoch)
    OBVIOUS
<1> QED
    BY <1>3, <1>4, <1>5 DEF ResumeOK, Wanted

\* At the start of the epoch nothing is left out.
LEMMA ResumeAtZero ==
    ASSUME IInv, DInv, [Next]_vars, conn'.nextSeq = 0, conn'.epoch = feed'.epoch
    PROVE  ResumeOK'
<1>1. feed'.epoch > 0 /\ seen' \in [epoch : Nat, seq : Nat]
    BY SeenStep, SeenOKStep DEF SeenOK
<1>2. 0 <= Wanted(seen', conn'.epoch)
    BY <1>1 DEF Wanted
<1> QED
    BY <1>1, <1>2 DEF ResumeOK, Wanted

\* Behind a unit or END that was written, the stream itself tells the place.
LEMMA ResumeBehind ==
    ASSUME IInv, DInv, NEW r \in Record, r.type \in {"FRAME", "END"},
           NEW next \in Conn, next.pc \in Streaming, next.epoch = conn.epoch,
           conn.pc # "idle", Write(<<r>>, next)
    PROVE  ResumeOK'
<1>1. CASE py.link = "up"
    <2>1. wire' = wire \o <<r>> /\ conn' = next /\ wire \in Seq(Record)
        BY <1>1 DEF Write, IInv, TypeOK
    <2>2. <<r>> \in Seq(Record) /\ <<r>> # <<>> /\ Len(<<r>>) = 1 /\ <<r>>[1] = r
        OBVIOUS
    <2>3. LastRecord' = r
        BY <2>1, <2>2, WriteLast DEF LastRecord
    <2> QED
        BY <2>1, <2>3 DEF DInv, ResumeOK
<1>2. CASE py.link # "up"
    BY <1>2 DEF Write, ResumeOK, Conn
<1> QED
    BY <1>1, <1>2

\* The unit after the one presented last is the one wanted, or before it.
LEMMA HelloWanted ==
    ASSUME IInv, DInv, py.hello.epoch = feed.epoch, py.hello.last >= -1
    PROVE  py.hello.last + 1 <= Wanted(seen, feed.epoch)
<1>1. /\ py.hello.last \in Int /\ feed.epoch \in Nat /\ seen.epoch \in Nat
      /\ seen.seq \in Nat
    BY DEF IInv, TypeOK, Py, Feed
<1>2. CASE py.hello.last = -1
    BY <1>1, <1>2 DEF Wanted
<1>3. CASE py.hello.last >= 0
    <2>1. Given(seen, feed.epoch, py.hello.last)
        BY <1>3 DEF DInv, ClientOK
    <2>2. seen.epoch <= feed.epoch
        BY DEF DInv, SeenOK
    <2> QED
        BY <1>1, <2>1, <2>2 DEF Given, Wanted
<1> QED
    BY <1>1, <1>2, <1>3

LEMMA ResumeOKServe ==
    ASSUME IInv, DInv, Serve
    PROVE  ResumeOK'
<1>0. /\ conn \in Conn /\ py \in Py /\ feed \in Feed /\ conn' \in Conn
      /\ [Next]_vars /\ UNCHANGED seen /\ conn.nextSeq \in Nat
    <2>1. TypeOK'
        BY TypeStep DEF IInv, Next
    <2> QED
        BY <2>1, ServeWire DEF IInv, TypeOK, Next, Conn
<1>1. CASE conn'.pc = "idle"
    BY <1>1 DEF ResumeOK
<1>2. CASE Accept
    <2>1. /\ conn'.epoch = feed.epoch /\ conn'.nextSeq = Oldest(feed) /\ feed' = feed
        BY <1>2 DEF Accept
    <2>2. feed.epoch > 0 /\ Oldest(feed) <= Wanted(seen, feed.epoch)
        BY DEF DInv, SeenOK, BacklogOK
    <2> QED
        BY <1>0, <2>1, <2>2 DEF ResumeOK, Wanted
<1>3. ASSUME NEW t \in BOOLEAN, ReadBegin(t)
      PROVE  ResumeOK'
    <2>1. /\ conn.pc = "hello" /\ UNCHANGED <<feed, wire>>
          /\ conn'.epoch = conn.epoch /\ conn'.pc = "rewind"
          /\ \/ conn'.nextSeq = conn.nextSeq
             \/ /\ py.hello.epoch = conn.epoch /\ py.hello.last >= -1
                /\ conn'.nextSeq = py.hello.last + 1
        BY <1>0, <1>3 DEF ReadBegin, Conn
    <2>2. py'.link = py.link
        BY <1>0, <1>3 DEF ReadBegin, Py
    <2>3. CASE conn'.nextSeq = conn.nextSeq
        BY <1>0, <2>1, <2>2, <2>3, ResumeStays DEF Streaming
    <2>4. CASE /\ py.hello.epoch = conn.epoch /\ py.hello.last >= -1
               /\ conn'.nextSeq = py.hello.last + 1
        <3>1. conn.epoch > 0
            BY <2>1 DEF DInv, ResumeOK
        <3>2. conn.epoch = feed.epoch => conn'.nextSeq <= Wanted(seen, feed.epoch)
            BY <2>4, HelloWanted
        <3> QED
            BY <1>0, <2>1, <3>1, <3>2 DEF ResumeOK, Wanted
    <2> QED
        BY <2>1, <2>3, <2>4
<1>4. CASE Rewind
    <2>1. /\ conn.pc = "rewind" /\ conn'.pc \in {"noIDR", "start"}
          /\ conn'.epoch = conn.epoch /\ py' = py
        BY <1>0, <1>4 DEF Rewind, Conn
    <2>2. conn'.nextSeq <= conn.nextSeq
        <3>1. CASE conn' = [conn EXCEPT !.pc = "noIDR"]
            BY <1>0, <3>1 DEF Conn
        <3>2. ASSUME NEW s \in KeyframesUpTo(feed, conn.nextSeq),
                     conn' = [conn EXCEPT !.pc = "start", !.nextSeq = s]
              PROVE  conn'.nextSeq <= conn.nextSeq
            BY <1>0, <3>2 DEF KeyframesUpTo, Conn
        <3> QED
            BY <1>4, <3>1, <3>2 DEF Rewind
    <2> QED
        BY <1>0, <2>1, <2>2, ResumeStays DEF Streaming
<1>5. CASE StartRequiresIDR
    BY <1>0, <1>5, ResumeAtZero DEF StartRequiresIDR
<1>6. CASE SendStart
    <2>1. /\ conn.pc = "start" /\ py' = py
          /\ conn'.epoch = conn.epoch /\ conn'.nextSeq = conn.nextSeq
        BY <1>0, <1>6 DEF SendStart, Write, Conn
    <2> QED
        BY <1>0, <1>1, <2>1, ResumeStays DEF Streaming
<1>7. CASE HandleAck
    BY <1>0, <1>7, ResumeStays DEF HandleAck, TakeCommand, LastRecord
<1>8. CASE HandleResync \/ ResumeUnavailable \/ (Tick /\ feed.epoch # conn.epoch)
    <2>1. conn'.nextSeq = 0 /\ conn'.epoch = feed'.epoch
        BY <1>8 DEF HandleResync, ResumeUnavailable, Tick, Write
    <2> QED
        BY <1>0, <2>1, ResumeAtZero
<1>9. CASE Tick /\ feed.epoch = conn.epoch
    <2>1. /\ conn.pc = "loop" /\ conn'.pc \in {"evicted", "sending"} /\ py' = py
          /\ conn'.epoch = conn.epoch /\ conn'.nextSeq = conn.nextSeq /\ wire' = wire
        <3>1. PICK p \in {"evicted", "sending"} : conn' = [conn EXCEPT !.pc = p]
            BY <1>9 DEF Tick
        <3> QED
            BY <1>0, <1>9, <3>1 DEF Tick, Conn
    <2> QED
        BY <1>0, <2>1, ResumeStays DEF Streaming, LastRecord
<1>10. CASE HandleStop \/ ServeEOF
    BY <1>0, <1>1, <1>10 DEF HandleStop, ServeEOF, Conn
<1>11. CASE SendFrame
    <2>1. CASE ~Retained(feed, conn.epoch, conn.nextSeq)
        <3>1. /\ conn.pc = "sending" /\ conn'.pc = "complete" /\ py' = py
              /\ conn'.epoch = conn.epoch /\ conn'.nextSeq = conn.nextSeq
              /\ wire' = wire
            BY <1>0, <1>11, <2>1 DEF SendFrame, Conn
        <3> QED
            BY <1>0, <3>1, ResumeStays DEF Streaming, LastRecord
    <2>2. CASE Retained(feed, conn.epoch, conn.nextSeq)
        <3>1. PICK i \in DOMAIN feed.backlog :
                 Write(<<Frame(feed.backlog[i])>>, [conn EXCEPT !.nextSeq = @ + 1])
            BY <1>11, <2>2 DEF SendFrame
        <3>2. feed.backlog[i] \in Unit
            BY <1>0, LenProperties, ElementOfSeq DEF Feed
        <3> DEFINE next == [conn EXCEPT !.nextSeq = @ + 1]
                   r == Frame(feed.backlog[i])
        <3>3. r \in Record /\ r.type = "FRAME"
            BY <3>2, RecordTypes DEF Frame
        <3>4. next \in Conn /\ next.pc = "sending" /\ next.epoch = conn.epoch
              /\ conn.pc = "sending"
            <4>1. conn.nextSeq + 1 \in Nat
                BY <1>0
            <4> QED
                BY <1>0, <1>11, <4>1 DEF SendFrame, Conn
        <3>5. Write(<<r>>, next)
            BY <3>1
        <3> HIDE DEF r, next
        <3> QED
            BY <3>3, <3>4, <3>5, ResumeBehind DEF Streaming
    <2> QED
        BY <2>1, <2>2
<1>12. CASE SendEnd
    <2> DEFINE next == [conn EXCEPT !.pc = "loop"]
    <2>1. /\ next \in Conn /\ next.pc = "loop" /\ next.epoch = conn.epoch
          /\ next.nextSeq = conn.nextSeq /\ conn.pc = "complete" /\ py' = py
        BY <1>0, <1>12 DEF SendEnd, Conn, ServeStep
    <2>2. CASE conn' = next /\ UNCHANGED <<feed, wire>>
        BY <1>0, <2>1, <2>2, ResumeStays DEF Streaming, LastRecord
    <2>3. CASE Write(<<End>>, next)
        <3>1. End \in Record /\ End.type = "END"
            BY RecordTypes DEF End
        <3> HIDE DEF next
        <3> QED
            BY <2>1, <2>3, <3>1, ResumeBehind DEF Streaming
    <2> QED
        BY <1>12, <2>2, <2>3 DEF SendEnd
<1> QED
    BY <1>2, <1>3, <1>4, <1>5, <1>6, <1>7, <1>8, <1>9, <1>10, <1>11, <1>12 DEF Serve

\* Reading the oldest record leaves the newest one what it was.
LEMMA ReceiveLast ==
    ASSUME IInv, DInv, Receive, py'.link = "up"
    PROVE  py.link = "up" /\ LastRecord' = LastRecord
<1>1. wire[1].type # "END"
    BY ReceivePy
<1>2. /\ wire' = Tail(wire) /\ wire \in Seq(Record) /\ wire # <<>>
      /\ py'.rec = wire[1] /\ py'.link = py.link
    BY <1>1, ReceivePy, ReceiveSeen DEF Receive
<1>3. /\ Len(Tail(wire)) = Len(wire) - 1 /\ Tail(wire) \in Seq(Record)
      /\ \A i \in 1..Len(Tail(wire)) : Tail(wire)[i] = wire[i + 1]
      /\ Len(wire) \in Nat \ {0}
    BY <1>2, HeadTailProperties, EmptySeq
<1>4. CASE Tail(wire) = <<>>
    <2>1. Len(wire) = 1
        BY <1>3, <1>4
    <2> QED
        BY <1>2, <1>4, <2>1 DEF LastRecord
<1>5. CASE Tail(wire) # <<>>
    <2>1. Len(Tail(wire)) \in 1..Len(Tail(wire))
        BY <1>3, <1>5, EmptySeq
    <2>2. Tail(wire)[Len(Tail(wire))] = wire[Len(wire)]
        BY <1>3, <2>1
    <2> QED
        BY <1>2, <1>5, <2>2 DEF LastRecord
<1> QED
    BY <1>2, <1>4, <1>5

LEMMA ResumeOKStep ==
    ASSUME IInv, DInv, [Next]_vars
    PROVE  ResumeOK'
<1>0. py \in Py /\ conn \in Conn /\ conn.nextSeq \in Nat
    BY DEF IInv, TypeOK, Conn
<1>1. CASE Serve
    BY <1>1, ResumeOKServe
<1>2. CASE /\ conn' = conn
           /\ \/ py'.link # "up" \/ conn.pc = "idle"
              \/ py.link = "up" /\ LastRecord' = LastRecord
    <2>1. CASE conn.pc = "idle"
        BY <1>2, <2>1 DEF ResumeOK
    <2>2. CASE conn.pc # "idle"
        BY <1>0, <1>2, <2>2, ResumeStays
    <2> QED
        BY <2>1, <2>2
<1>3. CASE UNCHANGED <<conn, py, wire>>
    BY <1>2, <1>3 DEF LastRecord
<1>4. CASE Connect
    BY <1>2, <1>4 DEF Connect
<1>5. CASE Receive
    BY <1>2, <1>5, ReceiveLast DEF Receive
<1>6. CASE Drained \/ Disconnect \/ DecodeError \/ PyRestart
    <2>1. py'.link = "down" /\ conn' = conn
        BY <1>0, <1>6 DEF Drained, Disconnect, DecodeError, PyRestart, Py
    <2> QED
        BY <1>2, <2>1
<1>7. CASE Present \/ ViewerResync
    <2>1. py'.link = py.link /\ py'.rec = py.rec /\ conn' = conn /\ wire' = wire
        BY <1>0, <1>7 DEF Present, ViewerResync, Py
    <2> QED
        BY <1>2, <2>1 DEF LastRecord
<1> QED
    BY <1>1, <1>3, <1>4, <1>5, <1>6, <1>7
       DEF Next, Source, Publish, EndSource, Python, ViewerStop, vars

-----------------------------------------------------------------------------
(* END closes its epoch.                                                   *)

\* A record that was written, or read, is not from the future.
Past(r) ==
    r.type \in {"START", "FRAME"} =>
        /\ r.epoch \in Nat /\ r.epoch <= feed.epoch
        /\ r.type = "FRAME" /\ r.epoch = feed.epoch =>
              r.seq \in Nat /\ r.seq < feed.nextSeq

LEMMA RecordsPast ==
    ASSUME IInv, DInv
    PROVE  /\ \A i \in 1..Len(wire) : Past(wire[i]) /\ Past(Prev(py.rec, wire, i))
           /\ py.link # "down" => Past(LastRecord)
<1>1. /\ wire \in Seq(Record) /\ py \in Py /\ feed \in Feed
      /\ \A i \in 1..Len(wire) : wire[i] \in Record
      /\ Len(wire) \in Nat
    <2>1. wire \in Seq(Record) /\ py \in Py /\ feed \in Feed
        BY DEF IInv, TypeOK
    <2> QED
        BY <2>1, ElementOfSeq, LenProperties
<1>2. ASSUME NEW i \in 1..Len(wire)
      PROVE  Past(wire[i])
    <2>1. wire[i].epoch \in Nat /\ wire[i].seq \in Nat
        BY <1>1 DEF Record
    <2>2. RecordOK(seen, feed, Prev(py.rec, wire, i), wire[i])
        BY DEF DInv, WireOK
    <2> QED
        BY <2>1, <2>2 DEF Past, RecordOK
<1>3. ASSUME py.link # "down"
      PROVE  Past(py.rec)
    <2>1. /\ py.rec.epoch \in Nat /\ py.rec.seq \in Nat /\ seen.seq \in Nat
          /\ feed.nextSeq \in Nat /\ feed.epoch \in Nat
        BY <1>1 DEF Py, Record, Feed, IInv, TypeOK
    <2>2. /\ py.rec.type \in {"START", "FRAME"} => py.rec.epoch = py.epoch
          /\ py.rec.type = "FRAME" =>
                py.rec.epoch = seen.epoch /\ py.rec.seq <= seen.seq
        BY <1>3 DEF DInv, RecOK
    <2>3. py.epoch <= feed.epoch
        BY DEF DInv, ClientOK
    <2>4. seen.epoch = feed.epoch => seen.seq < feed.nextSeq
        BY DEF DInv, SeenOK
    <2> QED
        BY <2>1, <2>2, <2>3, <2>4 DEF Past
<1>4. wire # <<>> => py.link # "down" /\ Len(wire) \in 1..Len(wire)
    BY <1>1, EmptySeq DEF IInv, LinkOK
<1>5. ASSUME NEW i \in 1..Len(wire)
      PROVE  Past(Prev(py.rec, wire, i))
    <2>1. CASE i = 1
        <3>1. wire # <<>>
            BY <1>1, <2>1, EmptySeq
        <3>2. Prev(py.rec, wire, i) = py.rec
            BY <2>1 DEF Prev
        <3> QED
            BY <1>3, <1>4, <3>1, <3>2
    <2>2. CASE i # 1
        <3>1. i - 1 \in 1..Len(wire)
            BY <1>1, <2>2
        <3> QED
            BY <1>2, <2>2, <3>1 DEF Prev
    <2> QED
        BY <2>1, <2>2
<1>6. py.link # "down" => Past(LastRecord)
    BY <1>2, <1>3, <1>4 DEF LastRecord
<1> QED
    BY <1>2, <1>5, <1>6

LEMMA ClosesStays ==
    ASSUME IInv, [Next]_vars, NEW r, Past(r), Closes(feed, r)
    PROVE  Closes(feed', r)
<1>1. feed \in Feed /\ feed' \in Feed /\ Evolves(feed, feed')
    BY FeedStep DEF IInv, TypeOK
<1>2. /\ feed.epoch \in Nat /\ feed.nextSeq \in Nat /\ feed'.epoch \in Nat
      /\ feed'.nextSeq \in Nat
    BY <1>1 DEF Feed
<1> QED
    BY <1>1, <1>2 DEF Evolves, Closes, Past

\* END is written when all units of the epoch were.
LEMMA EndCloses ==
    ASSUME IInv, DInv, SourceComplete(feed, conn.epoch, conn.nextSeq),
           conn.pc \in Streaming, py.link = "up",
           feed' = [feed EXCEPT !.endSent = TRUE]
    PROVE  Closes(feed', LastRecord)
<1>1. /\ feed.epoch \in Nat /\ feed.nextSeq \in Nat /\ conn.nextSeq \in Nat
      /\ feed'.epoch = feed.epoch /\ feed'.nextSeq = feed.nextSeq
      /\ feed'.sourceEnded = feed.sourceEnded
    BY DEF IInv, TypeOK, Feed, Conn
<1>2. conn.epoch = feed.epoch /\ feed.sourceEnded /\ conn.nextSeq >= feed.nextSeq
    BY DEF SourceComplete
<1>3. /\ LastRecord.type = "START" => StartsAtKey(feed, conn.nextSeq)
      /\ LastRecord.type = "FRAME" => conn.nextSeq = LastRecord.seq + 1
    BY <1>2 DEF IInv, PositionOK
<1>4. LastRecord.type = "START" => feed.nextSeq = 0
    BY <1>1, <1>2, <1>3 DEF StartsAtKey
<1>5. Past(LastRecord)
    BY RecordsPast
<1>6. LastRecord.type = "FRAME" /\ LastRecord.epoch = feed.epoch =>
         LastRecord.seq + 1 = feed.nextSeq
    BY <1>1, <1>2, <1>3, <1>5 DEF Past
<1> QED
    BY <1>1, <1>2, <1>4, <1>6 DEF Closes

LEMMA EndOKServe ==
    ASSUME IInv, DInv, Serve
    PROVE  EndOK'
<1>0. /\ wire \in Seq(Record) /\ EndOK /\ py'.rec = py.rec /\ [Next]_vars
      /\ Len(wire) \in Nat
    BY ServeWire, LenProperties DEF IInv, TypeOK, DInv, Next
<1>1. ASSUME NEW i \in 1..Len(wire), wire[i].type = "END"
      PROVE  Closes(feed', Prev(py.rec, wire, i))
    BY <1>0, <1>1, RecordsPast, ClosesStays DEF EndOK
<1>2. CASE wire' = wire
    BY <1>0, <1>1, <1>2 DEF EndOK
<1>3. CASE wire' # wire
    <2>1. PICK recs \in Seq(Record) : ServeWrites(recs) /\ wire' = wire \o recs
        BY <1>3, ServeWire
    <2>2. py.link = "up"
        BY <1>3, ServeWire
    <2> DEFINE n == Len(wire)
    <2>3. /\ Len(recs) \in Nat /\ Len(wire') = n + Len(recs)
          /\ \A i \in 1..n : wire'[i] = wire[i]
          /\ \A k \in 1..Len(recs) : wire'[n + k] = recs[k]
          /\ recs # <<>> => Prev(py.rec, wire', n + 1) = LastRecord
        <3> DEFINE w == wire \o recs
        <3>1. /\ Len(recs) \in Nat /\ Len(w) = n + Len(recs)
              /\ \A i \in 1..n : w[i] = wire[i]
              /\ \A k \in 1..Len(recs) : w[n + k] = recs[k]
            BY <1>0, ConcatPrev
        <3>2. recs # <<>> => Prev(py.rec, w, n + 1) =
                               IF wire = <<>> THEN py.rec ELSE wire[n]
            BY <1>0, ConcatPrev
        <3> HIDE DEF w
        <3>3. wire' = w
            BY <2>1 DEF w
        <3> QED
            BY <3>1, <3>2, <3>3 DEF LastRecord, n
    <2> HIDE DEF n
    <2>4. n \in Nat
        BY <1>0 DEF n
    <2>5. ASSUME NEW i \in 1..n
          PROVE  Prev(py.rec, wire', i) = Prev(py.rec, wire, i)
        <3>1. i # 1 => i - 1 \in 1..n
            BY <2>4
        <3> QED
            BY <2>3, <3>1 DEF Prev
    <2>6. ASSUME NEW k \in 1..Len(recs), recs[k].type = "END"
          PROVE  /\ k = 1 /\ recs # <<>> /\ conn.pc \in Streaming
                 /\ SourceComplete(feed, conn.epoch, conn.nextSeq)
                 /\ feed' = [feed EXCEPT !.endSent = TRUE]
        <3>1. CASE recs = <<Start(conn.epoch)>>
            BY <2>6, <3>1 DEF Start
        <3>2. CASE recs = <<ResetRec(feed'.epoch), Start(feed'.epoch)>>
            BY <2>6, <3>2 DEF Start, ResetRec
        <3>3. CASE \E u \in Unit : recs = <<Frame(u)>>
            BY <2>6, <3>3 DEF Frame
        <3>4. CASE /\ conn.pc \in Streaming /\ recs = <<End>>
                   /\ SourceComplete(feed, conn.epoch, conn.nextSeq)
                   /\ feed' = [feed EXCEPT !.endSent = TRUE]
            <4>1. Len(recs) = 1 /\ recs # <<>>
                BY <3>4
            <4>2. k = 1
                BY <4>1
            <4> QED
                BY <3>4, <4>1, <4>2
        <3> QED
            BY <2>1, <3>1, <3>2, <3>3, <3>4 DEF ServeWrites
    <2>7. ASSUME NEW i \in 1..Len(wire'), wire'[i].type = "END"
          PROVE  Closes(feed', Prev(py.rec, wire', i))
        <3>1. CASE i \in 1..n
            BY <1>1, <2>3, <2>5, <2>7, <3>1 DEF n
        <3>2. CASE i \notin 1..n
            <4> DEFINE k == i - n
            <4>1. k \in 1..Len(recs) /\ n + k = i
                BY <2>3, <2>4, <3>2
            <4>2. recs[k].type = "END"
                BY <2>3, <2>7, <4>1
            <4>3. /\ k = 1 /\ recs # <<>> /\ conn.pc \in Streaming
                  /\ SourceComplete(feed, conn.epoch, conn.nextSeq)
                  /\ feed' = [feed EXCEPT !.endSent = TRUE]
                BY <2>6, <4>1, <4>2
            <4>4. i = n + 1
                BY <4>1, <4>3
            <4> HIDE DEF k
            <4>5. Prev(py.rec, wire', i) = LastRecord
                BY <2>3, <4>3, <4>4
            <4>6. Closes(feed', LastRecord)
                BY <2>2, <4>3, EndCloses
            <4> QED
                BY <4>5, <4>6
        <3> QED
            BY <3>1, <3>2
    <2> QED
        BY <1>0, <2>7 DEF EndOK
<1> QED
    BY <1>2, <1>3

LEMMA EndOKStep ==
    ASSUME IInv, DInv, [Next]_vars
    PROVE  EndOK'
<1>0. wire \in Seq(Record) /\ EndOK /\ py \in Py
    BY DEF IInv, TypeOK, DInv
<1>1. ASSUME NEW i \in 1..Len(wire), wire[i].type = "END"
      PROVE  Closes(feed', Prev(py.rec, wire, i))
    BY <1>0, <1>1, RecordsPast, ClosesStays DEF EndOK
<1>2. CASE wire' = wire /\ py'.rec = py.rec
    BY <1>1, <1>2 DEF EndOK
<1>3. CASE wire' = <<>>
    BY <1>3, EmptySeq DEF EndOK
<1>4. CASE Serve
    BY <1>4, EndOKServe
<1>5. CASE Receive
    <2>1. CASE wire' = Tail(wire)
        <3>1. wire # <<>> /\ py'.rec = wire[1]
            BY <1>5, ReceivePy DEF Receive
        <3>2. \A i \in 1..Len(wire') :
                 /\ i + 1 \in 1..Len(wire) /\ wire'[i] = wire[i + 1]
                 /\ Prev(wire[1], wire', i) = Prev(py.rec, wire, i + 1)
            BY <1>0, <2>1, <3>1, TailPrev
        <3>3. ASSUME NEW i \in 1..Len(wire'), wire'[i].type = "END"
              PROVE  Closes(feed', Prev(wire[1], wire', i))
            <4>1. /\ i + 1 \in 1..Len(wire) /\ wire[i + 1].type = "END"
                  /\ Prev(wire[1], wire', i) = Prev(py.rec, wire, i + 1)
                BY <3>2, <3>3
            <4>2. Closes(feed', Prev(py.rec, wire, i + 1))
                BY <1>1, <4>1
            <4> QED
                BY <4>1, <4>2
        <3> QED
            BY <3>1, <3>3 DEF EndOK
    <2> QED
        BY <1>3, <1>5, <2>1 DEF Receive
<1>6. CASE Connect
    <2>1. wire' = <<>>
        BY <1>6 DEF Connect, IInv, LinkOK
    <2> QED
        BY <1>3, <2>1
<1>7. CASE Disconnect \/ DecodeError \/ PyRestart
    BY <1>3, <1>7 DEF Disconnect, DecodeError, PyRestart
<1>8. CASE Drained \/ Present \/ ViewerResync \/ ViewerStop
    BY <1>0, <1>2, <1>8 DEF Drained, Present, ViewerResync, ViewerStop, Py
<1> QED
    BY <1>2, <1>4, <1>5, <1>6, <1>7, <1>8
       DEF Next, Source, Publish, EndSource, Python, vars

-----------------------------------------------------------------------------
(* Theorems                                                                *)

LEMMA InitDInv == Init => DInv
<1> SUFFICES ASSUME Init PROVE DInv
    OBVIOUS
<1>1. /\ feed.backlog = <<>> /\ feed.nextSeq = 0 /\ feed.epoch = 1
      /\ conn.pc = "idle" /\ wire = <<>> /\ Len(wire) = 0
      /\ py.link = "down" /\ py.hello = NoHello /\ py.epoch = 0 /\ py.last = -1
      /\ py.got = -1 /\ cmds = <<>> /\ Len(cmds) = 0
      /\ seen.epoch = 0 /\ seen.seq = 0
    BY DEF Init
<1>2. SeenOK
    BY <1>1 DEF SeenOK
<1>3. BacklogOK
    BY <1>1 DEF BacklogOK, Oldest, Wanted
<1>4. ClientOK
    BY <1>1 DEF ClientOK, AcksOK, NoHello
<1>5. RecOK
    BY <1>1 DEF RecOK
<1>6. WireOK
    BY <1>1 DEF WireOK, Ordered
<1>7. ResumeOK
    BY <1>1 DEF ResumeOK
<1>8. EndOK
    BY <1>1 DEF EndOK
<1> QED
    BY <1>2, <1>3, <1>4, <1>5, <1>6, <1>7, <1>8 DEF DInv

LEMMA NextDInv == IInv /\ DInv /\ [Next]_vars => DInv'
    BY SeenOKStep, BacklogOKStep, ClientOKStep, RecOKStep, WireOKStep, ResumeOKStep,
       EndOKStep DEF DInv

\* Both inductive invariants hold in every reachable state.
THEOREM DeliveryInvariance == Spec => [](IInv /\ DInv)
<1>1. Init => IInv /\ DInv
    BY InitInv, InitDInv
<1>2. (IInv /\ DInv) /\ [Next]_vars => (IInv /\ DInv)'
    BY NextInv, NextDInv
<1> QED
    BY <1>1, <1>2, PTL DEF Spec

\* Whatever is lost, resent or restarted, a decoder is only ever given a unit
\* after every earlier one of its epoch.
THEOREM NeverJumps == Spec => []NoSilentJump
<1>1. IInv /\ DInv => NoSilentJump
    <2> SUFFICES ASSUME IInv, DInv, wire # <<>>, Head(wire).type = "FRAME"
                 PROVE  Head(wire).seq <= Wanted(seen, Head(wire).epoch)
        BY DEF NoSilentJump, Wanted
    <2>1. /\ wire \in Seq(Record) /\ py \in Py /\ seen.seq \in Nat
          /\ Head(wire) = wire[1] /\ 1 \in 1..Len(wire) /\ wire[1] \in Record
        <3>1. wire \in Seq(Record) /\ py \in Py /\ seen.seq \in Nat
            BY DEF IInv, TypeOK
        <3> QED
            BY <3>1, HeadTailProperties, LenProperties, EmptySeq, ElementOfSeq
    <2>2. CASE py.rec.type # "FRAME"
        BY <2>1, <2>2 DEF DInv, WireOK, RecordOK, Prev
    <2>3. CASE py.rec.type = "FRAME"
        <3>1. wire[1].seq = py.rec.seq + 1 /\ py.rec.epoch = wire[1].epoch
            BY <2>1, <2>3 DEF IInv, Decodable, Follows
        <3>2. py.rec.epoch = seen.epoch /\ py.rec.seq <= seen.seq
            <4>1. py.link # "down"
                BY DEF IInv, LinkOK
            <4> QED
                BY <2>3, <4>1 DEF DInv, RecOK
        <3>3. py.rec.seq \in Nat
            BY <2>1 DEF Py, Record
        <3>4. Wanted(seen, wire[1].epoch) = seen.seq + 1
            BY <3>1, <3>2 DEF Wanted
        <3>5. wire[1].seq <= seen.seq + 1
            BY <2>1, <3>1, <3>2, <3>3
        <3> QED
            BY <2>1, <3>4, <3>5
    <2> QED
        BY <2>2, <2>3
<1> QED
    BY <1>1, DeliveryInvariance, PTL

\* When Python reads END and the epoch it closed is still the current one, the
\* client has decoded every unit of that epoch.
THEOREM EndMeansAll == Spec => []EndAfterAll
<1>1. IInv /\ DInv => EndAfterAll
    <2> SUFFICES ASSUME IInv, DInv, wire # <<>>, Head(wire).type = "END",
                        feed.epoch = py.epoch
                 PROVE  py.got = feed.nextSeq - 1
        BY DEF EndAfterAll
    <2>1. /\ wire \in Seq(Record) /\ py \in Py
          /\ Head(wire) = wire[1] /\ 1 \in 1..Len(wire)
        <3>1. wire \in Seq(Record) /\ py \in Py
            BY DEF IInv, TypeOK
        <3> QED
            BY <3>1, HeadTailProperties, LenProperties, EmptySeq
    <2>2. Closes(feed, py.rec) /\ py.link # "down"
        BY <2>1 DEF DInv, EndOK, Prev, IInv, LinkOK
    <2>3. /\ feed.nextSeq \in Nat /\ feed.epoch \in Nat /\ seen.epoch \in Nat
          /\ seen.seq \in Nat /\ py.got \in Nat \cup {-1} /\ py.rec \in Record
          /\ py.rec.seq \in Nat
        BY DEF IInv, TypeOK, Feed, Py, Record
    <2>4. py.rec.type \in {"START", "FRAME"} /\ py.rec.epoch = feed.epoch
        <3>1. py.rec.type # "RESET"
            BY <2>1 DEF IInv, Decodable, Follows
        <3>2. py.rec.type # "END"
            BY <2>1, <2>2 DEF DInv, RecOK
        <3>3. py.rec.type \in {"START", "FRAME"}
            BY <2>3, <3>1, <3>2 DEF Record
        <3> QED
            BY <2>2, <3>3 DEF DInv, RecOK
    <2>5. py.got < feed.nextSeq
        <3>1. CASE py.got = -1
            BY <2>3, <3>1
        <3>2. CASE py.got >= 0
            <4>1. Given(seen, feed.epoch, py.got)
                BY <3>2 DEF DInv, ClientOK
            <4> QED
                BY <2>3, <4>1 DEF Given, DInv, SeenOK
        <3> QED
            BY <2>3, <3>1, <3>2
    <2>6. CASE py.rec.type = "START"
        BY <2>2, <2>3, <2>4, <2>5, <2>6 DEF Closes
    <2>7. CASE py.rec.type = "FRAME"
        <3>1. py.rec.seq <= py.got
            BY <2>2, <2>7 DEF DInv, RecOK
        <3>2. py.rec.seq + 1 = feed.nextSeq
            BY <2>2, <2>4, <2>7 DEF Closes
        <3> QED
            BY <2>3, <2>5, <3>1, <3>2
    <2> QED
        BY <2>4, <2>6, <2>7
<1> QED
    BY <1>1, DeliveryInvariance, PTL

\* Within an epoch no step of anyone frees a unit that no decoder was given.
LEMMA FreedWasSeen ==
    ASSUME IInv, DInv, [Next]_vars, feed'.epoch = feed.epoch,
           NEW i \in DOMAIN feed.backlog
    PROVE  \/ Retained(feed', feed.epoch, feed.backlog[i].seq)
           \/ seen.epoch = feed.epoch /\ feed.backlog[i].seq <= seen.seq
<1> DEFINE s == feed.backlog[i].seq
<1>1. /\ feed \in Feed /\ feed' \in Feed /\ FeedOK(feed) /\ FeedOK(feed')
      /\ seen.seq \in Nat
    BY FeedStep DEF IInv, TypeOK
<1>2. /\ feed.epoch \in Nat /\ feed.nextSeq \in Nat /\ feed'.nextSeq \in Nat
      /\ Len(feed.backlog) \in Nat /\ DOMAIN feed.backlog = 1..Len(feed.backlog)
      /\ Oldest(feed) = feed.nextSeq - Len(feed.backlog) /\ Oldest(feed') \in Int
    BY <1>1, OldestIs DEF Feed
<1>3. s = feed.nextSeq - Len(feed.backlog) + i - 1
    BY <1>1, <1>2 DEF FeedOK, Contiguous
<1>4. s \in Int /\ Oldest(feed) <= s /\ s < feed.nextSeq
    BY <1>2, <1>3
<1> HIDE DEF s
<1>5. CASE Oldest(feed') <= s
    <2>1. feed.nextSeq <= feed'.nextSeq
        BY <1>2, FeedMoves DEF Grows, Renews, Frees
    <2>2. s < feed'.nextSeq
        BY <1>2, <1>4, <2>1
    <2>3. Retained(feed', feed'.epoch, s)
        BY <1>1, <1>4, <1>5, <2>2, RetainedIs
    <2> QED
        BY <2>3 DEF s
<1>6. CASE s < Oldest(feed')
    <2>1. Frees(feed, feed')
        BY <1>2, <1>4, <1>6, FeedMoves DEF Grows, Renews
    <2> QED
        BY <1>1, <1>2, <1>4, <1>6, <2>1 DEF Frees, s
<1> QED
    BY <1>2, <1>4, <1>5, <1>6

\* Acknowledgements that outlive their epoch or their connection free nothing.
THEOREM NothingUnseenIsFreed == Spec => OnlySeenIsFreed
<1>1. IInv /\ DInv /\ [Next]_vars =>
        [feed'.epoch = feed.epoch =>
            \A i \in DOMAIN feed.backlog :
               \/ Retained(feed', feed.epoch, feed.backlog[i].seq)
               \/ seen.epoch = feed.epoch /\ feed.backlog[i].seq <= seen.seq]_vars
    BY FreedWasSeen
<1> QED
    BY <1>1, DeliveryInvariance, PTL DEF Spec, OnlySeenIsFreed

-----------------------------------------------------------------------------
(* The refinement.                                                         *)

\* The source, a reset and an acknowledgement, seen as steps of Delivery.
LEMMA FeedDelivers ==
    ASSUME IInv, DInv, [Next]_vars, UNCHANGED seen
    PROVE  [D!Next]_(D!vars)
<1>1. /\ feed.epoch \in Nat /\ feed'.epoch \in Nat /\ Oldest(feed) \in Int
      /\ Oldest(feed') \in Int /\ seen.seq \in Nat /\ feed.nextSeq \in Nat
    <2>1. /\ feed \in Feed /\ feed' \in Feed /\ FeedOK(feed) /\ FeedOK(feed')
          /\ seen \in [epoch : Nat, seq : Nat]
        BY FeedStep DEF IInv, TypeOK
    <2> QED
        BY <2>1, OldestIs DEF Feed
<1>2. Oldest(feed)' = Oldest(feed')
    BY DEF Oldest
<1>3. CASE Grows(feed, feed')
    <2>1. CASE feed'.nextSeq = feed.nextSeq
        BY <1>2, <1>3, <2>1 DEF Grows, D!vars
    <2>2. CASE feed'.nextSeq = feed.nextSeq + 1
        BY <1>2, <1>3, <2>2 DEF Grows, D!Next, D!Produce
    <2> QED
        BY <1>3, <2>1, <2>2 DEF Grows
<1>4. CASE Renews(feed, feed')
    BY <1>1, <1>2, <1>4 DEF Renews, D!Next, D!NewEpoch
<1>5. CASE Frees(feed, feed')
    <2>1. Oldest(feed') \in (Oldest(feed) + 1)..(seen.seq + 1)
        BY <1>1, <1>5 DEF Frees
    <2> QED
        BY <1>2, <1>5, <2>1 DEF Frees, D!Next, D!Free
<1> QED
    BY <1>3, <1>4, <1>5, FeedMoves

\* A record that is read gives a decoder the next unit, one it had, or none.
LEMMA ReceiveDelivers ==
    ASSUME IInv, DInv, Receive
    PROVE  [D!Next]_(D!vars)
<1>1. UNCHANGED feed /\ seen \in [epoch : Nat, seq : Nat] /\ feed.epoch \in Nat
      /\ feed.nextSeq \in Nat
    BY ReceiveSeen DEF IInv, TypeOK, Feed
<1>2. UNCHANGED <<feed.epoch, Oldest(feed), feed.nextSeq>>
    BY <1>1 DEF Oldest
<1>3. CASE seen' = seen
    BY <1>2, <1>3 DEF D!vars
<1>4. CASE seen' # seen
    <2> DEFINE r == wire[1]
    <2>1. /\ r.type = "FRAME" /\ r \in Record
          /\ r.epoch # seen.epoch \/ r.seq > seen.seq
          /\ r.seq <= Wanted(seen, r.epoch)
          /\ seen' = [epoch |-> r.epoch, seq |-> r.seq]
          /\ 1 \in 1..Len(wire)
        BY <1>4, ReceiveSeen
    <2>2. /\ seen.epoch <= r.epoch /\ 0 < r.epoch /\ r.epoch <= feed.epoch
          /\ r.epoch = feed.epoch => r.seq < feed.nextSeq
        BY <2>1 DEF DInv, WireOK, RecordOK
    <2>3. r.epoch \in Nat /\ r.seq \in Nat /\ seen.epoch \in Nat /\ seen.seq \in Nat
        BY <1>1, <2>1 DEF Record
    <2> HIDE DEF r
    <2>4. CASE r.epoch = seen.epoch
        <3>1. r.seq = seen.seq + 1
            BY <2>1, <2>3, <2>4 DEF Wanted
        <3>2. seen' = [seen EXCEPT !.seq = @ + 1] /\ seen'.seq = r.seq
            BY <1>1, <2>1, <2>4, <3>1
        <3>3. D!DeliverNext
            BY <1>1, <1>2, <2>2, <2>3, <2>4, <3>2 DEF D!DeliverNext
        <3> QED
            BY <3>3 DEF D!Next
    <2>5. CASE r.epoch # seen.epoch
        <3>1. r.seq = 0
            BY <2>1, <2>3, <2>5 DEF Wanted
        <3>2. r.epoch \in (seen.epoch + 1)..feed.epoch
            BY <1>1, <2>2, <2>3, <2>5
        <3>3. r.epoch = feed.epoch => feed.nextSeq > 0
            BY <1>1, <2>2, <3>1
        <3>4. seen' = [epoch |-> r.epoch, seq |-> 0]
            BY <2>1, <3>1
        <3>5. D!DeliverFirst
            BY <1>2, <3>2, <3>3, <3>4 DEF D!DeliverFirst
        <3> QED
            BY <3>5 DEF D!Next
    <2> QED
        BY <2>4, <2>5
<1> QED
    BY <1>3, <1>4

\* The feed and its client implement Delivery: every step of the source, of
\* serve() and of Python is a step of the plain store, or invisible in it.
THEOREM FeedDeliversInOrder == Spec => Delivers
<1>1. Init => D!Init
    BY DEF Init, D!Init, Oldest
<1>2. IInv /\ DInv /\ [Next]_vars => [D!Next]_(D!vars)
    <2> SUFFICES ASSUME IInv, DInv, [Next]_vars PROVE [D!Next]_(D!vars)
        OBVIOUS
    <2>1. CASE Receive
        BY <2>1, ReceiveDelivers
    <2>2. CASE ~Receive
        BY <2>2, SeenMoves, FeedDelivers
    <2> QED
        BY <2>1, <2>2
<1> QED
    BY <1>1, <1>2, DeliveryInvariance, PTL DEF Spec, Delivers, D!Spec

=============================================================================
