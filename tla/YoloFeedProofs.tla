--------------------------- MODULE YoloFeedProofs ---------------------------
(***************************************************************************)
(* Proofs about YoloFeed, for every size, limit and bound.                 *)
(*                                                                         *)
(* The safety argument has two halves.  FeedOK is what the methods of Feed *)
(* keep true of the struct, and Evolves what a method may do to it: open a *)
(* later epoch, or drop units from the front and add the next one.  The    *)
(* rest of IInv ties the place serve() has reached to the last record of   *)
(* the stream; Evolves is all it needs to know of the other goroutines.    *)
(***************************************************************************)
EXTENDS YoloFeed, SequenceTheorems, FiniteSetTheorems, TLAPS

-----------------------------------------------------------------------------
(* The inductive invariant.                                                *)

Contiguous(f) ==
    \A i \in 1..Len(f.backlog) :
        /\ f.backlog[i].epoch = f.epoch
        /\ f.backlog[i].seq = f.nextSeq - Len(f.backlog) + i - 1

\* An epoch begins with a keyframe: nothing is retained before one, and the
\* first unit is one.
FeedOK(f) ==
    /\ f \in Feed
    /\ Contiguous(f)
    /\ f.seenIDR <=> f.nextSeq > 0
    /\ \A i \in 1..Len(f.backlog) : f.backlog[i].seq = 0 => f.backlog[i].key

\* The unit at which a new decoder would start, if there is one, is a keyframe.
StartsAtKey(f, seq) ==
    /\ seq = 0 \/ seq < f.nextSeq
    /\ \A i \in 1..Len(f.backlog) : f.backlog[i].seq = seq => f.backlog[i].key

LastRecord == IF wire = <<>> THEN py.rec ELSE wire[Len(wire)]

Streaming == {"loop", "evicted", "sending", "complete"}

\* A connection carries nothing until serve() has finished its handshake.
LinkOK ==
    /\ py.link = "down" => wire = <<>>
    /\ py.link = "draining" => conn.pc = "idle"
    /\ py.link = "up" /\ conn.pc \notin Streaming =>
          wire = <<>> /\ py.rec = NoRecord

\* While serve() is in the feed's epoch, its position matches what it wrote last.
PositionOK ==
    /\ conn.epoch <= feed.epoch
    /\ conn.epoch = feed.epoch =>
        /\ conn.pc = "start" => StartsAtKey(feed, conn.nextSeq)
        /\ py.link = "up" /\ conn.pc \in Streaming =>
              /\ LastRecord.type \in {"START", "FRAME", "END"}
              /\ LastRecord.type = "START" =>
                    LastRecord.epoch = conn.epoch /\ StartsAtKey(feed, conn.nextSeq)
              /\ LastRecord.type = "FRAME" =>
                    LastRecord.epoch = conn.epoch /\ conn.nextSeq = LastRecord.seq + 1
              /\ LastRecord.type = "END" =>
                    feed.sourceEnded /\ conn.nextSeq >= feed.nextSeq

Decodable ==
    \A i \in 1..Len(wire) : Follows(IF i = 1 THEN py.rec ELSE wire[i - 1], wire[i])

IInv == TypeOK /\ FeedOK(feed) /\ LinkOK /\ PositionOK /\ Decodable

\* What the feed may have become while serve() did not hold its mutex.
Evolves(f, g) ==
    \/ f.epoch < g.epoch
    \/ /\ f.epoch = g.epoch /\ f.nextSeq <= g.nextSeq
       /\ f.sourceEnded => g.sourceEnded /\ f.nextSeq = g.nextSeq
       /\ \A i \in 1..Len(g.backlog) :
            \/ g.backlog[i].seq = f.nextSeq
            \/ \E j \in 1..Len(f.backlog) : f.backlog[j] = g.backlog[i]

-----------------------------------------------------------------------------
(* The methods of Feed.                                                    *)

\* resetLocked() leaves an empty, later epoch.
LEMMA ResetOK ==
    ASSUME NEW f \in Feed
    PROVE  /\ ResetLocked(f) \in Feed /\ FeedOK(ResetLocked(f))
           /\ ResetLocked(f).epoch = f.epoch + 1
           /\ ResetLocked(f).nextSeq = 0
           /\ Evolves(f, ResetLocked(f))
<1>0. <<>> \in Seq(Unit) /\ f.epoch + 1 \in Nat
    BY EmptySeq DEF Feed
<1>1. ResetLocked(f) \in Feed
    BY <1>0 DEF ResetLocked, Feed
<1>2. /\ ResetLocked(f).backlog = <<>> /\ ResetLocked(f).epoch = f.epoch + 1
      /\ ResetLocked(f).nextSeq = 0 /\ ResetLocked(f).seenIDR = FALSE
    BY DEF ResetLocked, Feed
<1>3. Len(ResetLocked(f).backlog) = 0
    BY <1>2
<1>4. FeedOK(ResetLocked(f))
    BY <1>1, <1>2, <1>3 DEF FeedOK, Contiguous
<1>5. Evolves(f, ResetLocked(f))
    BY <1>2 DEF Evolves, Feed
<1> QED
    BY <1>1, <1>2, <1>4, <1>5

LEMMA SizeType == \A key \in BOOLEAN : Size(key) \in Nat
    BY FeedAssumption DEF Size, FeedAssumption

LEMMA RetainType ==
    ASSUME NEW f \in Feed, NEW key \in BOOLEAN
    PROVE  /\ Retain(f, key) \in Feed
           /\ Retain(f, key).epoch = f.epoch
           /\ Retain(f, key).nextSeq = f.nextSeq + 1
           /\ Retain(f, key).seenIDR <=> f.seenIDR \/ key
           /\ Retain(f, key).sourceEnded = f.sourceEnded
           /\ Len(Retain(f, key).backlog) = Len(f.backlog) + 1
           /\ \A i \in 1..Len(f.backlog) : Retain(f, key).backlog[i] = f.backlog[i]
           /\ Retain(f, key).backlog[Len(f.backlog) + 1] =
                 [epoch |-> f.epoch, seq |-> f.nextSeq, key |-> key]
<1> DEFINE u == [epoch |-> f.epoch, seq |-> f.nextSeq, key |-> key]
<1>1. u \in Unit /\ f.backlog \in Seq(Unit) /\ f.bytes \in Int /\ Size(key) \in Int
    BY SizeType DEF Unit, Feed
<1>2. Append(f.backlog, u) \in Seq(Unit)
    BY <1>1, AppendProperties
<1>3. Retain(f, key) = [f EXCEPT !.backlog = Append(@, u), !.bytes = @ + Size(key),
                                 !.nextSeq = @ + 1, !.seenIDR = @ \/ key]
    BY DEF Retain
<1>4. Retain(f, key).backlog = Append(f.backlog, u)
    BY <1>3 DEF Feed
<1>5. (f.seenIDR \/ key) \in BOOLEAN /\ f.nextSeq + 1 \in Nat
    BY DEF Feed
<1> HIDE DEF u
<1>6. Retain(f, key) \in Feed
    <2>1. f.bytes + Size(key) \in Int
        BY <1>1
    <2> QED
        BY <1>2, <1>3, <1>5, <2>1 DEF Feed
<1>7. /\ Retain(f, key).epoch = f.epoch
      /\ Retain(f, key).nextSeq = f.nextSeq + 1
      /\ Retain(f, key).seenIDR <=> f.seenIDR \/ key
      /\ Retain(f, key).sourceEnded = f.sourceEnded
    BY <1>3 DEF Feed
<1>8. /\ Len(Append(f.backlog, u)) = Len(f.backlog) + 1
      /\ \A i \in 1..Len(f.backlog) : Append(f.backlog, u)[i] = f.backlog[i]
      /\ Append(f.backlog, u)[Len(f.backlog) + 1] = u
    BY <1>1, AppendProperties
<1> QED
    BY <1>4, <1>6, <1>7, <1>8 DEF u

\* An acknowledgement removes between none and all of the units.
LEMMA CutType ==
    ASSUME NEW f \in Feed, NEW seq \in Nat
    PROVE  Cut(f, seq) \in 0..Len(f.backlog)
<1> DEFINE S == {n \in DOMAIN f.backlog : \A i \in 1..n : f.backlog[i].seq <= seq}
<1>1. Len(f.backlog) \in Nat /\ DOMAIN f.backlog = 1..Len(f.backlog)
    BY LenProperties DEF Feed
<1>2. S \in SUBSET (1..Len(f.backlog))
    BY <1>1
<1>3. IsFiniteSet(1..Len(f.backlog)) /\ Cardinality(1..Len(f.backlog)) = Len(f.backlog)
    BY <1>1, FS_Interval
<1> HIDE DEF S
<1>4. IsFiniteSet(S) /\ Cardinality(S) <= Len(f.backlog)
    BY <1>2, <1>3, FS_Subset
<1>5. Cardinality(S) \in Nat
    BY <1>4, FS_CardinalityType
<1> QED
    BY <1>1, <1>4, <1>5 DEF Cut, S

LEMMA FrontBytesType ==
    ASSUME NEW f \in Feed, NEW n \in Nat
    PROVE  FrontBytes(f, n) \in Nat
<1> DEFINE keys == {i \in 1..n : f.backlog[i].key}
<1>1. IsFiniteSet(1..n)
    BY FS_Interval
<1>2. keys \in SUBSET (1..n) /\ (1..n) \ keys \in SUBSET (1..n)
    OBVIOUS
<1>3. Cardinality(keys) \in Nat /\ Cardinality((1..n) \ keys) \in Nat
    BY <1>1, <1>2, FS_Subset, FS_CardinalityType
<1> HIDE DEF keys
<1>4. KeySize * Cardinality(keys) + DeltaSize * Cardinality((1..n) \ keys) \in Nat
    BY <1>3, FeedAssumption DEF FeedAssumption
<1> QED
    BY <1>4 DEF FrontBytes, keys

LEMMA AcknowledgeType ==
    ASSUME NEW f \in Feed, NEW epoch \in Nat, NEW seq \in Nat, epoch = f.epoch
    PROVE  /\ Acknowledge(f, epoch, seq) \in Feed
           /\ Acknowledge(f, epoch, seq).epoch = f.epoch
           /\ Acknowledge(f, epoch, seq).nextSeq = f.nextSeq
           /\ Acknowledge(f, epoch, seq).seenIDR = f.seenIDR
           /\ Acknowledge(f, epoch, seq).sourceEnded = f.sourceEnded
           /\ Len(Acknowledge(f, epoch, seq).backlog) = Len(f.backlog) - Cut(f, seq)
           /\ \A i \in 1..(Len(f.backlog) - Cut(f, seq)) :
                 Acknowledge(f, epoch, seq).backlog[i] = f.backlog[Cut(f, seq) + i]
<1> DEFINE c == Cut(f, seq)
           g == Acknowledge(f, epoch, seq)
           rest == SubSeq(f.backlog, c + 1, Len(f.backlog))
<1>1. c \in 0..Len(f.backlog) /\ Len(f.backlog) \in Nat /\ f.backlog \in Seq(Unit)
    BY CutType, LenProperties DEF Feed
<1>2. FrontBytes(f, c) \in Nat
    BY <1>1, FrontBytesType
<1>3. g = [f EXCEPT !.backlog = rest, !.bytes = f.bytes - FrontBytes(f, c)]
    BY DEF Acknowledge, Feed
<1> HIDE DEF c, g
<1>4. \A i \in (c + 1)..Len(f.backlog) : f.backlog[i] \in Unit
    BY <1>1, ElementOfSeq
<1>5. /\ rest \in Seq(Unit)
      /\ Len(rest) = IF c + 1 <= Len(f.backlog) THEN Len(f.backlog) - (c + 1) + 1 ELSE 0
      /\ \A i \in 1..(Len(f.backlog) - (c + 1) + 1) : rest[i] = f.backlog[c + 1 + i - 1]
    BY <1>1, <1>4, SubSeqProperties
<1>6. /\ Len(rest) = Len(f.backlog) - c
      /\ \A i \in 1..(Len(f.backlog) - c) : rest[i] = f.backlog[c + i]
    BY <1>1, <1>5
<1>7. f.bytes - FrontBytes(f, c) \in Int
    BY <1>2 DEF Feed
<1> HIDE DEF rest
<1>8. g \in Feed
    BY <1>3, <1>5, <1>7 DEF Feed
<1>9. /\ g.backlog = rest /\ g.epoch = f.epoch /\ g.nextSeq = f.nextSeq
      /\ g.seenIDR = f.seenIDR /\ g.sourceEnded = f.sourceEnded
    BY <1>3 DEF Feed
<1> QED
    BY <1>6, <1>8, <1>9 DEF c, g

LEMMA EvolvesReflexive == \A f \in Feed : Evolves(f, f)
<1> SUFFICES ASSUME NEW f \in Feed PROVE Evolves(f, f)
    OBVIOUS
<1>1. f.epoch \in Nat /\ f.nextSeq \in Nat
    BY DEF Feed
<1> QED
    BY <1>1 DEF Evolves

LEMMA RetainOK ==
    ASSUME NEW f \in Feed, NEW key \in BOOLEAN, FeedOK(f), f.seenIDR \/ key,
           ~f.sourceEnded
    PROVE  FeedOK(Retain(f, key)) /\ Evolves(f, Retain(f, key))
<1> DEFINE g == Retain(f, key)
           n == Len(f.backlog)
<1>1. /\ g \in Feed /\ g.epoch = f.epoch /\ g.nextSeq = f.nextSeq + 1
      /\ g.seenIDR <=> f.seenIDR \/ key
      /\ Len(g.backlog) = n + 1
      /\ \A i \in 1..n : g.backlog[i] = f.backlog[i]
      /\ g.backlog[n + 1] = [epoch |-> f.epoch, seq |-> f.nextSeq, key |-> key]
    BY RetainType
<1>2. n \in Nat /\ f.epoch \in Nat /\ f.nextSeq \in Nat
    BY LenProperties DEF Feed
<1> HIDE DEF g, n
<1>3. \A i \in 1..(n + 1) : i \in 1..n \/ i = n + 1
    BY <1>2
<1>4. /\ \A i \in 1..n : f.backlog[i].epoch = f.epoch
                         /\ f.backlog[i].seq = f.nextSeq - n + i - 1
      /\ f.seenIDR <=> f.nextSeq > 0
      /\ \A i \in 1..n : f.backlog[i].seq = 0 => f.backlog[i].key
    BY DEF FeedOK, Contiguous, n
<1>5. ASSUME NEW i \in 1..(n + 1)
      PROVE  /\ g.backlog[i].epoch = g.epoch
             /\ g.backlog[i].seq = g.nextSeq - (n + 1) + i - 1
             /\ g.backlog[i].seq = 0 => g.backlog[i].key
    <2>1. CASE i \in 1..n
        <3>1. g.backlog[i] = f.backlog[i]
            BY <1>1, <2>1
        <3>2. f.nextSeq - n + i - 1 = g.nextSeq - (n + 1) + i - 1
            BY <1>1, <1>2, <2>1
        <3> QED
            BY <1>1, <1>4, <2>1, <3>1, <3>2
    <2>2. CASE i = n + 1
        <3>1. f.nextSeq = 0 => key
            BY <1>2, <1>4
        <3>2. f.nextSeq = g.nextSeq - (n + 1) + i - 1
            BY <1>1, <1>2, <2>2
        <3> QED
            BY <1>1, <2>2, <3>1, <3>2
    <2> QED
        BY <1>3, <2>1, <2>2
<1>6. Contiguous(g)
    BY <1>1, <1>5 DEF Contiguous
<1>7. FeedOK(g)
    <2>1. g.seenIDR <=> g.nextSeq > 0
        BY <1>1, <1>2, <1>4
    <2> QED
        BY <1>1, <1>5, <1>6, <2>1 DEF FeedOK
<1>8. Evolves(f, g)
    BY <1>1, <1>2, <1>3 DEF Evolves, n
<1> QED
    BY <1>7, <1>8 DEF g

\* An access unit is kept, dropped, or costs the epoch its backlog.
LEMMA FinishOK ==
    ASSUME NEW f \in Feed, NEW key \in BOOLEAN, FeedOK(f), ~f.sourceEnded
    PROVE  /\ FinishAccessUnit(f, key) \in Feed /\ FeedOK(FinishAccessUnit(f, key))
           /\ Evolves(f, FinishAccessUnit(f, key))
<1>1. CASE ~f.seenIDR /\ ~key
    BY <1>1, EvolvesReflexive DEF FinishAccessUnit
<1>2. CASE (f.seenIDR \/ key) /\ ~Overflow(Retain(f, key))
    BY <1>2, RetainType, RetainOK DEF FinishAccessUnit
<1>3. CASE (f.seenIDR \/ key) /\ Overflow(Retain(f, key))
    <2>1. FinishAccessUnit(f, key) = ResetLocked(Retain(f, key))
        BY <1>3 DEF FinishAccessUnit
    <2>2. Retain(f, key) \in Feed
        BY RetainType
    <2>3. Retain(f, key).epoch = f.epoch
        BY RetainType
    <2>4. f.epoch < f.epoch + 1
        BY DEF Feed
    <2> QED
        BY <2>1, <2>2, <2>3, <2>4, ResetOK DEF Evolves
<1> QED
    BY <1>1, <1>2, <1>3

\* Publish, whether or not a reset comes first.
LEMMA AdmitOK ==
    ASSUME NEW f \in Feed, NEW gap \in BOOLEAN, FeedOK(f)
    PROVE  /\ Admit(f, gap) \in Feed /\ FeedOK(Admit(f, gap))
           /\ ~Admit(f, gap).sourceEnded
           /\ Evolves(f, Admit(f, gap))
           /\ Admit(f, gap) = f \/ f.epoch < Admit(f, gap).epoch
<1>1. CASE f.sourceEnded \/ gap
    <2>1. f.epoch < f.epoch + 1
        BY DEF Feed
    <2>2. ~ResetLocked(f).sourceEnded
        BY DEF ResetLocked
    <2> QED
        BY <1>1, <2>1, <2>2, ResetOK DEF Admit
<1>2. CASE ~(f.sourceEnded \/ gap)
    BY <1>2, EvolvesReflexive DEF Admit
<1> QED
    BY <1>1, <1>2

LEMMA PublishOK ==
    ASSUME NEW f \in Feed, NEW gap \in BOOLEAN, NEW key \in BOOLEAN, FeedOK(f)
    PROVE  /\ FinishAccessUnit(Admit(f, gap), key) \in Feed
           /\ FeedOK(FinishAccessUnit(Admit(f, gap), key))
           /\ Evolves(f, FinishAccessUnit(Admit(f, gap), key))
<1> DEFINE g == Admit(f, gap)
           h == FinishAccessUnit(g, key)
<1>1. /\ g \in Feed /\ FeedOK(g) /\ ~g.sourceEnded
      /\ g = f \/ f.epoch < g.epoch
    BY AdmitOK
<1>2. h \in Feed /\ FeedOK(h) /\ Evolves(g, h)
    BY <1>1, FinishOK
<1> HIDE DEF g, h
<1>3. Evolves(f, h)
    <2>1. g.epoch <= h.epoch /\ f.epoch \in Nat /\ g.epoch \in Nat /\ h.epoch \in Nat
        BY <1>1, <1>2 DEF Evolves, Feed
    <2>2. CASE g = f
        BY <2>2, <1>2
    <2>3. CASE f.epoch < g.epoch
        BY <2>1, <2>3 DEF Evolves
    <2> QED
        BY <1>1, <2>2, <2>3
<1> QED
    BY <1>2, <1>3 DEF g, h

LEMMA AcknowledgeOK ==
    ASSUME NEW f \in Feed, NEW epoch \in Nat, NEW seq \in Nat, FeedOK(f)
    PROVE  /\ Acknowledge(f, epoch, seq) \in Feed /\ FeedOK(Acknowledge(f, epoch, seq))
           /\ Evolves(f, Acknowledge(f, epoch, seq))
<1>1. CASE epoch # f.epoch
    BY <1>1, EvolvesReflexive DEF Acknowledge
<1>2. CASE epoch = f.epoch
    <2> DEFINE g == Acknowledge(f, epoch, seq)
               n == Len(f.backlog)
               c == Cut(f, seq)
    <2>1. /\ g \in Feed /\ g.epoch = f.epoch /\ g.nextSeq = f.nextSeq
          /\ g.seenIDR = f.seenIDR /\ g.sourceEnded = f.sourceEnded
          /\ Len(g.backlog) = n - c
          /\ \A i \in 1..(n - c) : g.backlog[i] = f.backlog[c + i]
        BY <1>2, AcknowledgeType
    <2>2. n \in Nat /\ c \in 0..n /\ f.epoch \in Nat /\ f.nextSeq \in Nat
        BY CutType, LenProperties DEF Feed
    <2> HIDE DEF g, n, c
    <2>3. \A i \in 1..(n - c) : c + i \in 1..n
        BY <2>2
    <2>4. /\ \A i \in 1..n : f.backlog[i].epoch = f.epoch
                             /\ f.backlog[i].seq = f.nextSeq - n + i - 1
          /\ f.seenIDR <=> f.nextSeq > 0
          /\ \A i \in 1..n : f.backlog[i].seq = 0 => f.backlog[i].key
        BY DEF FeedOK, Contiguous, n
    <2>5. \A i \in 1..(n - c) : f.nextSeq - n + (c + i) - 1 = f.nextSeq - (n - c) + i - 1
        BY <2>2
    <2>6. Contiguous(g)
        <3>1. ASSUME NEW i \in 1..(n - c)
              PROVE  /\ g.backlog[i].epoch = g.epoch
                     /\ g.backlog[i].seq = g.nextSeq - (n - c) + i - 1
            <4>1. c + i \in 1..n /\ g.backlog[i] = f.backlog[c + i]
                BY <2>1, <2>3
            <4>2. f.backlog[c + i].seq = f.nextSeq - n + (c + i) - 1
                BY <2>4, <4>1
            <4> QED
                BY <2>1, <2>4, <2>5, <4>1, <4>2
        <3> QED
            BY <2>1, <3>1 DEF Contiguous
    <2>7. FeedOK(g)
        BY <2>1, <2>3, <2>4, <2>6 DEF FeedOK
    <2>8. Evolves(f, g)
        <3>1. ASSUME NEW i \in 1..(n - c)
              PROVE  \E j \in 1..n : f.backlog[j] = g.backlog[i]
            <4>1. c + i \in 1..n /\ f.backlog[c + i] = g.backlog[i]
                BY <2>1, <2>3
            <4> QED
                BY <4>1
        <3>2. \A i \in 1..Len(g.backlog) : \E j \in 1..Len(f.backlog) :
                  f.backlog[j] = g.backlog[i]
            BY <2>1, <3>1 DEF n
        <3> QED
            BY <2>1, <2>2, <3>2 DEF Evolves
    <2> QED
        BY <2>1, <2>7, <2>8 DEF g
<1> QED
    BY <1>1, <1>2

\* A decoder that could start where serve() stands still can after the feed moved
\* on within the epoch.
LEMMA StartsAtKeyStable ==
    ASSUME NEW f \in Feed, NEW g \in Feed, FeedOK(f), FeedOK(g), Evolves(f, g),
           f.epoch = g.epoch, NEW seq \in Nat, StartsAtKey(f, seq)
    PROVE  StartsAtKey(g, seq)
<1>1. /\ f.nextSeq \in Nat /\ g.nextSeq \in Nat /\ f.epoch \in Nat
      /\ f.nextSeq <= g.nextSeq
      /\ \A i \in 1..Len(g.backlog) :
            \/ g.backlog[i].seq = f.nextSeq
            \/ \E j \in 1..Len(f.backlog) : f.backlog[j] = g.backlog[i]
    BY DEF Evolves, Feed
<1>2. \A i \in 1..Len(g.backlog) : g.backlog[i].seq = 0 => g.backlog[i].key
    BY DEF FeedOK
<1>3. seq = 0 \/ seq < f.nextSeq
    BY DEF StartsAtKey
<1>4. seq = 0 \/ seq < g.nextSeq
    BY <1>1, <1>3
<1>5. ASSUME NEW i \in 1..Len(g.backlog), g.backlog[i].seq = seq
      PROVE  g.backlog[i].key
    <2>1. CASE g.backlog[i].seq = f.nextSeq
        BY <1>1, <1>2, <1>3, <1>5, <2>1
    <2>2. CASE \E j \in 1..Len(f.backlog) : f.backlog[j] = g.backlog[i]
        BY <1>5, <2>2 DEF StartsAtKey
    <2> QED
        BY <1>1, <2>1, <2>2
<1> QED
    BY <1>4, <1>5 DEF StartsAtKey

-----------------------------------------------------------------------------
(* Steps, and what they leave well typed.                                  *)

\* Whatever a step does to the feed is one of the methods above.
LEMMA FeedStep ==
    ASSUME TypeOK, FeedOK(feed), [Next]_vars
    PROVE  feed' \in Feed /\ FeedOK(feed') /\ Evolves(feed, feed')
<1>0. feed \in Feed /\ cmds \in Seq(Command)
    BY DEF TypeOK
<1>1. CASE UNCHANGED feed
    BY <1>0, <1>1, EvolvesReflexive
<1>2. CASE feed' = ResetLocked(feed)
    BY <1>0, <1>2, ResetOK
<1>3. ASSUME NEW gap \in BOOLEAN, NEW unit \in {"none", "key", "delta"},
             Publish(gap, unit)
      PROVE  feed' \in Feed /\ FeedOK(feed') /\ Evolves(feed, feed')
    <2>1. CASE unit = "none"
        BY <1>0, <1>3, <2>1, AdmitOK DEF Publish
    <2>2. CASE unit # "none"
        <3>1. (unit = "key") \in BOOLEAN
            OBVIOUS
        <3> QED
            BY <1>0, <1>3, <2>2, <3>1, PublishOK DEF Publish
    <2> QED
        BY <2>1, <2>2
<1>4. ASSUME feed' = [feed EXCEPT !.sourceEnded = TRUE, !.endSent = FALSE]
             \/ feed' = [feed EXCEPT !.endSent = TRUE]
      PROVE  feed' \in Feed /\ FeedOK(feed') /\ Evolves(feed, feed')
    <2>1. /\ feed' \in Feed
          /\ feed'.backlog = feed.backlog /\ feed'.epoch = feed.epoch
          /\ feed'.nextSeq = feed.nextSeq
          /\ feed'.seenIDR = feed.seenIDR
        BY <1>0, <1>4 DEF Feed
    <2>2. feed.sourceEnded => feed'.sourceEnded
        BY <1>0, <1>4 DEF Feed
    <2>3. feed.epoch \in Nat /\ feed.nextSeq \in Nat
        BY <1>0 DEF Feed
    <2>4. FeedOK(feed')
        BY <2>1 DEF FeedOK, Contiguous
    <2>5. Evolves(feed, feed')
        BY <2>1, <2>2, <2>3 DEF Evolves
    <2> QED
        BY <2>1, <2>4, <2>5
<1>5. ASSUME HandleAck
      PROVE  feed' \in Feed /\ FeedOK(feed') /\ Evolves(feed, feed')
    <2>1. Head(cmds) \in Command
        BY <1>0, <1>5, HeadTailProperties DEF HandleAck, TakeCommand
    <2>2. Head(cmds).epoch \in Nat /\ Head(cmds).seq \in Nat
        BY <2>1 DEF Command
    <2> QED
        BY <1>0, <1>5, <2>2, AcknowledgeOK DEF HandleAck
<1>6. CASE Serve
    BY <1>1, <1>2, <1>4, <1>5, <1>6
       DEF Serve, Accept, ReadBegin, Rewind, StartRequiresIDR, SendStart,
           HandleResync, HandleStop, Tick, ResumeUnavailable, SendFrame, SendEnd,
           ServeEOF
<1>7. CASE Python
    BY <1>1, <1>7 DEF Python, Connect, Receive, Drained, Disconnect, DecodeError,
           PyRestart, Present, ViewerResync, ViewerStop
<1> QED
    BY <1>1, <1>3, <1>4, <1>6, <1>7 DEF Next, Source, EndSource, vars

LEMMA WriteType ==
    ASSUME NEW recs \in Seq(Record), NEW next \in Conn, Write(recs, next),
           wire \in Seq(Record)
    PROVE  wire' \in Seq(Record) /\ conn' \in Conn
<1>1. wire \o recs \in Seq(Record)
    BY ConcatProperties
<1>2. [next EXCEPT !.pc = "idle"] \in Conn
    BY DEF Conn, ServeStep
<1> QED
    BY <1>1, <1>2 DEF Write

LEMMA RecordTypes ==
    /\ End \in Record /\ NoRecord \in Record
    /\ \A e \in Nat : Start(e) \in Record /\ ResetRec(e) \in Record
    /\ \A u \in Unit : Frame(u) \in Record
    BY DEF End, NoRecord, Start, ResetRec, Frame, Record, Unit

LEMMA UnreadType ==
    ASSUME cmds \in Seq(Command), NEW rest \in Unread
    PROVE  rest \in Seq(Command)
<1>1. PICK n \in 1..(Len(cmds) + 1) : rest = SubSeq(cmds, n, Len(cmds))
    BY DEF Unread
<1>2. Len(cmds) \in Nat
    BY LenProperties
<1>3. \A i \in n..Len(cmds) : cmds[i] \in Command
    BY <1>2, ElementOfSeq
<1> QED
    BY <1>1, <1>2, <1>3, SubSeqProperties

LEMMA TypeServe ==
    ASSUME TypeOK, FeedOK(feed), Serve, feed' \in Feed
    PROVE  TypeOK'
<1>0. /\ feed \in Feed /\ conn \in Conn /\ wire \in Seq(Record) /\ py \in Py
      /\ cmds \in Seq(Command) /\ seen \in [epoch : Nat, seq : Nat]
      /\ used \in [units : 0..MaxUnits, faults : 0..MaxFaults]
    BY DEF TypeOK
<1>1. seen' = seen /\ used' = used
    BY DEF Serve, Accept, ReadBegin, Rewind, StartRequiresIDR, SendStart, HandleAck,
           HandleResync, HandleStop, TakeCommand, Tick, ResumeUnavailable,
           SendFrame, SendEnd, ServeEOF
<1>2. /\ feed.epoch \in Nat /\ feed.nextSeq \in Nat
      /\ feed'.epoch \in Nat /\ feed.backlog \in Seq(Unit)
      /\ conn.epoch \in Nat /\ conn.nextSeq \in Nat
    BY <1>0 DEF Feed, Conn
<1>3. \A i \in DOMAIN feed.backlog :
         feed.backlog[i] \in Unit /\ feed.backlog[i].seq \in Nat
    <2>1. \A i \in DOMAIN feed.backlog : feed.backlog[i] \in Unit
        BY <1>2, LenProperties, ElementOfSeq
    <2>2. \A u \in Unit : u.seq \in Nat
        BY DEF Unit
    <2> QED
        BY <2>1, <2>2
<1>4. \A p \in ServeStep :
         [conn EXCEPT !.pc = p] \in Conn
    BY <1>0 DEF Conn
<1>5. \A p \in ServeStep, e \in Nat, s \in Nat :
         [pc |-> p, epoch |-> e, nextSeq |-> s] \in Conn
    BY DEF Conn
<1>6. {"idle", "hello", "rewind", "noIDR", "start", "loop", "evicted", "sending",
       "complete"} = ServeStep
    BY DEF ServeStep
<1>7. \A e \in Nat : <<Start(e)>> \in Seq(Record)
                     /\ <<ResetRec(e), Start(e)>> \in Seq(Record)
    BY RecordTypes
<1>8. CASE Accept
    <2>1. Oldest(feed) \in Nat
        BY <1>2, <1>3, EmptySeq, LenProperties DEF Oldest
    <2> QED
        BY <1>0, <1>1, <1>2, <1>5, <1>6, <1>8, <2>1 DEF Accept, TypeOK
<1>9. CASE \E timeout \in BOOLEAN : ReadBegin(timeout)
    <2>1. PICK timeout \in BOOLEAN : ReadBegin(timeout)
        BY <1>9
    <2>2. conn' \in Conn
        <3>1. py.hello.last \in Int
            BY <1>0 DEF Py
        <3>2. py.hello.last >= -1 => py.hello.last + 1 \in Nat
            BY <3>1
        <3> QED
            BY <1>0, <2>1, <3>2 DEF ReadBegin, Conn, ServeStep
    <2>3. py' \in Py
        <3>1. NoHello \in [epoch : Nat, last : Int]
            BY DEF NoHello
        <3> QED
            BY <1>0, <2>1, <3>1 DEF ReadBegin, Py
    <2> QED
        BY <1>0, <1>1, <2>1, <2>2, <2>3 DEF ReadBegin, TypeOK
<1>10. CASE Rewind
    <2>1. \A s \in KeyframesUpTo(feed, conn.nextSeq) : s \in Nat
        BY <1>3 DEF KeyframesUpTo
    <2>2. conn' \in Conn
        BY <1>0, <1>10, <2>1 DEF Rewind, Conn, ServeStep
    <2> QED
        BY <1>0, <1>1, <1>10, <2>2 DEF Rewind, TypeOK
<1>11. CASE StartRequiresIDR
    BY <1>0, <1>1, <1>2, <1>5, <1>6, <1>11 DEF StartRequiresIDR, TypeOK
<1>12. CASE SendStart
    BY <1>0, <1>1, <1>2, <1>4, <1>6, <1>7, <1>12, WriteType DEF SendStart, TypeOK
<1>13. CASE HandleAck
    <2>1. cmds' \in Seq(Command)
        BY <1>0, <1>13, HeadTailProperties DEF HandleAck, TakeCommand
    <2> QED
        BY <1>0, <1>1, <1>13, <2>1 DEF HandleAck, TypeOK
<1>14. CASE HandleResync
    <2>1. cmds' \in Seq(Command)
        BY <1>0, <1>14, HeadTailProperties DEF HandleResync, TakeCommand
    <2>2. wire' \in Seq(Record) /\ conn' \in Conn
        BY <1>0, <1>2, <1>5, <1>6, <1>7, <1>14, WriteType DEF HandleResync
    <2> QED
        BY <1>0, <1>1, <1>14, <2>1, <2>2 DEF HandleResync, TypeOK
<1>15. CASE HandleStop
    <2>1. cmds' \in Seq(Command)
        BY <1>0, <1>15, HeadTailProperties DEF HandleStop, TakeCommand
    <2>2. py' \in Py
        BY <1>0, <1>15 DEF HandleStop, Py
    <2> QED
        BY <1>0, <1>1, <1>4, <1>6, <1>15, <2>1, <2>2 DEF HandleStop, TypeOK
<1>16. CASE Tick
    <2>1. wire' \in Seq(Record) /\ conn' \in Conn
        BY <1>0, <1>2, <1>4, <1>5, <1>6, <1>7, <1>16, WriteType DEF Tick
    <2> QED
        BY <1>0, <1>1, <1>16, <2>1 DEF Tick, TypeOK
<1>17. CASE ResumeUnavailable
    <2>1. wire' \in Seq(Record) /\ conn' \in Conn
        BY <1>0, <1>2, <1>5, <1>6, <1>7, <1>17, WriteType DEF ResumeUnavailable
    <2> QED
        BY <1>0, <1>1, <1>17, <2>1 DEF ResumeUnavailable, TypeOK
<1>18. CASE SendFrame
    <2>1. \A i \in DOMAIN feed.backlog : <<Frame(feed.backlog[i])>> \in Seq(Record)
        BY <1>3, RecordTypes
    <2>2. [conn EXCEPT !.nextSeq = @ + 1] \in Conn
        <3>1. conn.nextSeq + 1 \in Nat
            BY <1>2
        <3> QED
            BY <1>0, <3>1 DEF Conn
    <2>3. wire' \in Seq(Record) /\ conn' \in Conn
        BY <1>0, <1>4, <1>6, <1>18, <2>1, <2>2, WriteType DEF SendFrame
    <2> QED
        BY <1>0, <1>1, <1>18, <2>3 DEF SendFrame, TypeOK
<1>19. CASE SendEnd
    <2>1. <<End>> \in Seq(Record)
        BY RecordTypes
    <2>2. wire' \in Seq(Record) /\ conn' \in Conn
        BY <1>0, <1>4, <1>6, <1>19, <2>1, WriteType DEF SendEnd
    <2> QED
        BY <1>0, <1>1, <1>19, <2>2 DEF SendEnd, TypeOK
<1>20. CASE ServeEOF
    BY <1>0, <1>1, <1>4, <1>6, <1>20 DEF ServeEOF, TypeOK
<1> QED
    BY <1>8, <1>9, <1>10, <1>11, <1>12, <1>13, <1>14, <1>15, <1>16, <1>17, <1>18,
       <1>19, <1>20 DEF Serve

\* A record is read by the process the client is.
LEMMA ReceiveType ==
    ASSUME TypeOK, Receive
    PROVE  /\ py' \in Py /\ wire' \in Seq(Record) /\ cmds' \in Seq(Command)
           /\ seen' \in [epoch : Nat, seq : Nat]
<1> DEFINE r == Head(wire)
           new == \/ r.type = "RESET"
                  \/ r.type = "START" /\ r.epoch # 0 /\ r.epoch # py.epoch
<1>0. /\ wire \in Seq(Record) /\ wire # <<>> /\ py \in Py /\ cmds \in Seq(Command)
      /\ seen \in [epoch : Nat, seq : Nat]
    BY DEF TypeOK, Receive
<1>1. r \in Record /\ Tail(wire) \in Seq(Record) /\ <<>> \in Seq(Record)
    BY <1>0, HeadTailProperties, EmptySeq
<1>2. r.epoch \in Nat /\ r.seq \in Nat
    BY <1>1 DEF Record
<1>3. py' = [py EXCEPT
               !.epoch = IF new THEN r.epoch ELSE @,
               !.last = IF new THEN -1 ELSE @,
               !.got = IF new THEN -1
                       ELSE IF r.type = "FRAME" /\ r.seq > @ THEN r.seq ELSE @,
               !.rec = r,
               !.link = IF r.type = "END" THEN "down" ELSE @]
    BY DEF Receive
<1>4. wire' = IF r.type = "END" THEN <<>> ELSE Tail(wire)
    BY DEF Receive
<1>5. cmds' \in Unread \/ cmds' = cmds
    BY DEF Receive
<1>6. seen' = seen \/ seen' = [epoch |-> r.epoch, seq |-> r.seq]
    BY DEF Receive
<1> HIDE DEF r, new
<1>7. py' \in Py
    <2> DEFINE e == IF new THEN r.epoch ELSE py.epoch
               l == IF new THEN -1 ELSE py.last
               g == IF new THEN -1
                    ELSE IF r.type = "FRAME" /\ r.seq > py.got THEN r.seq ELSE py.got
               k == IF r.type = "END" THEN "down" ELSE py.link
    <2>1. e \in Nat /\ l \in Nat \cup {-1} /\ g \in Nat \cup {-1}
          /\ k \in {"down", "up", "draining"}
        BY <1>0, <1>2 DEF Py
    <2>2. py' = [py EXCEPT !.epoch = e, !.last = l, !.got = g, !.rec = r, !.link = k]
        BY <1>0, <1>3 DEF Py
    <2> HIDE DEF e, l, g, k
    <2> QED
        BY <1>0, <1>1, <2>1, <2>2 DEF Py
<1> QED
    BY <1>0, <1>1, <1>2, <1>4, <1>5, <1>6, <1>7, UnreadType

LEMMA TypePython ==
    ASSUME TypeOK, Python
    PROVE  TypeOK'
<1>0. /\ feed \in Feed /\ conn \in Conn /\ wire \in Seq(Record) /\ py \in Py
      /\ cmds \in Seq(Command) /\ seen \in [epoch : Nat, seq : Nat]
      /\ used \in [units : 0..MaxUnits, faults : 0..MaxFaults]
    BY DEF TypeOK
<1>1. Fault => used' \in [units : 0..MaxUnits, faults : 0..MaxFaults]
    <2>1. MaxFaults \in Nat
        BY FeedAssumption DEF FeedAssumption
    <2> QED
        BY <1>0, <2>1 DEF Fault
<1>2. <<>> \in Seq(Record) /\ <<>> \in Seq(Command)
    BY EmptySeq
<1>3. \A t \in {"resync", "stop"}, q \in Seq(Command) :
         Append(q, [type |-> t, epoch |-> 0, seq |-> 0]) \in Seq(Command)
    <2>1. \A t \in {"resync", "stop"} : [type |-> t, epoch |-> 0, seq |-> 0] \in Command
        BY DEF Command
    <2> QED
        BY <2>1, AppendProperties
<1>4. NoHello \in [epoch : Nat, last : Int]
    BY DEF NoHello
<1>5. CASE Connect
    <2>1. [epoch |-> py.epoch, last |-> py.last] \in [epoch : Nat, last : Int]
        BY <1>0 DEF Py
    <2>2. py' \in Py
        BY <1>0, <1>5, <2>1, RecordTypes DEF Connect, Py
    <2> QED
        BY <1>0, <1>5, <2>2 DEF Connect, TypeOK
<1>6. CASE Receive
    BY <1>0, <1>6, ReceiveType DEF Receive, TypeOK
<1>7. CASE Drained
    <2>1. py' \in Py
        BY <1>0, <1>7 DEF Drained, Py
    <2> QED
        BY <1>0, <1>7, <2>1 DEF Drained, TypeOK
<1>8. CASE Disconnect
    <2>1. py' \in Py
        BY <1>0, <1>4, <1>8 DEF Disconnect, Py
    <2> QED
        BY <1>0, <1>1, <1>2, <1>8, <2>1, UnreadType DEF Disconnect, TypeOK
<1>9. CASE DecodeError
    <2>1. py' \in Py
        BY <1>0, <1>4, <1>9 DEF DecodeError, Py
    <2> QED
        BY <1>0, <1>1, <1>2, <1>3, <1>9, <2>1, UnreadType DEF DecodeError, TypeOK
<1>10. CASE PyRestart
    <2>1. py' \in Py
        BY <1>0, <1>4, <1>10 DEF PyRestart, Py
    <2> QED
        BY <1>0, <1>1, <1>2, <1>10, <2>1 DEF PyRestart, TypeOK
<1>11. CASE Present
    <2>1. PICK s \in (py.last + 1)..py.got :
             /\ py' = [py EXCEPT !.last = s]
             /\ cmds' = Append(cmds, [type |-> "presented", epoch |-> py.epoch, seq |-> s])
        BY <1>11 DEF Present
    <2>2. s \in Nat /\ py.epoch \in Nat
        BY <1>0 DEF Py
    <2>3. py' \in Py
        BY <1>0, <2>1, <2>2 DEF Py
    <2>4. [type |-> "presented", epoch |-> py.epoch, seq |-> s] \in Command
        BY <2>2 DEF Command
    <2>5. cmds' \in Seq(Command)
        BY <1>0, <2>1, <2>4, AppendProperties
    <2> QED
        BY <1>0, <1>11, <2>3, <2>5 DEF Present, TypeOK
<1>12. CASE ViewerResync
    <2>1. py' \in Py
        BY <1>0, <1>12 DEF ViewerResync, Py
    <2> QED
        BY <1>0, <1>1, <1>3, <1>12, <2>1 DEF ViewerResync, TypeOK
<1>13. CASE ViewerStop
    BY <1>0, <1>1, <1>3, <1>13 DEF ViewerStop, TypeOK
<1> QED
    BY <1>5, <1>6, <1>7, <1>8, <1>9, <1>10, <1>11, <1>12, <1>13 DEF Python

LEMMA TypeSource ==
    ASSUME TypeOK, Source, feed' \in Feed
    PROVE  TypeOK'
<1>1. used' \in [units : 0..MaxUnits, faults : 0..MaxFaults]
    <2>1. /\ MaxUnits \in Nat /\ MaxFaults \in Nat
          /\ used.units \in 0..MaxUnits /\ used.faults \in 0..MaxFaults
          /\ used \in [units : 0..MaxUnits, faults : 0..MaxFaults]
        BY FeedAssumption DEF FeedAssumption, TypeOK
    <2>2. CASE EndSource
        BY <2>1, <2>2 DEF EndSource, Fault
    <2>3. CASE \E gap \in BOOLEAN, unit \in {"none", "key", "delta"} : Publish(gap, unit)
        BY <2>1, <2>3 DEF Publish
    <2> QED
        BY <2>2, <2>3 DEF Source
<1> QED
    BY <1>1 DEF Source, Publish, EndSource, TypeOK

\* The state stays well typed, whatever the three parties do.
LEMMA TypeStep ==
    ASSUME TypeOK, FeedOK(feed), [Next]_vars
    PROVE  TypeOK'
<1>1. feed' \in Feed
    BY FeedStep
<1>2. CASE UNCHANGED vars
    BY <1>2 DEF vars, TypeOK
<1> QED
    BY <1>1, <1>2, TypeSource, TypeServe, TypePython DEF Next

-----------------------------------------------------------------------------
(* The connection.                                                         *)

LEMMA WriteLink ==
    ASSUME NEW recs, NEW next \in Conn, next.pc \in Streaming, Write(recs, next),
           py' = py, LinkOK, conn.pc # "idle"
    PROVE  LinkOK'
<1>1. CASE py.link = "up"
    BY <1>1 DEF Write, LinkOK
<1>2. CASE py.link # "up"
    <2>1. conn'.pc = "idle" /\ wire' = wire
        BY <1>2 DEF Write, Conn
    <2> QED
        BY <1>2, <2>1 DEF LinkOK
<1> QED
    BY <1>1, <1>2

LEMMA LinkServe ==
    ASSUME TypeOK, LinkOK, FeedOK(feed), Serve
    PROVE  LinkOK'
<1>0. /\ conn \in Conn /\ py \in Py /\ feed \in Feed
    BY DEF TypeOK
<1>1. \A p \in ServeStep : [conn EXCEPT !.pc = p] \in Conn
                           /\ [conn EXCEPT !.pc = p].pc = p
    BY <1>0 DEF Conn
<1>2. \A p \in ServeStep, e \in Nat, n \in Nat :
         [pc |-> p, epoch |-> e, nextSeq |-> n] \in Conn
    BY DEF Conn
<1>3. {"loop", "sending"} \subseteq ServeStep
    BY DEF ServeStep
<1>4. feed'.epoch \in Nat
    BY FeedStep DEF Feed, Next
<1>5. CASE Accept
    BY <1>5 DEF Accept, LinkOK, Streaming
<1>6. CASE \E timeout \in BOOLEAN : ReadBegin(timeout)
    BY <1>0, <1>6 DEF ReadBegin, LinkOK, Streaming, Conn, Py
<1>7. CASE Rewind
    BY <1>0, <1>7 DEF Rewind, LinkOK, Streaming, Conn
<1>8. CASE StartRequiresIDR
    BY <1>8 DEF StartRequiresIDR, LinkOK, Streaming
<1>9. CASE SendStart
    BY <1>1, <1>3, <1>9, WriteLink DEF SendStart, Streaming
<1>10. CASE HandleAck
    BY <1>10 DEF HandleAck, LinkOK
<1>11. CASE HandleResync
    BY <1>2, <1>3, <1>4, <1>11, WriteLink DEF HandleResync, TakeCommand, Streaming
<1>12. CASE HandleStop
    BY <1>0, <1>12 DEF HandleStop, TakeCommand, LinkOK, Streaming, Conn, Py
<1>13. CASE Tick
    <2>1. CASE conn'.pc \in Streaming /\ wire' = wire
        BY <1>13, <2>1 DEF Tick, LinkOK, Streaming
    <2>2. CASE feed.epoch # conn.epoch
        <3>1. feed.epoch \in Nat
            BY <1>0 DEF Feed
        <3> QED
            BY <1>2, <1>3, <1>13, <2>2, <3>1, WriteLink DEF Tick, Streaming
    <2> QED
        BY <1>0, <1>13, <2>1, <2>2 DEF Tick, Streaming, Conn
<1>14. CASE ResumeUnavailable
    BY <1>2, <1>3, <1>4, <1>14, WriteLink DEF ResumeUnavailable, Streaming
<1>15. CASE SendFrame
    <2>1. CASE wire' = wire /\ conn'.pc \in Streaming
        BY <1>15, <2>1 DEF SendFrame, LinkOK, Streaming
    <2>2. CASE Retained(feed, conn.epoch, conn.nextSeq)
        <3>1. [conn EXCEPT !.nextSeq = @ + 1] \in Conn
            BY <1>0 DEF Conn
        <3>2. [conn EXCEPT !.nextSeq = @ + 1].pc = conn.pc
            BY <1>0 DEF Conn
        <3> QED
            BY <1>15, <2>2, <3>1, <3>2, WriteLink DEF SendFrame, Streaming
    <2> QED
        BY <1>0, <1>15, <2>1, <2>2 DEF SendFrame, Streaming, Conn
<1>16. CASE SendEnd
    <2>1. CASE wire' = wire /\ conn'.pc \in Streaming
        BY <1>16, <2>1 DEF SendEnd, LinkOK, Streaming
    <2>2. CASE SourceComplete(feed, conn.epoch, conn.nextSeq)
        BY <1>1, <1>3, <1>16, <2>2, WriteLink DEF SendEnd, Streaming
    <2> QED
        BY <1>0, <1>16, <2>1, <2>2 DEF SendEnd, Streaming, Conn
<1>17. CASE ServeEOF
    BY <1>0, <1>17 DEF ServeEOF, LinkOK, Streaming, Conn
<1> QED
    BY <1>5, <1>6, <1>7, <1>8, <1>9, <1>10, <1>11, <1>12, <1>13, <1>14, <1>15, <1>16,
       <1>17 DEF Serve

LEMMA LinkStep ==
    ASSUME TypeOK, LinkOK, FeedOK(feed), [Next]_vars
    PROVE  LinkOK'
<1>0. py \in Py /\ wire \in Seq(Record)
    BY DEF TypeOK
<1>1. CASE UNCHANGED <<wire, py, conn>>
    BY <1>1 DEF LinkOK
<1>2. CASE Serve
    BY <1>2, LinkServe
<1>3. CASE Connect
    BY <1>0, <1>3 DEF Connect, LinkOK, Py
<1>4. CASE Receive
    <2>1. conn' = conn
        BY <1>4 DEF Receive
    <2>2. /\ Head(wire).type = "END" => py'.link = "down" /\ wire' = <<>>
          /\ Head(wire).type # "END" => py'.link = py.link
        BY <1>0, <1>4 DEF Receive, Py
    <2>3. wire # <<>> /\ py.link # "down"
        BY <1>4 DEF Receive
    <2> QED
        BY <2>1, <2>2, <2>3 DEF LinkOK
<1>5. CASE Drained \/ Disconnect \/ DecodeError \/ PyRestart
    BY <1>0, <1>5 DEF Drained, Disconnect, DecodeError, PyRestart, LinkOK, Py
<1>6. CASE Present \/ ViewerResync
    BY <1>0, <1>6 DEF Present, ViewerResync, LinkOK, Py
<1> QED
    BY <1>1, <1>2, <1>3, <1>4, <1>5, <1>6
       DEF Next, Source, Publish, EndSource, Python, ViewerStop, vars

-----------------------------------------------------------------------------
(* The position of serve() in the stream.                                  *)

\* Writing makes the last record written the last record of the stream.
LEMMA WriteLast ==
    ASSUME NEW s \in Seq(Record), NEW recs \in Seq(Record), recs # <<>>
    PROVE  /\ s \o recs # <<>>
           /\ (s \o recs)[Len(s \o recs)] = recs[Len(recs)]
<1>1. /\ Len(s) \in Nat /\ Len(recs) \in Nat \ {0}
      /\ Len(s \o recs) = Len(s) + Len(recs)
      /\ \A i \in 1..(Len(s) + Len(recs)) :
            (s \o recs)[i] = IF i <= Len(s) THEN s[i] ELSE recs[i - Len(s)]
    BY EmptySeq, LenProperties, ConcatProperties
<1>2. Len(s) + Len(recs) \in 1..(Len(s) + Len(recs)) /\ ~(Len(s) + Len(recs) <= Len(s))
    BY <1>1
<1>3. (s \o recs)[Len(s) + Len(recs)] = recs[(Len(s) + Len(recs)) - Len(s)]
    BY <1>1, <1>2
<1>4. (Len(s) + Len(recs)) - Len(s) = Len(recs)
    BY <1>1
<1> QED
    BY <1>1, <1>3, <1>4

\* What the other goroutines do, or Python, leaves the position alone.
LEMMA PositionStable ==
    ASSUME TypeOK, TypeOK', PositionOK, FeedOK(feed), FeedOK(feed'),
           Evolves(feed, feed'), conn' = conn,
           py'.link = "up" /\ conn.pc \in Streaming =>
              py.link = "up" /\ LastRecord' = LastRecord
    PROVE  PositionOK'
<1>0. /\ feed \in Feed /\ feed' \in Feed /\ conn \in Conn
      /\ feed.epoch \in Nat /\ feed'.epoch \in Nat /\ conn.epoch \in Nat
      /\ feed.nextSeq \in Nat /\ feed'.nextSeq \in Nat /\ conn.nextSeq \in Nat
    BY DEF TypeOK, Feed, Conn
<1>1. feed.epoch <= feed'.epoch
    BY <1>0 DEF Evolves
<1>2. conn.epoch <= feed.epoch
    BY DEF PositionOK
<1>3. CASE conn.epoch # feed'.epoch
    BY <1>0, <1>1, <1>2, <1>3 DEF PositionOK
<1>4. CASE conn.epoch = feed'.epoch
    <2>1. feed.epoch = feed'.epoch /\ conn.epoch = feed.epoch
        BY <1>0, <1>1, <1>2, <1>4
    <2>2. StartsAtKey(feed, conn.nextSeq) => StartsAtKey(feed', conn.nextSeq)
        BY <1>0, <2>1, StartsAtKeyStable
    <2>3. feed.sourceEnded => feed'.sourceEnded /\ feed.nextSeq = feed'.nextSeq
        BY <1>0, <2>1 DEF Evolves
    <2> QED
        BY <1>1, <1>2, <2>1, <2>2, <2>3 DEF PositionOK
<1> QED
    BY <1>3, <1>4

\* A step that opens the stream, or a new epoch, ends with START.
LEMMA PositionStart ==
    ASSUME TypeOK, FeedOK(feed'), feed' \in Feed, NEW recs \in Seq(Record),
           recs # <<>>, NEW next \in Conn, Write(recs, next), py' = py,
           recs[Len(recs)] = Start(next.epoch),
           next.epoch <= feed'.epoch,
           next.epoch = feed'.epoch => StartsAtKey(feed', next.nextSeq),
           next.pc \in {"loop", "sending"}
    PROVE  PositionOK'
<1>1. CASE py.link = "up"
    <2>1. wire' = wire \o recs /\ conn' = next
        BY <1>1 DEF Write
    <2>2. LastRecord' = Start(next.epoch)
        BY <2>1, WriteLast DEF LastRecord, TypeOK
    <2>3. LastRecord'.type = "START" /\ LastRecord'.epoch = next.epoch
        BY <2>2 DEF Start
    <2> QED
        BY <2>1, <2>3 DEF PositionOK, Streaming
<1>2. CASE py.link # "up"
    <2>1. conn'.pc = "idle" /\ conn'.epoch = next.epoch
        BY <1>2 DEF Write, Conn
    <2> QED
        BY <1>2, <2>1 DEF PositionOK
<1> QED
    BY <1>1, <1>2

LEMMA ZeroStartsAtKey == \A f : FeedOK(f) => StartsAtKey(f, 0)
    BY DEF FeedOK, StartsAtKey

\* keyframeStart() finds a place where a decoder can start.
LEMMA RewindStartsAtKey ==
    ASSUME NEW f \in Feed, FeedOK(f), NEW seq \in Nat,
           NEW s \in KeyframesUpTo(f, seq)
    PROVE  s \in Nat /\ StartsAtKey(f, s)
<1> DEFINE n == Len(f.backlog)
<1>1. /\ n \in Nat /\ DOMAIN f.backlog = 1..n /\ f.nextSeq \in Nat
      /\ f.backlog \in Seq(Unit)
    BY LenProperties DEF FeedOK, Feed
<1>2. PICK i \in 1..n : f.backlog[i].key /\ f.backlog[i].seq = s
    BY <1>1 DEF KeyframesUpTo
<1>3. \A j \in 1..n : f.backlog[j].seq = f.nextSeq - n + j - 1
    BY DEF FeedOK, Contiguous
<1> HIDE DEF n
<1>4. f.backlog[i] \in Unit
    BY <1>1, <1>2, ElementOfSeq DEF n
<1>5. s \in Nat
    BY <1>2, <1>4 DEF Unit
<1>6. s < f.nextSeq
    BY <1>1, <1>2, <1>3
<1>7. ASSUME NEW j \in 1..n, f.backlog[j].seq = s
      PROVE  j = i
    <2>1. f.nextSeq - n + j - 1 = f.nextSeq - n + i - 1
        BY <1>2, <1>3, <1>7
    <2> QED
        BY <1>1, <2>1
<1> QED
    BY <1>2, <1>5, <1>6, <1>7 DEF StartsAtKey, n

\* After find() returned a unit, or none, the position follows what was written.
LEMMA PositionSend ==
    ASSUME TypeOK, FeedOK(feed), LinkOK, PositionOK, SendFrame
    PROVE  PositionOK'
<1>0. /\ conn \in Conn /\ feed \in Feed /\ wire \in Seq(Record)
      /\ feed.backlog \in Seq(Unit) /\ conn.nextSeq \in Nat
      /\ DOMAIN feed.backlog = 1..Len(feed.backlog)
    BY LenProperties DEF TypeOK, Feed, Conn
<1>1. feed' = feed /\ py' = py /\ conn.pc = "sending"
    BY DEF SendFrame
<1>2. CASE wire' = wire /\ conn' = [conn EXCEPT !.pc = "complete"]
    BY <1>0, <1>1, <1>2 DEF PositionOK, LastRecord, Streaming, Conn
<1>3. CASE Retained(feed, conn.epoch, conn.nextSeq)
    <2>1. PICK i \in 1..Len(feed.backlog) :
             /\ feed.backlog[i].seq = conn.nextSeq
             /\ Write(<<Frame(feed.backlog[i])>>, [conn EXCEPT !.nextSeq = @ + 1])
        BY <1>0, <1>3 DEF SendFrame
    <2> DEFINE r == Frame(feed.backlog[i])
    <2>2. conn.epoch = feed.epoch
        BY <1>3 DEF Retained
    <2>3. feed.backlog[i] \in Unit /\ feed.backlog[i].epoch = feed.epoch
        BY <1>0, ElementOfSeq DEF FeedOK, Contiguous
    <2>4. /\ r \in Record /\ r.type = "FRAME" /\ r.epoch = feed.epoch
          /\ r.seq = conn.nextSeq
        BY <2>1, <2>3, RecordTypes DEF Frame
    <2>5. CASE py.link = "up"
        <3>1. wire' = wire \o <<r>> /\ conn' = [conn EXCEPT !.nextSeq = @ + 1]
            BY <2>1, <2>5 DEF Write
        <3>2. LastRecord' = r
            BY <1>0, <2>4, <3>1, WriteLast DEF LastRecord
        <3> HIDE DEF r
        <3>3. /\ conn'.pc = "sending" /\ conn'.epoch = conn.epoch
              /\ conn'.nextSeq = conn.nextSeq + 1
            BY <1>0, <1>1, <3>1 DEF Conn
        <3>4. conn'.epoch <= feed'.epoch
            BY <1>1, <2>2, <3>3 DEF PositionOK
        <3> QED
            BY <1>1, <2>2, <2>4, <3>2, <3>3, <3>4 DEF PositionOK
    <2>6. CASE py.link # "up"
        <3>1. conn'.pc = "idle" /\ conn'.epoch = conn.epoch
            BY <1>0, <2>1, <2>6 DEF Write, Conn
        <3> QED
            BY <1>1, <2>2, <2>6, <3>1 DEF PositionOK
    <2> QED
        BY <2>5, <2>6
<1> QED
    BY <1>2, <1>3 DEF SendFrame

LEMMA PositionEnd ==
    ASSUME TypeOK, FeedOK(feed), LinkOK, PositionOK, SendEnd
    PROVE  PositionOK'
<1>0. conn \in Conn /\ feed \in Feed /\ wire \in Seq(Record)
    BY DEF TypeOK
<1>1. py' = py /\ conn.pc = "complete"
    BY DEF SendEnd
<1>2. CASE /\ feed' = feed /\ wire' = wire
           /\ conn' = [conn EXCEPT !.pc = "loop"]
    BY <1>0, <1>1, <1>2 DEF PositionOK, LastRecord, Streaming, Conn
<1>3. CASE /\ SourceComplete(feed, conn.epoch, conn.nextSeq)
           /\ feed' = [feed EXCEPT !.endSent = TRUE]
           /\ Write(<<End>>, [conn EXCEPT !.pc = "loop"])
    <2>1. /\ feed'.epoch = feed.epoch /\ feed'.nextSeq = feed.nextSeq
          /\ feed'.sourceEnded = feed.sourceEnded
        BY <1>0, <1>3 DEF Feed
    <2>2. /\ conn.epoch = feed.epoch /\ feed.sourceEnded
          /\ conn.nextSeq >= feed.nextSeq /\ conn.epoch <= feed.epoch
        BY <1>3 DEF SourceComplete, PositionOK
    <2>3. CASE py.link = "up"
        <3>1. wire' = wire \o <<End>> /\ conn' = [conn EXCEPT !.pc = "loop"]
            BY <1>3, <2>3 DEF Write
        <3>2. <<End>> \in Seq(Record) /\ <<End>> # <<>> /\ <<End>>[Len(<<End>>)] = End
            BY RecordTypes
        <3>3. LastRecord' = End
            BY <1>0, <3>1, <3>2, WriteLast DEF LastRecord
        <3>4. LastRecord'.type = "END"
            BY <3>3 DEF End
        <3>5. /\ conn'.pc = "loop" /\ conn'.epoch = conn.epoch
              /\ conn'.nextSeq = conn.nextSeq
            BY <1>0, <3>1 DEF Conn
        <3> QED
            BY <2>1, <2>2, <3>4, <3>5 DEF PositionOK
    <2>4. CASE py.link # "up"
        <3>1. conn'.pc = "idle" /\ conn'.epoch = conn.epoch
            BY <1>0, <1>3, <2>4 DEF Write, Conn
        <3> QED
            BY <2>1, <2>2, <3>1 DEF PositionOK, Streaming
    <2> QED
        BY <2>3, <2>4
<1> QED
    BY <1>2, <1>3 DEF SendEnd

LEMMA PositionServe ==
    ASSUME TypeOK, TypeOK', FeedOK(feed), FeedOK(feed'), Evolves(feed, feed'),
           LinkOK, PositionOK, Serve
    PROVE  PositionOK'
<1>0. /\ conn \in Conn /\ feed \in Feed /\ feed' \in Feed /\ conn' \in Conn
      /\ conn.epoch \in Nat /\ conn.nextSeq \in Nat
      /\ feed.epoch \in Nat /\ feed'.epoch \in Nat
    BY DEF TypeOK, Feed, Conn
<1>1. \A p \in ServeStep :
         /\ [conn EXCEPT !.pc = p] \in Conn
         /\ [conn EXCEPT !.pc = p].pc = p
         /\ [conn EXCEPT !.pc = p].epoch = conn.epoch
         /\ [conn EXCEPT !.pc = p].nextSeq = conn.nextSeq
    BY <1>0 DEF Conn
<1>2. \A p \in ServeStep, e \in Nat : [pc |-> p, epoch |-> e, nextSeq |-> 0] \in Conn
    BY DEF Conn
<1>3. \A e \in Nat :
         /\ <<Start(e)>> \in Seq(Record) /\ <<ResetRec(e), Start(e)>> \in Seq(Record)
         /\ <<Start(e)>> # <<>> /\ <<ResetRec(e), Start(e)>> # <<>>
         /\ <<Start(e)>>[Len(<<Start(e)>>)] = Start(e)
         /\ <<ResetRec(e), Start(e)>>[Len(<<ResetRec(e), Start(e)>>)] = Start(e)
    BY RecordTypes
<1>4. {"idle", "rewind", "noIDR", "start", "loop", "evicted", "sending"} \subseteq ServeStep
    BY DEF ServeStep
<1>5. conn.epoch <= feed.epoch /\ feed.epoch <= feed'.epoch
    BY <1>0 DEF PositionOK, Evolves
<1>6. StartsAtKey(feed', 0)
    BY ZeroStartsAtKey
<1>6a. ASSUME NEW p \in {"loop", "sending"}, py' = py,
              Write(<<ResetRec(feed'.epoch), Start(feed'.epoch)>>,
                    [pc |-> p, epoch |-> feed'.epoch, nextSeq |-> 0])
       PROVE  PositionOK'
    <2> DEFINE recs == <<ResetRec(feed'.epoch), Start(feed'.epoch)>>
               next == [pc |-> p, epoch |-> feed'.epoch, nextSeq |-> 0]
    <2>1. recs \in Seq(Record) /\ recs # <<>> /\ recs[Len(recs)] = Start(feed'.epoch)
        BY <1>0, <1>3
    <2>2. /\ next \in Conn /\ next.epoch = feed'.epoch /\ next.nextSeq = 0
          /\ next.pc \in {"loop", "sending"} /\ next.epoch <= feed'.epoch
        BY <1>0, <1>2, <1>4
    <2>3. Write(recs, next)
        BY <1>6a
    <2> HIDE DEF recs, next
    <2> QED
        BY <1>0, <1>6, <1>6a, <2>1, <2>2, <2>3, PositionStart
<1>7. CASE Accept
    BY <1>0, <1>7 DEF Accept, PositionOK, Streaming
<1>8. CASE \E timeout \in BOOLEAN : ReadBegin(timeout)
    BY <1>0, <1>5, <1>8 DEF ReadBegin, PositionOK, Streaming, Conn
<1>9. CASE Rewind
    <2>1. CASE conn' = [conn EXCEPT !.pc = "noIDR"]
        BY <1>1, <1>4, <1>5, <1>9, <2>1 DEF Rewind, PositionOK, Streaming
    <2>2. CASE /\ conn.epoch = feed.epoch
               /\ \E s \in KeyframesUpTo(feed, conn.nextSeq) :
                     conn' = [conn EXCEPT !.pc = "start", !.nextSeq = s]
        <3>1. PICK s \in KeyframesUpTo(feed, conn.nextSeq) :
                 conn' = [conn EXCEPT !.pc = "start", !.nextSeq = s]
            BY <2>2
        <3>2. StartsAtKey(feed, s)
            BY <1>0, RewindStartsAtKey
        <3>3. conn'.pc = "start" /\ conn'.epoch = conn.epoch /\ conn'.nextSeq = s
            BY <1>0, <3>1 DEF Conn
        <3> QED
            BY <1>5, <1>9, <3>2, <3>3 DEF Rewind, PositionOK, Streaming
    <2> QED
        BY <1>9, <2>1, <2>2 DEF Rewind
<1>10. CASE StartRequiresIDR
    BY <1>0, <1>6, <1>10 DEF StartRequiresIDR, PositionOK, Streaming
<1>11. CASE SendStart
    <2>1. conn.epoch = feed'.epoch => StartsAtKey(feed', conn.nextSeq)
        BY <1>11 DEF SendStart, PositionOK
    <2> QED
        BY <1>0, <1>1, <1>3, <1>4, <1>5, <1>11, <2>1, PositionStart DEF SendStart
<1>12. CASE HandleAck
    BY <1>12, PositionStable DEF HandleAck, LastRecord
<1>13. CASE HandleResync
    BY <1>13, <1>6a DEF HandleResync
<1>14. CASE HandleStop \/ ServeEOF
    <2>1. conn'.pc = "idle" /\ conn'.epoch = conn.epoch
        BY <1>0, <1>14 DEF HandleStop, ServeEOF, Conn
    <2>2. conn'.epoch <= feed'.epoch
        BY <1>0, <1>5, <2>1
    <2> QED
        BY <2>1, <2>2 DEF PositionOK, Streaming
<1>15. CASE Tick
    <2>1. CASE feed.epoch # conn.epoch
        BY <1>15, <1>6a, <2>1 DEF Tick
    <2>2. CASE feed.epoch = conn.epoch
        <3>1. /\ conn'.pc \in {"evicted", "sending"} /\ conn'.epoch = conn.epoch
              /\ conn'.nextSeq = conn.nextSeq /\ conn.pc = "loop"
              /\ feed' = feed /\ wire' = wire /\ py' = py
            <4>1. /\ conn' = [conn EXCEPT !.pc = IF conn.nextSeq < Oldest(feed)
                                                THEN "evicted" ELSE "sending"]
                  /\ conn.pc = "loop" /\ feed' = feed /\ wire' = wire /\ py' = py
                BY <1>15, <2>2 DEF Tick
            <4>2. PICK p \in {"evicted", "sending"} : conn' = [conn EXCEPT !.pc = p]
                BY <4>1
            <4> QED
                BY <1>1, <1>4, <4>1, <4>2
        <3> QED
            BY <3>1 DEF PositionOK, LastRecord, Streaming
    <2> QED
        BY <2>1, <2>2
<1>16. CASE ResumeUnavailable
    BY <1>16, <1>6a DEF ResumeUnavailable
<1> QED
    <2>1. CASE Accept \/ (\E timeout \in BOOLEAN : ReadBegin(timeout)) \/ Rewind
              \/ StartRequiresIDR \/ SendStart
        BY <1>7, <1>8, <1>9, <1>10, <1>11, <2>1
    <2>2. CASE HandleAck \/ HandleResync \/ HandleStop \/ ServeEOF
        BY <1>12, <1>13, <1>14, <2>2
    <2>3. CASE Tick \/ ResumeUnavailable
        BY <1>15, <1>16, <2>3
    <2>4. CASE SendFrame
        BY <2>4, PositionSend
    <2>5. CASE SendEnd
        BY <2>5, PositionEnd
    <2> QED
        BY <2>1, <2>2, <2>3, <2>4, <2>5 DEF Serve

LEMMA PositionStep ==
    ASSUME TypeOK, TypeOK', FeedOK(feed), FeedOK(feed'), Evolves(feed, feed'),
           LinkOK, PositionOK, [Next]_vars
    PROVE  PositionOK'
<1>0. py \in Py /\ wire \in Seq(Record)
    BY DEF TypeOK
<1>1. CASE UNCHANGED <<conn, wire, py>>
    BY <1>1, PositionStable DEF LastRecord
<1>2. CASE Serve
    BY <1>2, PositionServe
<1>3. CASE Connect
    BY <1>3, PositionStable DEF Connect, Streaming
<1>4. CASE Receive
    <2>1. py'.link = "up" => py.link = "up"
        BY <1>0, <1>4 DEF Receive, Py
    <2>2. py'.link = "up" => LastRecord' = LastRecord
        <3>1. SUFFICES ASSUME py'.link = "up" PROVE LastRecord' = LastRecord
            OBVIOUS
        <3>2. wire # <<>> /\ wire' = Tail(wire) /\ py'.rec = Head(wire)
            BY <1>0, <1>4, <3>1 DEF Receive, Py
        <3>3. /\ Len(Tail(wire)) = Len(wire) - 1 /\ Tail(wire) \in Seq(Record)
              /\ \A i \in 1..Len(Tail(wire)) : Tail(wire)[i] = wire[i + 1]
              /\ Len(wire) \in Nat \ {0} /\ Head(wire) = wire[1]
            BY <1>0, <3>2, HeadTailProperties, EmptySeq
        <3>4. CASE Tail(wire) = <<>>
            <4>1. Len(wire) = 1
                BY <3>3, <3>4
            <4> QED
                BY <3>2, <3>3, <3>4, <4>1 DEF LastRecord
        <3>5. CASE Tail(wire) # <<>>
            <4>1. Len(Tail(wire)) \in 1..Len(Tail(wire))
                BY <3>3, <3>5, EmptySeq
            <4>2. Tail(wire)[Len(Tail(wire))] = wire[Len(wire)]
                BY <3>3, <4>1
            <4> QED
                BY <3>2, <3>5, <4>2 DEF LastRecord
        <3> QED
            BY <3>4, <3>5
    <2> QED
        BY <1>4, <2>1, <2>2, PositionStable DEF Receive
<1>5. CASE Drained \/ Disconnect \/ DecodeError \/ PyRestart
    <2>1. py'.link = "down" /\ conn' = conn
        BY <1>0, <1>5 DEF Drained, Disconnect, DecodeError, PyRestart, Py
    <2> QED
        BY <2>1, PositionStable
<1>6. CASE Present \/ ViewerResync
    <2>1. py'.link = py.link /\ py'.rec = py.rec /\ conn' = conn /\ wire' = wire
        BY <1>0, <1>6 DEF Present, ViewerResync, Py
    <2> QED
        BY <2>1, PositionStable DEF LastRecord
<1> QED
    BY <1>1, <1>2, <1>3, <1>4, <1>5, <1>6
       DEF Next, Source, Publish, EndSource, Python, ViewerStop, vars

-----------------------------------------------------------------------------
(* The stream.                                                             *)

\* Records that follow the last one, and one another, may be written.
LEMMA WriteDecodable ==
    ASSUME TypeOK, Decodable, NEW recs \in Seq(Record), recs # <<>>, NEW next,
           Write(recs, next), py' = py,
           py.link = "up" => Follows(LastRecord, recs[1]),
           \A k \in 2..Len(recs) : Follows(recs[k - 1], recs[k])
    PROVE  Decodable'
<1>1. CASE py.link # "up"
    BY <1>1 DEF Write, Decodable
<1>2. CASE py.link = "up"
    <2> DEFINE n == Len(wire)
    <2>1. /\ wire' = wire \o recs /\ wire \in Seq(Record)
          /\ n \in Nat /\ Len(recs) \in Nat \ {0} /\ Len(wire') = n + Len(recs)
          /\ \A i \in 1..(n + Len(recs)) :
                wire'[i] = IF i <= n THEN wire[i] ELSE recs[i - n]
        BY <1>2, EmptySeq, LenProperties, ConcatProperties DEF Write, TypeOK
    <2>2. ASSUME NEW i \in 1..(n + Len(recs))
          PROVE  Follows(IF i = 1 THEN py.rec ELSE wire'[i - 1], wire'[i])
        <3>1. CASE i <= n
            <4>1. i \in 1..n
                BY <2>1, <3>1
            <4>2. wire'[i] = wire[i] /\ (i # 1 => wire'[i - 1] = wire[i - 1])
                BY <2>1, <3>1
            <4> QED
                BY <4>1, <4>2 DEF Decodable
        <3>2. CASE i = n + 1
            <4>1. wire'[i] = recs[1]
                BY <2>1, <3>2
            <4>2. LastRecord = IF i = 1 THEN py.rec ELSE wire'[i - 1]
                <5>1. CASE n = 0
                    <6>1. wire = <<>>
                        BY <2>1, <5>1, EmptySeq
                    <6> QED
                        BY <3>2, <5>1, <6>1 DEF LastRecord
                <5>2. CASE n # 0
                    <6>1. wire # <<>> /\ i # 1 /\ i - 1 = n
                        BY <2>1, <3>2, <5>2, EmptySeq
                    <6>2. wire'[i - 1] = wire[n]
                        BY <2>1, <5>2, <6>1
                    <6> QED
                        BY <6>1, <6>2 DEF LastRecord
                <5> QED
                    BY <5>1, <5>2
            <4> QED
                BY <1>2, <4>1, <4>2
        <3>3. CASE i > n + 1
            <4>1. i - n \in 2..Len(recs) /\ i # 1
                BY <2>1, <3>3
            <4>2. wire'[i] = recs[i - n] /\ wire'[i - 1] = recs[(i - n) - 1]
                BY <2>1, <3>3
            <4> QED
                BY <4>1, <4>2
        <3> QED
            BY <2>1, <3>1, <3>2, <3>3
    <2> QED
        BY <2>1, <2>2 DEF Decodable
<1> QED
    BY <1>1, <1>2

\* RESET may follow anything, and START of the same epoch follows it.
LEMMA ResetDecodable ==
    ASSUME TypeOK, Decodable, NEW e \in Nat, NEW next,
           Write(<<ResetRec(e), Start(e)>>, next), py' = py
    PROVE  Decodable'
<1> DEFINE recs == <<ResetRec(e), Start(e)>>
<1>1. /\ recs \in Seq(Record) /\ recs # <<>> /\ Len(recs) = 2
      /\ recs[1] = ResetRec(e) /\ recs[2] = Start(e)
    BY RecordTypes
<1>2. Follows(LastRecord, ResetRec(e))
    BY DEF Follows, ResetRec
<1>3. Follows(ResetRec(e), Start(e))
    BY DEF Follows, ResetRec, Start
<1>4. \A k \in 2..2 : Follows(recs[k - 1], recs[k])
    BY <1>1, <1>3
<1> HIDE DEF recs
<1> QED
    BY <1>1, <1>2, <1>4, WriteDecodable DEF recs

\* One record.
LEMMA OneDecodable ==
    ASSUME TypeOK, Decodable, NEW r \in Record, NEW next, Write(<<r>>, next),
           py' = py, py.link = "up" => Follows(LastRecord, r)
    PROVE  Decodable'
<1>1. <<r>> \in Seq(Record) /\ <<r>> # <<>> /\ Len(<<r>>) = 1 /\ <<r>>[1] = r
    OBVIOUS
<1>2. \A k \in 2..Len(<<r>>) : Follows(<<r>>[k - 1], <<r>>[k])
    BY <1>1
<1> QED
    BY <1>1, <1>2, WriteDecodable

LEMMA DecodableServe ==
    ASSUME TypeOK, FeedOK(feed), feed' \in Feed, LinkOK, PositionOK, Decodable, Serve
    PROVE  Decodable'
<1>0. /\ feed.epoch \in Nat /\ feed'.epoch \in Nat /\ conn.epoch \in Nat
      /\ feed.backlog \in Seq(Unit) /\ DOMAIN feed.backlog = 1..Len(feed.backlog)
      /\ conn.nextSeq \in Nat /\ py \in Py
    BY LenProperties DEF TypeOK, Feed, Conn
<1>1. CASE wire' = wire /\ py'.rec = py.rec
    BY <1>1 DEF Decodable
<1>2. CASE SendStart
    <2>1. py.link = "up" => LastRecord = NoRecord
        BY <1>2 DEF SendStart, LinkOK, Streaming, LastRecord
    <2>2. Follows(NoRecord, Start(conn.epoch))
        BY DEF Follows, NoRecord, End, Start
    <2> QED
        BY <1>0, <1>2, <2>1, <2>2, OneDecodable, RecordTypes DEF SendStart
<1>3. CASE HandleResync
    BY <1>0, <1>3, ResetDecodable DEF HandleResync
<1>4. CASE Tick
    BY <1>0, <1>1, <1>4, ResetDecodable DEF Tick
<1>5. CASE ResumeUnavailable
    BY <1>0, <1>5, ResetDecodable DEF ResumeUnavailable
<1>6. CASE SendFrame
    <2>1. CASE wire' = wire
        BY <1>1, <1>6, <2>1 DEF SendFrame
    <2>2. CASE Retained(feed, conn.epoch, conn.nextSeq)
        <3>1. PICK i \in 1..Len(feed.backlog) :
                 /\ feed.backlog[i].seq = conn.nextSeq
                 /\ Write(<<Frame(feed.backlog[i])>>, [conn EXCEPT !.nextSeq = @ + 1])
            BY <1>0, <1>6, <2>2 DEF SendFrame
        <3> DEFINE u == feed.backlog[i]
        <3>2. u \in Unit /\ u.epoch = feed.epoch /\ conn.epoch = feed.epoch
            BY <1>0, <2>2, ElementOfSeq DEF FeedOK, Contiguous, Retained
        <3>3. u.seq < feed.nextSeq
            <4>1. u.seq = feed.nextSeq - Len(feed.backlog) + i - 1
                BY DEF FeedOK, Contiguous
            <4>2. feed.nextSeq \in Nat /\ Len(feed.backlog) \in Nat
                BY LenProperties DEF TypeOK, Feed
            <4> QED
                BY <4>1, <4>2
        <3>4. /\ Frame(u) \in Record
              /\ Frame(u).type = "FRAME" /\ Frame(u).epoch = u.epoch
              /\ Frame(u).seq = u.seq /\ Frame(u).key = u.key
            BY <3>2, RecordTypes DEF Frame
        <3>5. py.link = "up" => Follows(LastRecord, Frame(u))
            <4>1. SUFFICES ASSUME py.link = "up" PROVE Follows(LastRecord, Frame(u))
                OBVIOUS
            <4>2. conn.pc \in Streaming
                BY <1>6 DEF SendFrame, Streaming
            <4>3. LastRecord.type # "END"
                <5>1. LastRecord.type = "END" => conn.nextSeq >= feed.nextSeq
                    BY <3>2, <4>1, <4>2 DEF PositionOK
                <5>2. conn.nextSeq < feed.nextSeq
                    BY <3>1, <3>3
                <5>3. conn.nextSeq \in Nat /\ feed.nextSeq \in Nat
                    BY DEF TypeOK, Feed, Conn
                <5> QED
                    BY <5>1, <5>2, <5>3
            <4>4. /\ LastRecord.type \in {"START", "FRAME"}
                  /\ LastRecord.epoch = conn.epoch
                  /\ LastRecord.type = "START" => StartsAtKey(feed, conn.nextSeq)
                  /\ LastRecord.type = "FRAME" => conn.nextSeq = LastRecord.seq + 1
                BY <3>2, <4>1, <4>2, <4>3 DEF PositionOK
            <4>5. LastRecord.type = "START" => u.key
                BY <3>1, <4>4 DEF StartsAtKey
            <4> HIDE DEF u
            <4> QED
                BY <3>1, <3>2, <3>4, <4>4, <4>5 DEF Follows, u
        <3> QED
            BY <1>6, <3>1, <3>4, <3>5, OneDecodable DEF SendFrame
    <2> QED
        BY <1>6, <2>1, <2>2 DEF SendFrame
<1>7. CASE SendEnd
    <2>1. CASE wire' = wire
        BY <1>1, <1>7, <2>1 DEF SendEnd
    <2>2. CASE /\ SourceComplete(feed, conn.epoch, conn.nextSeq)
               /\ Write(<<End>>, [conn EXCEPT !.pc = "loop"])
        <3>1. py.link = "up" => LastRecord.type # "RESET"
            BY <1>7, <2>2 DEF SendEnd, SourceComplete, PositionOK, Streaming
        <3>2. py.link = "up" => Follows(LastRecord, End)
            BY <3>1 DEF Follows, End
        <3> QED
            BY <1>7, <2>2, <3>2, OneDecodable, RecordTypes DEF SendEnd
    <2> QED
        BY <1>7, <2>1, <2>2 DEF SendEnd
<1>8. CASE HandleStop \/ \E timeout \in BOOLEAN : ReadBegin(timeout)
    BY <1>0, <1>1, <1>8 DEF HandleStop, ReadBegin, Py
<1>9. CASE Accept \/ Rewind \/ StartRequiresIDR \/ HandleAck \/ ServeEOF
    BY <1>1, <1>9 DEF Accept, Rewind, StartRequiresIDR, HandleAck, ServeEOF
<1> QED
    BY <1>2, <1>3, <1>4, <1>5, <1>6, <1>7, <1>8, <1>9 DEF Serve

LEMMA DecodableStep ==
    ASSUME TypeOK, FeedOK(feed), feed' \in Feed, LinkOK, PositionOK, Decodable,
           [Next]_vars
    PROVE  Decodable'
<1>0. py \in Py /\ wire \in Seq(Record)
    BY DEF TypeOK
<1>1. CASE wire' = wire /\ py'.rec = py.rec
    BY <1>1 DEF Decodable
<1>2. CASE wire' = <<>>
    BY <1>2 DEF Decodable
<1>3. CASE Serve
    BY <1>3, DecodableServe
<1>4. CASE Receive
    <2>1. CASE wire' = Tail(wire)
        <3>1. wire # <<>> /\ py'.rec = wire[1]
            BY <1>0, <1>4 DEF Receive, Py
        <3>2. /\ Len(wire') = Len(wire) - 1 /\ Len(wire) \in Nat
              /\ \A i \in 1..Len(wire') : wire'[i] = wire[i + 1]
            BY <1>0, <2>1, <3>1, HeadTailProperties, LenProperties
        <3>3. ASSUME NEW i \in 1..Len(wire')
              PROVE  Follows(IF i = 1 THEN py'.rec ELSE wire'[i - 1], wire'[i])
            <4>1. i + 1 \in 1..Len(wire) /\ i + 1 # 1 /\ (i + 1) - 1 = i
                BY <3>2
            <4>2. Follows(wire[i], wire[i + 1])
                BY <4>1 DEF Decodable
            <4>3. CASE i = 1
                BY <3>1, <3>2, <4>2, <4>3
            <4>4. CASE i # 1
                <5>1. i - 1 \in 1..Len(wire') /\ (i - 1) + 1 = i
                    BY <3>2, <4>4
                <5>2. wire'[i - 1] = wire[i]
                    BY <3>2, <5>1
                <5> QED
                    BY <3>2, <4>2, <4>4, <5>2
            <4> QED
                BY <4>3, <4>4
        <3> QED
            BY <3>3 DEF Decodable
    <2> QED
        BY <1>2, <1>4, <2>1 DEF Receive
<1>5. CASE Connect
    <2>1. wire' = <<>>
        BY <1>5 DEF Connect, LinkOK
    <2> QED
        BY <1>2, <2>1
<1>6. CASE Disconnect \/ DecodeError \/ PyRestart
    BY <1>2, <1>6 DEF Disconnect, DecodeError, PyRestart
<1>7. CASE Drained \/ Present \/ ViewerResync \/ ViewerStop
    BY <1>0, <1>1, <1>7 DEF Drained, Present, ViewerResync, ViewerStop, Py
<1> QED
    BY <1>1, <1>3, <1>4, <1>5, <1>6, <1>7
       DEF Next, Source, Publish, EndSource, Python, vars

-----------------------------------------------------------------------------
(* Theorems                                                                *)

LEMMA InitInv == Init => IInv
<1> SUFFICES ASSUME Init PROVE IInv
    OBVIOUS
<1>1. /\ feed.backlog = <<>> /\ Len(feed.backlog) = 0 /\ feed.nextSeq = 0
      /\ feed.seenIDR = FALSE
      /\ wire = <<>> /\ Len(wire) = 0 /\ py.link = "down" /\ conn.pc = "idle"
      /\ conn.epoch = 0 /\ feed.epoch = 1
    BY DEF Init
<1>2. TypeOK
    <2>1. /\ <<>> \in Seq(Unit) /\ <<>> \in Seq(Record) /\ <<>> \in Seq(Command)
          /\ MaxUnits \in Nat /\ MaxFaults \in Nat
        BY EmptySeq, FeedAssumption DEF FeedAssumption
    <2>2. feed \in Feed
        BY <2>1 DEF Init, Feed
    <2>3. conn \in Conn
        BY DEF Init, Conn, ServeStep
    <2>4. py \in Py
        <3>1. NoHello \in [epoch : Nat, last : Int]
            BY DEF NoHello
        <3>2. -1 \in Nat \cup {-1}
            OBVIOUS
        <3> QED
            BY <3>1, <3>2, RecordTypes DEF Init, Py
    <2>5. /\ seen \in [epoch : Nat, seq : Nat]
          /\ used \in [units : 0..MaxUnits, faults : 0..MaxFaults]
        BY <2>1 DEF Init
    <2> QED
        BY <2>1, <2>2, <2>3, <2>4, <2>5 DEF Init, TypeOK
<1>3. FeedOK(feed)
    BY <1>1, <1>2 DEF TypeOK, FeedOK, Contiguous
<1>4. LinkOK
    BY <1>1 DEF LinkOK
<1>5. PositionOK
    BY <1>1 DEF PositionOK
<1>6. Decodable
    BY <1>1 DEF Decodable
<1> QED
    BY <1>2, <1>3, <1>4, <1>5, <1>6 DEF IInv

LEMMA NextInv == IInv /\ [Next]_vars => IInv'
<1> SUFFICES ASSUME IInv, [Next]_vars PROVE IInv'
    OBVIOUS
<1>1. TypeOK /\ FeedOK(feed) /\ LinkOK /\ PositionOK /\ Decodable
    BY DEF IInv
<1>2. feed' \in Feed /\ FeedOK(feed') /\ Evolves(feed, feed')
    BY <1>1, FeedStep
<1>3. TypeOK'
    BY <1>1, TypeStep
<1>4. LinkOK'
    BY <1>1, LinkStep
<1>5. PositionOK'
    BY <1>1, <1>2, <1>3, PositionStep
<1>6. Decodable'
    BY <1>1, <1>2, DecodableStep
<1> QED
    BY <1>2, <1>3, <1>4, <1>5, <1>6 DEF IInv

\* The inductive invariant holds in every reachable state.
THEOREM Invariance == Spec => []IInv
    BY InitInv, NextInv, PTL DEF Spec

\* Every variable of the relay and its client stays in its range: no sequence
\* number, resume point or acknowledgement is ever negative.
THEOREM TypeCorrect == Spec => []TypeOK
<1>1. IInv => TypeOK
    BY DEF IInv
<1> QED
    BY <1>1, Invariance, PTL

\* The backlog is always a run of consecutive units of the current epoch, ending
\* at the newest, under any interleaving of publishing, acknowledging and resets.
THEOREM BacklogAlwaysContiguous == Spec => []BacklogContiguous
<1>1. IInv => BacklogContiguous
    <2> SUFFICES ASSUME IInv PROVE BacklogContiguous
        OBVIOUS
    <2>1. DOMAIN feed.backlog = 1..Len(feed.backlog)
        BY LenProperties DEF IInv, TypeOK, Feed
    <2> QED
        BY <2>1 DEF IInv, FeedOK, Contiguous, BacklogContiguous
<1> QED
    BY <1>1, Invariance, PTL

\* Every unit a connection delivers can be decoded: the first after START is a
\* keyframe, and within the epoch none is left out or repeated.
THEOREM StreamAlwaysDecodable == Spec => []StreamDecodable
<1>1. IInv => StreamDecodable
    <2> SUFFICES ASSUME IInv PROVE StreamDecodable
        OBVIOUS
    <2>1. DOMAIN wire = 1..Len(wire)
        BY LenProperties DEF IInv, TypeOK
    <2> QED
        BY <2>1 DEF IInv, Decodable, StreamDecodable
<1> QED
    BY <1>1, Invariance, PTL
=============================================================================
