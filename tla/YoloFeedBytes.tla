---------------------------- MODULE YoloFeedBytes ----------------------------
(***************************************************************************)
(* Proofs about the byte counter of YoloFeed, for every size and bound.    *)
(*                                                                         *)
(* The counter is kept by adding and subtracting; that it stays the sum of *)
(* the sizes kept is a matter of counting keyframes: those of a longer     *)
(* backlog are those of its two parts, and dropping the front renumbers    *)
(* the rest without changing their kind.                                   *)
(***************************************************************************)
EXTENDS YoloFeedProofs

-----------------------------------------------------------------------------
(* How many bytes n units are.                                             *)

\* The keyframes among the n units of f behind the first c.
KeysAfter(f, c, n) == {i \in (c + 1)..(c + n) : f.backlog[i].key}

\* Of n units, `keys' keyframes.
BytesOf(keys, n) == KeySize * keys + DeltaSize * (n - keys)

LEMMA KeysAfterType ==
    ASSUME NEW f, NEW c \in Nat, NEW n \in Nat
    PROVE  /\ IsFiniteSet(KeysAfter(f, c, n))
           /\ Cardinality(KeysAfter(f, c, n)) \in 0..n
<1>1. IsFiniteSet((c + 1)..(c + n)) /\ Cardinality((c + 1)..(c + n)) = n
    BY FS_Interval
<1>2. KeysAfter(f, c, n) \in SUBSET ((c + 1)..(c + n))
    BY DEF KeysAfter
<1>3. /\ IsFiniteSet(KeysAfter(f, c, n))
      /\ Cardinality(KeysAfter(f, c, n)) <= n
    BY <1>1, <1>2, FS_Subset
<1> QED
    BY <1>3, FS_CardinalityType

LEMMA FrontBytesIs ==
    ASSUME NEW f, NEW n \in Nat
    PROVE  FrontBytes(f, n) = BytesOf(Cardinality(KeysAfter(f, 0, n)), n)
<1> DEFINE keys == {i \in 1..n : f.backlog[i].key}
<1>1. KeysAfter(f, 0, n) = keys
    BY DEF KeysAfter
<1> DEFINE all == 1..n
<1>2. IsFiniteSet(all) /\ Cardinality(all) = n
    BY FS_Interval
<1>3. all \cap keys = keys
    OBVIOUS
<1> HIDE DEF keys, all
<1>4. Cardinality(all \ keys) = Cardinality(all) - Cardinality(all \cap keys)
    BY <1>2, FS_Difference
<1>5. Cardinality(all \ keys) = n - Cardinality(keys)
    BY <1>2, <1>3, <1>4
<1>6. FrontBytes(f, n) = KeySize * Cardinality(keys) + DeltaSize * Cardinality(all \ keys)
    BY DEF FrontBytes, keys, all
<1> QED
    BY <1>1, <1>5, <1>6 DEF BytesOf

\* Counting units together is adding up their bytes.
LEMMA BytesAdd ==
    ASSUME NEW a \in Nat, NEW b \in Nat, NEW m \in Nat, NEW n \in Nat
    PROVE  BytesOf(a + b, m + n) = BytesOf(a, m) + BytesOf(b, n)
<1>1. KeySize \in Nat /\ DeltaSize \in Nat
    BY FeedAssumption DEF FeedAssumption
<1>2. \A k \in Nat : \A x \in Int, y \in Int : k * (x + y) = k * x + k * y
    OBVIOUS
<1>3. KeySize * (a + b) = KeySize * a + KeySize * b
    BY <1>1, <1>2
<1>4. DeltaSize * ((m - a) + (n - b)) = DeltaSize * (m - a) + DeltaSize * (n - b)
    BY <1>1, <1>2
<1>5. (m + n) - (a + b) = (m - a) + (n - b)
    OBVIOUS
<1> DEFINE p == KeySize * a
           q == KeySize * b
           r == DeltaSize * (m - a)
           s == DeltaSize * (n - b)
<1>6. p \in Int /\ q \in Int /\ r \in Int /\ s \in Int
    BY <1>1
<1>7. BytesOf(a + b, m + n) = (p + q) + (r + s)
    BY <1>3, <1>4, <1>5 DEF BytesOf
<1>8. BytesOf(a, m) = p + r /\ BytesOf(b, n) = q + s
    BY DEF BytesOf
<1> HIDE DEF p, q, r, s
<1> QED
    BY <1>6, <1>7, <1>8

\* The keyframes up to a place and those behind it.
LEMMA KeysSplit ==
    ASSUME NEW f, NEW c \in Nat, NEW n \in Nat
    PROVE  Cardinality(KeysAfter(f, 0, c + n)) =
              Cardinality(KeysAfter(f, 0, c)) + Cardinality(KeysAfter(f, c, n))
<1> DEFINE A == KeysAfter(f, 0, c)
           B == KeysAfter(f, c, n)
<1>1. IsFiniteSet(A) /\ IsFiniteSet(B) /\ Cardinality(A) \in Nat /\ Cardinality(B) \in Nat
    BY KeysAfterType
<1> DEFINE C == KeysAfter(f, 0, c + n)
<1>2. A \cap B = {} /\ C = A \cup B
    BY DEF KeysAfter
<1> HIDE DEF A, B, C
<1>3. Cardinality(A \cup B) = Cardinality(A) + Cardinality(B) - Cardinality(A \cap B)
    BY <1>1, FS_Union
<1>4. Cardinality(A \cap B) = 0
    BY <1>2, FS_EmptySet
<1>5. Cardinality(C) = Cardinality(A) + Cardinality(B)
    BY <1>1, <1>2, <1>3, <1>4
<1> QED
    BY <1>5 DEF A, B, C

\* g keeps the n units of f behind the first c.
Keeps(f, g, c, n) == \A i \in 1..n : g.backlog[i] = f.backlog[c + i]

\* Units keep their kind when those before them are dropped.
LEMMA KeysShift ==
    ASSUME NEW f, NEW g, NEW c \in Nat, NEW n \in Nat, Keeps(f, g, c, n)
    PROVE  Cardinality(KeysAfter(g, 0, n)) = Cardinality(KeysAfter(f, c, n))
<1> DEFINE S == KeysAfter(g, 0, n)
           T == KeysAfter(f, c, n)
           shift == [i \in S |-> c + i]
<1>1. \A i \in S : i \in 1..n /\ c + i \in T
    BY DEF KeysAfter, Keeps
<1>2. \A j \in T : j - c \in S /\ c + (j - c) = j
    <2>1. ASSUME NEW j \in T PROVE j - c \in S /\ c + (j - c) = j
        <3>1. j \in (c + 1)..(c + n) /\ f.backlog[j].key
            BY DEF KeysAfter
        <3>2. j - c \in 1..n /\ c + (j - c) = j
            BY <3>1
        <3>3. g.backlog[j - c] = f.backlog[j]
            BY <3>2 DEF Keeps
        <3> QED
            BY <3>1, <3>2, <3>3 DEF KeysAfter
    <2> QED
        BY <2>1
<1>3. \A i \in S : i \in Int
    BY DEF KeysAfter
<1>4. IsFiniteSet(S)
    BY KeysAfterType
<1> HIDE DEF S, T
<1>5. shift \in [S -> T]
    BY <1>1
<1>6. ASSUME NEW x \in S, NEW y \in S, shift[x] = shift[y]
      PROVE  x = y
    <2>1. x \in Int /\ y \in Int /\ c + x = c + y
        BY <1>3, <1>6
    <2> QED
        BY <2>1
<1>7. \A t \in T : \E x \in S : shift[x] = t
    BY <1>2
<1>8. shift \in Bijection(S, T)
    BY <1>5, <1>6, <1>7 DEF Bijection, Injection, Surjection, IsInjective
<1>9. ExistsBijection(S, T)
    BY <1>8 DEF ExistsBijection
<1> QED
    BY <1>4, <1>9, FS_Bijection DEF S, T

-----------------------------------------------------------------------------
(* The methods of Feed.                                                    *)

\* A unit adds its size.
LEMMA BytesRetain ==
    ASSUME NEW f \in Feed, NEW key \in BOOLEAN, f.bytes = FrontBytes(f, Len(f.backlog))
    PROVE  LET g == Retain(f, key) IN g.bytes = FrontBytes(g, Len(g.backlog))
<1> DEFINE g == Retain(f, key)
           n == Len(f.backlog)
           k == IF key THEN 1 ELSE 0
<1>1. /\ Len(g.backlog) = n + 1 /\ n \in Nat
      /\ \A i \in 1..n : g.backlog[i] = f.backlog[i]
      /\ g.backlog[n + 1] = [epoch |-> f.epoch, seq |-> f.nextSeq, key |-> key]
    BY RetainType, LenProperties DEF Feed
<1>2. g.bytes = f.bytes + Size(key)
    BY DEF Retain, Feed
<1>3. g.backlog[n + 1].key = key
    BY <1>1
<1> HIDE DEF g, n
<1>4. KeysAfter(g, 0, n) = KeysAfter(f, 0, n)
    BY <1>1 DEF KeysAfter
<1>5. Cardinality(KeysAfter(g, n, 1)) = k
    <2>1. \A i \in (n + 1)..(n + 1) : i = n + 1
        BY <1>1
    <2>2. n + 1 \in (n + 1)..(n + 1)
        BY <1>1
    <2>3. KeysAfter(g, n, 1) = IF key THEN {n + 1} ELSE {}
        BY <1>3, <2>1, <2>2 DEF KeysAfter
    <2> QED
        BY <2>3, FS_Singleton, FS_EmptySet
<1>6. Cardinality(KeysAfter(g, 0, n + 1)) = Cardinality(KeysAfter(f, 0, n)) + k
    <2>1. Cardinality(KeysAfter(g, 0, n + 1)) =
             Cardinality(KeysAfter(g, 0, n)) + Cardinality(KeysAfter(g, n, 1))
        BY <1>1, KeysSplit
    <2> QED
        BY <1>4, <1>5, <2>1
<1>7. Cardinality(KeysAfter(f, 0, n)) \in Nat
    BY <1>1, KeysAfterType
<1>8. Size(key) = BytesOf(k, 1)
    BY FeedAssumption DEF FeedAssumption, Size, BytesOf
<1>9. FrontBytes(g, n + 1) = BytesOf(Cardinality(KeysAfter(f, 0, n)) + k, n + 1)
    BY <1>1, <1>6, FrontBytesIs
<1>10. f.bytes = BytesOf(Cardinality(KeysAfter(f, 0, n)), n)
    BY <1>1, FrontBytesIs DEF n
<1> HIDE DEF k
<1>11. k \in Nat
    BY DEF k
<1>12. FrontBytes(g, n + 1) = f.bytes + Size(key)
    <2> DEFINE a == Cardinality(KeysAfter(f, 0, n))
    <2> HIDE DEF a
    <2>1. a \in Nat
        BY <1>7 DEF a
    <2>2. BytesOf(a + k, n + 1) = BytesOf(a, n) + BytesOf(k, 1)
        BY <1>1, <1>11, <2>1, BytesAdd
    <2> QED
        BY <1>8, <1>9, <1>10, <2>2 DEF a
<1> QED
    BY <1>1, <1>2, <1>12 DEF g

\* An acknowledgement takes away what the units it drops were counted for.
LEMMA BytesAcknowledge ==
    ASSUME NEW f \in Feed, NEW epoch \in Nat, NEW seq \in Nat, FeedOK(f),
           f.bytes = FrontBytes(f, Len(f.backlog))
    PROVE  LET g == Acknowledge(f, epoch, seq)
           IN  g.bytes = FrontBytes(g, Len(g.backlog))
<1>1. CASE epoch # f.epoch
    BY <1>1 DEF Acknowledge
<1>2. CASE epoch = f.epoch
    <2> DEFINE g == Acknowledge(f, epoch, seq)
               c == Cut(f, seq)
               n == Len(f.backlog) - c
    <2>1. /\ Len(g.backlog) = n
          /\ \A i \in 1..n : g.backlog[i] = f.backlog[c + i]
        BY <1>2, AcknowledgeType
    <2>2. c \in 0..Len(f.backlog) /\ Len(f.backlog) \in Nat
        BY CutType, LenProperties DEF Feed
    <2>3. c \in Nat /\ n \in Nat /\ Len(f.backlog) = c + n
        BY <2>2
    <2>4. g.bytes = f.bytes - FrontBytes(f, c)
        BY <1>2 DEF Acknowledge, Feed
    <2> HIDE DEF g, c, n
    <2> DEFINE a == Cardinality(KeysAfter(f, 0, c))
               b == Cardinality(KeysAfter(f, c, n))
    <2>5. a \in Nat /\ b \in Nat
        BY <2>3, KeysAfterType
    <2>6. Cardinality(KeysAfter(f, 0, c + n)) = a + b
        BY <2>3, KeysSplit
    <2>7. Cardinality(KeysAfter(g, 0, n)) = b
        <3>1. Keeps(f, g, c, n)
            BY <2>1 DEF Keeps
        <3> QED
            BY <2>3, <3>1, KeysShift
    <2>8. FrontBytes(f, c) = BytesOf(a, c)
        BY <2>3, FrontBytesIs
    <2>9. FrontBytes(g, n) = BytesOf(b, n)
        BY <2>3, <2>7, FrontBytesIs
    <2>10. f.bytes = BytesOf(a + b, c + n)
        BY <2>3, <2>6, FrontBytesIs
    <2> HIDE DEF a, b
    <2>11. f.bytes = FrontBytes(f, c) + FrontBytes(g, n)
        BY <2>3, <2>5, <2>8, <2>9, <2>10, BytesAdd
    <2>12. FrontBytes(f, c) \in Int /\ f.bytes \in Int
        BY <2>3, FrontBytesType DEF Feed
    <2>13. FrontBytes(g, n) \in Int
        <3>1. g \in Feed
            BY <1>2, AcknowledgeType DEF g
        <3> QED
            BY <2>3, <3>1, FrontBytesType
    <2> QED
        BY <2>1, <2>4, <2>11, <2>12, <2>13 DEF g
<1> QED
    BY <1>1, <1>2

LEMMA BytesReset ==
    ASSUME NEW f
    PROVE  LET g == ResetLocked(f) IN g.bytes = FrontBytes(g, Len(g.backlog))
<1> DEFINE g == ResetLocked(f)
<1>1. g.bytes = 0 /\ g.backlog = <<>> /\ Len(g.backlog) = 0
    BY DEF ResetLocked
<1> HIDE DEF g
<1>2. KeysAfter(g, 0, 0) = {}
    BY DEF KeysAfter
<1>3. FrontBytes(g, 0) = BytesOf(0, 0)
    BY <1>2, FrontBytesIs, FS_EmptySet
<1>4. BytesOf(0, 0) = 0
    BY FeedAssumption DEF FeedAssumption, BytesOf
<1> QED
    BY <1>1, <1>3, <1>4 DEF g

LEMMA BytesStep ==
    ASSUME IInv, BytesExact, [Next]_vars
    PROVE  BytesExact'
<1> DEFINE Exact(f) == f.bytes = FrontBytes(f, Len(f.backlog))
<1>0. feed \in Feed /\ FeedOK(feed) /\ Exact(feed)
    BY DEF IInv, TypeOK, BytesExact
<1>1. SUFFICES Exact(feed')
    BY DEF BytesExact, FrontBytes
<1>2. \A f : Exact(ResetLocked(f))
    BY BytesReset
<1>3. ASSUME NEW gap \in BOOLEAN
      PROVE  Admit(feed, gap) \in Feed /\ Exact(Admit(feed, gap))
    BY <1>0, <1>2, AdmitOK DEF Admit
<1>4. ASSUME NEW f \in Feed, NEW key \in BOOLEAN, Exact(f)
      PROVE  Exact(FinishAccessUnit(f, key))
    BY <1>2, <1>4, BytesRetain DEF FinishAccessUnit
<1>5. CASE UNCHANGED feed
    BY <1>0, <1>5
<1>6. CASE \/ feed' = [feed EXCEPT !.sourceEnded = TRUE, !.endSent = FALSE]
           \/ feed' = [feed EXCEPT !.endSent = TRUE]
    <2>1. feed'.bytes = feed.bytes /\ feed'.backlog = feed.backlog
        BY <1>0, <1>6 DEF Feed
    <2> QED
        BY <1>0, <2>1 DEF FrontBytes
<1>7. CASE HandleAck
    <2>1. cmds \in Seq(Command) /\ cmds # <<>>
        BY <1>7 DEF HandleAck, TakeCommand, IInv, TypeOK
    <2>2. Head(cmds) \in Command
        BY <2>1, HeadTailProperties
    <2>3. Head(cmds).epoch \in Nat /\ Head(cmds).seq \in Nat
        BY <2>2 DEF Command
    <2> QED
        BY <1>0, <1>7, <2>3, BytesAcknowledge DEF HandleAck
<1>8. ASSUME NEW gap \in BOOLEAN, NEW unit \in {"none", "key", "delta"},
             Publish(gap, unit)
      PROVE  Exact(feed')
    <2>1. (unit = "key") \in BOOLEAN
        OBVIOUS
    <2> HIDE DEF Exact
    <2> QED
        BY <1>3, <1>4, <1>8, <2>1 DEF Publish
<1>9. CASE feed' = ResetLocked(feed)
    BY <1>2, <1>9
<1> HIDE DEF Exact
<1>10. CASE Serve
    BY <1>5, <1>6, <1>7, <1>9, <1>10
       DEF Serve, Accept, ReadBegin, Rewind, StartRequiresIDR, SendStart,
           HandleResync, HandleStop, Tick, ResumeUnavailable, SendFrame, SendEnd,
           ServeEOF
<1>11. CASE Python
    BY <1>5, <1>11 DEF Python, Connect, Receive, Drained, Disconnect, DecodeError,
           PyRestart, Present, ViewerResync, ViewerStop
<1> QED
    BY <1>5, <1>6, <1>8, <1>10, <1>11 DEF Next, Source, EndSource, vars

-----------------------------------------------------------------------------
(* Theorem                                                                 *)

\* The counter that overflowLocked() compares with the limit is the bytes of the
\* units kept, after any mix of publishing, acknowledging and resets.
THEOREM BytesAlwaysExact == Spec => []BytesExact
<1>1. Init => BytesExact
    <2> SUFFICES ASSUME Init PROVE BytesExact
        OBVIOUS
    <2>1. feed.bytes = 0 /\ feed.backlog = <<>> /\ Len(feed.backlog) = 0
        BY DEF Init
    <2>2. KeysAfter(feed, 0, 0) = {}
        BY DEF KeysAfter
    <2>3. FrontBytes(feed, 0) = BytesOf(0, 0)
        BY <2>2, FrontBytesIs, FS_EmptySet
    <2>4. BytesOf(0, 0) = 0
        BY FeedAssumption DEF FeedAssumption, BytesOf
    <2> QED
        BY <2>1, <2>3, <2>4 DEF BytesExact
<1>2. IInv /\ BytesExact /\ [Next]_vars => BytesExact'
    BY BytesStep
<1> QED
    BY <1>1, <1>2, Invariance, PTL DEF Spec

=============================================================================
