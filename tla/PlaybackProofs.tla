--------------------------- MODULE PlaybackProofs ---------------------------
(***************************************************************************)
(* Theorems about Playback, for any number of tabs and connections, any    *)
(* window and any bound.                                                   *)
(*                                                                         *)
(* The inductive invariant PlayInv says who uses a connection (LinksOK),   *)
(* how the messages on it stand to the handler that sends the next one     *)
(* (PositionOK), that nobody is ahead of the epoch (EpochsOK), and that no *)
(* frame is lost on its way to the screen: every frame before one that a   *)
(* tab has painted, acknowledged, decodes, knows, or will read was seen,   *)
(* or is known to the tab, or reaches it first (SeenOK, AcksOK, KnownOK,   *)
(* StreamOK).                                                              *)
(***************************************************************************)
EXTENDS Playback, TLAPS

\* What a browser may read behind message a.
Follows(a, b) ==
    b.type = "frame" =>
        /\ a.type = "epoch" => b.epoch = a.epoch /\ b.seq = 0
        /\ a.type = "frame" => b.epoch = a.epoch /\ b.seq = a.seq + 1

\* Only faults are between places i and j of stream d.
Adjacent(d, i, j) == i < j /\ \A k \in (i + 1)..(j - 1) : d[k].type = "fault"

InOrder(d) == \A i, j \in 1..Len(d) : Adjacent(d, i, j) => Follows(d[i], d[j])

\* Frame r of epoch e may follow message m.
StandsAt(e, r, m) ==
    /\ m.type = "frame" => m.epoch = e /\ m.seq + 1 = r
    /\ m.type = "epoch" => m.epoch = e /\ r = 0

\* Frame r of epoch e may be put on stream d.
Placed(d, e, r) ==
    \A i \in 1..Len(d) : Adjacent(d, i, Len(d) + 1) => StandsAt(e, r, d[i])

\* The number of the next frame handler x puts on its connection.
Reach(x) == IF x.pc = "sending" THEN x.next + 1 ELSE x.next

\* Handlers in their loop.
Active == HandlerStep \ {"free", "accepted", "closing"}

\* Frame n of epoch e needs nobody's attention: the epoch, now ep, is over, or n is in
\* S, the frames of the epoch that were painted or skipped.
Accounted(ep, S, e, n) == e < ep \/ n \in S

\* Messages that move the player to an epoch, and that empty it.
MovesTab(m) == m.type \in {"session", "epoch"}
Empties(m) == m.type \in {"unavailable", "epoch"}

\* When player x has read stream d up to place j, it is in epoch e ...
InEpoch(d, j, x, e) ==
    \/ \E i \in 1..(j - 1) : /\ MovesTab(d[i]) /\ d[i].epoch = e
                             /\ \A k \in (i + 1)..(j - 1) : ~MovesTab(d[k])
    \/ x.epoch = e /\ \A k \in 1..(j - 1) : ~MovesTab(d[k])

\* ... and knows frame n of that epoch.
Knows(d, j, x, e, n) ==
    \/ \E i \in 1..(j - 1) :
          /\ d[i].type = "frame" /\ d[i].epoch = e /\ d[i].seq = n
          /\ \A k \in (i + 1)..(j - 1) : ~Empties(d[k])
    \/ /\ [epoch |-> e, seq |-> n] \in x.known
       /\ \A k \in 1..(j - 1) : ~Empties(d[k])

\* Player x is ready for frame r of epoch e at place j of stream d.
Ready(ep, S, d, j, x, e, r) ==
    /\ InEpoch(d, j, x, e)
    /\ \A n \in 0..(r - 1) : Accounted(ep, S, e, n) \/ Knows(d, j, x, e, n)

\* It is ready for every frame on its way.
AllReady(ep, S, d, x) ==
    \A j \in 1..Len(d) : d[j].type = "frame" => Ready(ep, S, d, j, x, d[j].epoch, d[j].seq)

\* And, on an open connection, for the frame that handler y sends next.
StreamFor(ep, S, d, x, open, y) ==
    /\ AllReady(ep, S, d, x)
    /\ open /\ y.pc \in Active => Ready(ep, S, d, Len(d) + 1, x, y.ref, Reach(y))

\* What player x knows misses nothing, and the decoder has the first of it.
PlayerOK(ep, S, x) ==
    /\ \A f \in x.known : \A n \in 0..(f.seq - 1) :
          Accounted(ep, S, f.epoch, n) \/ [epoch |-> f.epoch, seq |-> n] \in x.known
    /\ x.decoding = None => x.known = {}
    /\ x.decoding # None =>
          /\ x.decoding \in x.known
          /\ \A n \in 0..(x.decoding.seq - 1) : Accounted(ep, S, x.decoding.epoch, n)

Seen == painted \cup skipped

\* A connection of which a tab knows is not used anew, and a handler has its
\* connection until it closes it.
LinksOK ==
    /\ \A s \in Sockets : link[s] \in {"free", "closed"} => h[s].pc = "free"
    /\ \A t \in Tabs : tab[t].sock # NoSocket => link[tab[t].sock] \in {"open", "closed"}
    /\ \A t, u \in Tabs : tab[t].sock = tab[u].sock /\ tab[t].sock # NoSocket => t = u

PositionOK ==
    \A s \in Sockets : link[s] = "open" =>
        /\ h[s].pc = "accepted" => down[s] = <<>>
        /\ h[s].pc \in Active => Placed(down[s], h[s].ref, Reach(h[s]))

\* Nobody is ahead of the epoch, and frames have numbers.
Due(m, epoch) == m.epoch <= epoch /\ (m.type = "frame" => m.seq \in Nat)

EpochsOK ==
    /\ \A s \in Sockets : h[s].ref <= app.epoch
    /\ \A s \in Sockets : \A i \in 1..Len(down[s]) : Due(down[s][i], app.epoch)
    /\ \A t \in Tabs : \A f \in tab[t].known : f.epoch <= app.epoch /\ f.seq \in Nat

SeenOK ==
    /\ painted \subseteq Nat
    /\ \A k \in painted : \A n \in 0..(k - 1) : n \in Seen

\* Acknowledgement m is of an earlier epoch, or of a painted frame.
Honest(ep, S, m) == m.type = "presented" =>
    m.epoch <= ep /\ (m.epoch = ep => m.seq \in S)

AcksOK == \A s \in Sockets : \A i \in 1..Len(up[s]) : Honest(app.epoch, painted, up[s][i])

KnownOK == \A t \in Tabs : PlayerOK(app.epoch, Seen, tab[t])

StreamOK ==
    \A t \in Tabs : tab[t].sock # NoSocket =>
        StreamFor(app.epoch, Seen, down[tab[t].sock], tab[t], link[tab[t].sock] = "open",
                  h[tab[t].sock])

PlayInv == /\ TypeOK /\ LinksOK /\ SlotHasOwner /\ StreamInOrder /\ PositionOK
           /\ EpochsOK /\ SeenOK /\ AcksOK /\ KnownOK /\ StreamOK

-----------------------------------------------------------------------------
(* Streams                                                                 *)

\* What was accounted for stays so: the epoch ended, or more frames were seen.
Grows(ep, S, ep2, S2) == ep < ep2 \/ (ep = ep2 /\ S \subseteq S2)

LEMMA AccountedGrows ==
    ASSUME NEW ep \in Nat, NEW S, NEW ep2 \in Nat, NEW S2, Grows(ep, S, ep2, S2),
           NEW e \in Nat, e <= ep, NEW n, Accounted(ep, S, e, n)
    PROVE  Accounted(ep2, S2, e, n)
<1>1. CASE ep < ep2
    <2>1. e < ep2
        BY <1>1
    <2> QED
        BY <2>1 DEF Accounted
<1>2. CASE ep = ep2 /\ S \subseteq S2
    BY <1>2 DEF Accounted
<1> QED
    BY <1>1, <1>2 DEF Grows

\* Player y has what player x had, but for what is accounted for.
StillHas(x, ep2, S2, y) ==
    /\ y.epoch = x.epoch
    /\ \A f \in x.known : f \in y.known \/ Accounted(ep2, S2, f.epoch, f.seq)

LEMMA ReadyGrows ==
    ASSUME NEW ep \in Nat, NEW S, NEW ep2 \in Nat, NEW S2, Grows(ep, S, ep2, S2),
           NEW d, NEW j, NEW x, NEW y, StillHas(x, ep2, S2, y),
           NEW e \in Nat, e <= ep, NEW r, Ready(ep, S, d, j, x, e, r)
    PROVE  Ready(ep2, S2, d, j, y, e, r)
<1>1. InEpoch(d, j, y, e)
    BY DEF Ready, InEpoch, StillHas
<1>2. ASSUME NEW n \in 0..(r - 1)
      PROVE  Accounted(ep2, S2, e, n) \/ Knows(d, j, y, e, n)
    <2>1. CASE Accounted(ep, S, e, n)
        BY <2>1, AccountedGrows
    <2>2. CASE Knows(d, j, x, e, n)
        <3> DEFINE f == [epoch |-> e, seq |-> n]
        <3>1. f.epoch = e /\ f.seq = n
            OBVIOUS
        <3>2. CASE f \in x.known
            <4>1. f \in y.known \/ Accounted(ep2, S2, e, n)
                BY <3>1, <3>2 DEF StillHas
            <4> QED
                BY <2>2, <4>1 DEF Knows
        <3>3. CASE f \notin x.known
            BY <2>2, <3>3 DEF Knows
        <3> QED
            BY <3>2, <3>3
    <2> QED
        BY <1>2, <2>1, <2>2 DEF Ready
<1> QED
    BY <1>1, <1>2 DEF Ready

\* Only the messages before place j matter there.
LEMMA ReadyPrefix ==
    ASSUME NEW ep, NEW S, NEW d, NEW c, NEW j \in Nat, NEW x, NEW e, NEW r,
           \A i \in 1..(j - 1) : c[i] = d[i], Ready(ep, S, d, j, x, e, r)
    PROVE  Ready(ep, S, c, j, x, e, r)
<1>1. \A i \in 1..(j - 1) : \A k \in (i + 1)..(j - 1) : k \in 1..(j - 1)
    OBVIOUS
<1>2. InEpoch(c, j, x, e)
    BY <1>1 DEF Ready, InEpoch
<1>3. \A n : Knows(d, j, x, e, n) => Knows(c, j, x, e, n)
    BY <1>1 DEF Knows
<1> QED
    BY <1>2, <1>3 DEF Ready

\* Behind message m at place j: a frame is known, the epoch is entered, and a fault
\* changes nothing.
LEMMA ReadyPast ==
    ASSUME NEW ep, NEW S, NEW d, NEW j \in Nat \ {0}, NEW x, NEW e, NEW r \in Nat,
           Ready(ep, S, d, j, x, e, r), d[j].type \in {"frame", "fault"},
           NEW q \in Nat, q = r \/ (d[j].type = "frame" /\ d[j].epoch = e
                                    /\ d[j].seq = r /\ q = r + 1)
    PROVE  Ready(ep, S, d, j + 1, x, e, q)
<1>1. /\ \A k : k \in 1..j <=> k \in 1..(j - 1) \/ k = j
      /\ \A i \in 1..(j - 1) : \A k : k \in (i + 1)..j <=> k \in (i + 1)..(j - 1) \/ k = j
      /\ j + 1 - 1 = j
    OBVIOUS
<1>2. ~MovesTab(d[j]) /\ ~Empties(d[j])
    BY DEF MovesTab, Empties
<1>3. InEpoch(d, j + 1, x, e)
    BY <1>1, <1>2 DEF Ready, InEpoch
<1>4. \A n : Knows(d, j, x, e, n) => Knows(d, j + 1, x, e, n)
    BY <1>1, <1>2 DEF Knows
<1>5. q = r + 1 /\ q # r => Knows(d, j + 1, x, e, r)
    <2>1. \A k \in (j + 1)..j : FALSE
        OBVIOUS
    <2> QED
        BY <1>1, <2>1 DEF Knows
<1>6. \A n \in 0..(q - 1) : n \in 0..(r - 1) \/ (n = r /\ q = r + 1 /\ q # r)
    OBVIOUS
<1>7. \A n \in 0..(q - 1) : Accounted(ep, S, e, n) \/ Knows(d, j + 1, x, e, n)
    BY <1>4, <1>5, <1>6 DEF Ready
<1> QED
    BY <1>3, <1>7 DEF Ready

LEMMA ReadyAnew ==
    ASSUME NEW ep, NEW S, NEW d, NEW j \in Nat \ {0}, NEW x, NEW e,
           d[j].type = "epoch", d[j].epoch = e
    PROVE  Ready(ep, S, d, j + 1, x, e, 0)
<1>1. (\A k \in (j + 1)..j : FALSE) /\ j + 1 - 1 = j /\ j \in 1..j
    OBVIOUS
<1>2. MovesTab(d[j])
    BY DEF MovesTab
<1>3. InEpoch(d, j + 1, x, e)
    BY <1>1, <1>2 DEF InEpoch
<1>4. \A n \in 0..(0 - 1) : FALSE
    OBVIOUS
<1> QED
    BY <1>3, <1>4 DEF Ready

\* Player y is x after message m.
Took(x, m, y) ==
    /\ y.epoch = IF MovesTab(m) THEN m.epoch ELSE x.epoch
    /\ ~Empties(m) => x.known \subseteq y.known
    /\ m.type = "frame" => [epoch |-> m.epoch, seq |-> m.seq] \in y.known

LEMMA ReadyTail ==
    ASSUME NEW ep, NEW S, NEW d, NEW c, NEW j \in Nat \ {0}, NEW x, NEW y, NEW e, NEW r,
           \A i \in 1..(j - 1) : c[i] = d[i + 1], Took(x, d[1], y),
           Ready(ep, S, d, j + 1, x, e, r)
    PROVE  Ready(ep, S, c, j, y, e, r)
<1>1. /\ \A k \in 1..(j - 1) : k + 1 \in 1..j /\ c[k] = d[k + 1]
      /\ \A i \in 1..(j - 1) : \A k \in (i + 1)..(j - 1) :
            k + 1 \in (i + 1 + 1)..j /\ k + 1 \in (1 + 1)..j /\ k \in 1..(j - 1)
      /\ \A k \in 1..(j - 1) : k + 1 \in (1 + 1)..j
      /\ \A i \in 1..j : i # 1 => i - 1 \in 1..(j - 1) /\ i - 1 + 1 = i
      /\ 1 \in 1..j /\ j + 1 - 1 = j
    OBVIOUS
<1>2. InEpoch(c, j, y, e)
    <2>1. ASSUME NEW i \in 1..j, MovesTab(d[i]), d[i].epoch = e,
                 \A k \in (i + 1)..j : ~MovesTab(d[k])
          PROVE  InEpoch(c, j, y, e)
        <3>1. CASE i = 1
            <4>1. y.epoch = e
                BY <2>1, <3>1 DEF Took
            <4>2. \A k \in 1..(j - 1) : ~MovesTab(c[k])
                BY <1>1, <2>1, <3>1
            <4> QED
                BY <4>1, <4>2 DEF InEpoch
        <3>2. CASE i # 1
            <4>1. PICK p \in 1..(j - 1) : i = p + 1
                BY <1>1, <3>2
            <4>2. c[p] = d[i] /\ \A k \in (p + 1)..(j - 1) : ~MovesTab(c[k])
                BY <1>1, <2>1, <4>1
            <4> QED
                BY <2>1, <4>1, <4>2 DEF InEpoch
        <3> QED
            BY <3>1, <3>2
    <2>2. ASSUME x.epoch = e, \A k \in 1..j : ~MovesTab(d[k])
          PROVE  InEpoch(c, j, y, e)
        <3>1. y.epoch = e
            BY <1>1, <2>2 DEF Took
        <3>2. \A k \in 1..(j - 1) : ~MovesTab(c[k])
            BY <1>1, <2>2
        <3> QED
            BY <3>1, <3>2 DEF InEpoch
    <2> QED
        BY <1>1, <2>1, <2>2 DEF Ready, InEpoch
<1>3. ASSUME NEW n, Knows(d, j + 1, x, e, n)
      PROVE  Knows(c, j, y, e, n)
    <2> DEFINE f == [epoch |-> e, seq |-> n]
    <2>1. ASSUME NEW i \in 1..j, d[i].type = "frame", d[i].epoch = e, d[i].seq = n,
                 \A k \in (i + 1)..j : ~Empties(d[k])
          PROVE  Knows(c, j, y, e, n)
        <3>1. CASE i = 1
            <4>1. f \in y.known
                BY <2>1, <3>1 DEF Took
            <4>2. \A k \in 1..(j - 1) : ~Empties(c[k])
                BY <1>1, <2>1, <3>1
            <4> QED
                BY <4>1, <4>2 DEF Knows
        <3>2. CASE i # 1
            <4>1. PICK p \in 1..(j - 1) : i = p + 1
                BY <1>1, <3>2
            <4>2. c[p] = d[i] /\ \A k \in (p + 1)..(j - 1) : ~Empties(c[k])
                BY <1>1, <2>1, <4>1
            <4> QED
                BY <2>1, <4>1, <4>2 DEF Knows
        <3> QED
            BY <3>1, <3>2
    <2>2. ASSUME f \in x.known, \A k \in 1..j : ~Empties(d[k])
          PROVE  Knows(c, j, y, e, n)
        <3>1. f \in y.known
            BY <1>1, <2>2 DEF Took
        <3>2. \A k \in 1..(j - 1) : ~Empties(c[k])
            BY <1>1, <2>2
        <3> QED
            BY <3>1, <3>2 DEF Knows
    <2> QED
        BY <1>1, <1>3, <2>1, <2>2 DEF Knows
<1> QED
    BY <1>2, <1>3 DEF Ready

\* Message n puts frame r of epoch e on the stream, or moves it, and handler y goes on
\* from there.
Says(e, r, n, y) ==
    \/ n.type = "frame" /\ n.epoch = e /\ n.seq = r /\ y.ref = e /\ Reach(y) = r + 1
    \/ n.type = "epoch" /\ y.ref = n.epoch /\ Reach(y) = 0
    \/ n.type = "fault" /\ y.ref = e /\ Reach(y) = r

LEMMA AppendIs ==
    ASSUME NEW d \in Seq(Message), NEW n \in Message
    PROVE  /\ Append(d, n) \in Seq(Message) /\ Len(d) \in Nat
           /\ Len(Append(d, n)) = Len(d) + 1
           /\ \A i \in 1..Len(d) : Append(d, n)[i] = d[i]
           /\ Append(d, n)[Len(d) + 1] = n
    OBVIOUS

LEMMA StreamSaid ==
    ASSUME NEW ep, NEW S, NEW d \in Seq(Message), NEW n \in Message, NEW x,
           NEW e, NEW r \in Nat, NEW y, AllReady(ep, S, d, x),
           Ready(ep, S, d, Len(d) + 1, x, e, r), Says(e, r, n, y)
    PROVE  StreamFor(ep, S, Append(d, n), x, TRUE, y)
<1> DEFINE c == Append(d, n)
           l == Len(d) + 1
<1>1. /\ Len(d) \in Nat /\ l \in Nat \ {0} /\ Len(c) = l /\ c[l] = n
      /\ \A i \in 1..Len(d) : c[i] = d[i]
      /\ \A i \in 1..l : i \in 1..Len(d) \/ i = l
      /\ \A i \in 1..l : i \in Nat /\ \A k \in 1..(i - 1) : k \in 1..Len(d)
    BY AppendIs
<1> HIDE DEF c, l
<1>2. ASSUME NEW i \in 1..l, NEW e1, NEW r1, Ready(ep, S, d, i, x, e1, r1)
      PROVE  Ready(ep, S, c, i, x, e1, r1)
    BY <1>1, <1>2, ReadyPrefix
<1>3. Ready(ep, S, c, l, x, e, r)
    BY <1>1, <1>2 DEF l
<1>4. AllReady(ep, S, c, x)
    <2>1. SUFFICES ASSUME NEW i \in 1..l, c[i].type = "frame"
                   PROVE  Ready(ep, S, c, i, x, c[i].epoch, c[i].seq)
        BY <1>1 DEF AllReady
    <2>2. CASE i \in 1..Len(d)
        BY <1>1, <1>2, <2>1, <2>2 DEF AllReady
    <2>3. CASE i = l
        BY <1>1, <1>3, <2>1, <2>3 DEF Says
    <2> QED
        BY <1>1, <2>2, <2>3
<1>5. Ready(ep, S, c, l + 1, x, y.ref, Reach(y))
    <2>1. CASE n.type = "frame" /\ n.epoch = e /\ n.seq = r /\ y.ref = e /\ Reach(y) = r + 1
        <3>1. r + 1 \in Nat
            OBVIOUS
        <3> QED
            BY <1>1, <1>3, <2>1, <3>1, ReadyPast
    <2>2. CASE n.type = "epoch" /\ y.ref = n.epoch /\ Reach(y) = 0
        BY <1>1, <2>2, ReadyAnew
    <2>3. CASE n.type = "fault" /\ y.ref = e /\ Reach(y) = r
        BY <1>1, <1>3, <2>3, ReadyPast
    <2> QED
        BY <2>1, <2>2, <2>3 DEF Says
<1> QED
    BY <1>1, <1>4, <1>5 DEF StreamFor, c

\* The order of a stream, and the place of the next frame on it.
LEMMA OrderSaid ==
    ASSUME NEW d \in Seq(Message), NEW n \in Message, NEW e, NEW r \in Nat, NEW y,
           InOrder(d), Placed(d, e, r), Says(e, r, n, y)
    PROVE  InOrder(Append(d, n)) /\ Placed(Append(d, n), y.ref, Reach(y))
<1> DEFINE c == Append(d, n)
           l == Len(d) + 1
<1>1. /\ Len(d) \in Nat /\ l \in Nat \ {0} /\ Len(c) = l /\ c[l] = n
      /\ \A i \in 1..Len(d) : c[i] = d[i] /\ i \in 1..l /\ i < l
      /\ \A i \in 1..l : i \in 1..Len(d) \/ i = l
      /\ \A i \in 1..l, j \in 1..l : \A k \in (i + 1)..(j - 1) : k \in 1..Len(d)
      /\ \A i \in 1..Len(d) : \A k \in (i + 1)..l : k \in 1..Len(d) \/ k = l
      /\ l + 1 - 1 = l /\ l - 1 = Len(d) /\ l = Len(d) + 1
    BY AppendIs
<1> HIDE DEF c, l
<1>2. ASSUME NEW i \in 1..Len(d), NEW j \in 1..l, Adjacent(c, i, j)
      PROVE  Adjacent(d, i, j)
    BY <1>1, <1>2 DEF Adjacent
<1>3. InOrder(c)
    <2>1. SUFFICES ASSUME NEW i \in 1..l, NEW j \in 1..l, Adjacent(c, i, j)
                   PROVE  Follows(c[i], c[j])
        BY <1>1 DEF InOrder
    <2>2. i \in 1..Len(d)
        <3>1. i < j
            BY <2>1 DEF Adjacent
        <3> QED
            BY <1>1, <3>1
    <2>3. Adjacent(d, i, j)
        BY <1>2, <2>1, <2>2
    <2>4. CASE j \in 1..Len(d)
        BY <1>1, <2>2, <2>3, <2>4 DEF InOrder
    <2>5. CASE j = l
        <3>1. StandsAt(e, r, d[i])
            BY <1>1, <2>2, <2>3, <2>5 DEF Placed
        <3>2. d[i] \in Message
            BY <2>2
        <3>3. Follows(d[i], n)
            BY <3>1, <3>2 DEF StandsAt, Says, Follows, Message
        <3> QED
            BY <1>1, <2>2, <2>5, <3>3
    <2> QED
        BY <1>1, <2>1, <2>4, <2>5
<1>4. Placed(c, y.ref, Reach(y))
    <2>1. SUFFICES ASSUME NEW i \in 1..l, Adjacent(c, i, l + 1)
                   PROVE  StandsAt(y.ref, Reach(y), c[i])
        BY <1>1 DEF Placed
    <2>2. CASE i = l
        BY <1>1, <2>2 DEF StandsAt, Says
    <2>3. CASE i \in 1..Len(d)
        <3>1. l \in (i + 1)..(l + 1 - 1)
            BY <1>1, <2>3
        <3>2. n.type = "fault"
            BY <1>1, <2>1, <3>1 DEF Adjacent
        <3>3. \A k \in (i + 1)..(l - 1) : k \in (i + 1)..(l + 1 - 1)
            BY <1>1
        <3>4. Adjacent(c, i, l)
            BY <1>1, <2>1, <2>3, <3>3 DEF Adjacent
        <3>5. StandsAt(e, r, d[i])
            BY <1>1, <1>2, <2>3, <3>4 DEF Placed
        <3> QED
            BY <1>1, <2>3, <3>2, <3>5 DEF Says
    <2> QED
        BY <1>1, <2>2, <2>3
<1> QED
    BY <1>3, <1>4 DEF c

LEMMA TailType ==
    ASSUME NEW S, NEW q \in Seq(S), q # <<>>
    PROVE  /\ Tail(q) \in Seq(S) /\ Head(q) \in S
           /\ Len(Tail(q)) = Len(q) - 1 /\ Len(q) \in Nat \ {0} /\ Head(q) = q[1]
           /\ 1 \in 1..Len(q)
           /\ \A i \in 1..(Len(q) - 1) : Tail(q)[i] = q[i + 1]
    OBVIOUS

LEMMA OrderTail ==
    ASSUME NEW d \in Seq(Message), d # <<>>, InOrder(d)
    PROVE  /\ InOrder(Tail(d))
           /\ \A e, r : Placed(d, e, r) => Placed(Tail(d), e, r)
<1> DEFINE c == Tail(d)
<1>1. /\ Len(d) \in Nat /\ Len(c) = Len(d) - 1
      /\ \A i \in 1..(Len(d) - 1) : c[i] = d[i + 1]
    BY TailType
<1> HIDE DEF c
<1>2. ASSUME NEW i \in 1..Len(c), NEW j \in 1..(Len(c) + 1), Adjacent(c, i, j)
      PROVE  Adjacent(d, i + 1, j + 1)
    <2>1. i + 1 < j + 1
        BY <1>2 DEF Adjacent
    <2>2. ASSUME NEW k \in (i + 1 + 1)..(j + 1 - 1)
          PROVE  d[k].type = "fault"
        <3>1. k - 1 \in (i + 1)..(j - 1) /\ k - 1 \in 1..(Len(d) - 1) /\ k - 1 + 1 = k
            BY <1>1, <2>2
        <3>2. c[k - 1].type = "fault"
            BY <1>2, <3>1 DEF Adjacent
        <3> QED
            BY <1>1, <3>1, <3>2
    <2> QED
        BY <2>1, <2>2 DEF Adjacent
<1>3. /\ \A i \in 1..Len(c) : c[i] = d[i + 1] /\ i + 1 \in 1..Len(d)
      /\ \A i \in 1..Len(c) : i \in 1..(Len(c) + 1)
      /\ Len(c) + 1 \in 1..(Len(c) + 1) /\ Len(c) + 1 + 1 = Len(d) + 1
    BY <1>1
<1>4. InOrder(c)
    BY <1>2, <1>3 DEF InOrder
<1>5. \A e, r : Placed(d, e, r) => Placed(c, e, r)
    BY <1>2, <1>3 DEF Placed
<1> QED
    BY <1>4, <1>5 DEF c

\* Neither frames nor epochs are on the stream yet.
LEMMA OrderQuiet ==
    ASSUME NEW d, \A i \in 1..Len(d) : d[i].type \notin {"frame", "epoch"}
    PROVE  InOrder(d) /\ \A e, r : Placed(d, e, r)
    BY DEF InOrder, Placed, Follows, StandsAt

LEMMA EmptyStream ==
    /\ <<>> \in Seq(Message) /\ <<>> \in Seq(Control) /\ Len(<<>>) = 0
    /\ InOrder(<<>>) /\ \A e, r : Placed(<<>>, e, r)
<1>1. Len(<<>>) = 0 /\ \A i \in 1..0 : FALSE
    OBVIOUS
<1>2. \A i \in 1..Len(<<>>) : <<>>[i].type \notin {"frame", "epoch"}
    BY <1>1
<1>3. <<>> \in Seq(Message) /\ <<>> \in Seq(Control)
    OBVIOUS
<1> QED
    BY <1>1, <1>2, <1>3, OrderQuiet

LEMMA StreamIsInOrder == StreamInOrder <=> \A s \in Sockets : InOrder(down[s])
    BY DEF StreamInOrder, InOrder, Follows, Adjacent

LEMMA StreamIsInOrderNext == StreamInOrder' <=> \A s \in Sockets : InOrder(down'[s])
    BY DEF StreamInOrder, InOrder, Follows, Adjacent

-----------------------------------------------------------------------------
(* Handlers                                                                *)

LEMMA HandlerFields ==
    ASSUME NEW x \in Handler
    PROVE  /\ x.pc \in HandlerStep /\ x.ref \in Nat /\ x.next \in Nat
           /\ x.sent \in SUBSET Frames
           /\ x.new \in BOOLEAN /\ x.stale \in BOOLEAN /\ x.woken \in BOOLEAN
           /\ x.reading \in BOOLEAN /\ x.warned \in BOOLEAN
    BY DEF Handler

LEMMA AppFields ==
    ASSUME NEW a \in App
    PROVE  /\ a.epoch \in Nat /\ a.store \in SUBSET Nat /\ a.viewer \in BOOLEAN
           /\ a.last \in Frames /\ a.fault \in Nat \cup {-1} /\ a.done \in SUBSET Nat
    BY DEF App

LEMMA MsgType ==
    ASSUME NEW type \in {"session", "unavailable", "epoch", "fault", "frame"},
           NEW epoch \in Nat, NEW seq \in Nat \cup {-1}
    PROVE  /\ Msg(type, epoch, seq) \in Message
           /\ Msg(type, epoch, seq).type = type /\ Msg(type, epoch, seq).epoch = epoch
           /\ Msg(type, epoch, seq).seq = seq
    BY DEF Msg, Message

\* The handlers hs stand where the handlers old do: tasks that notify them, or
\* clear results, move none of them.
SamePlaces(old, hs) ==
    /\ hs \in [Sockets -> Handler]
    /\ \A s \in Sockets : /\ hs[s].pc = old[s].pc /\ hs[s].ref = old[s].ref
                          /\ hs[s].next = old[s].next

LEMMA NotifyAllSame ==
    ASSUME NEW hs \in [Sockets -> Handler]
    PROVE  SamePlaces(hs, NotifyAll(hs))
<1>1. \A s \in Sockets : [hs[s] EXCEPT !.woken = @ \/ hs[s].pc \in Waiting] \in Handler
    BY DEF Handler
<1> QED
    BY <1>1, HandlerFields DEF NotifyAll, SamePlaces, Handler

LEMMA ResyncedSame ==
    ASSUME NEW hs \in [Sockets -> Handler]
    PROVE  SamePlaces(hs, Resynced(hs))
<1> DEFINE ns == NotifyAll(hs)
<1>1. SamePlaces(hs, ns)
    BY NotifyAllSame
<1> HIDE DEF ns
<1>2. ns \in [Sockets -> Handler]
    BY <1>1 DEF SamePlaces
<1> DEFINE stale(s) == hs[s].pc \in Waiting \cup {"moving", "sending", "warn"}
           rs == [s \in Sockets |-> [ns[s] EXCEPT !.stale = stale(s)]]
<1>3. \A s \in Sockets : stale(s) \in BOOLEAN
    OBVIOUS
<1> HIDE DEF stale
<1>4. \A s \in Sockets : [ns[s] EXCEPT !.stale = stale(s)] \in Handler
    BY <1>2, <1>3 DEF Handler
<1>5. SamePlaces(hs, rs)
    BY <1>1, <1>2, <1>4 DEF SamePlaces, Handler
<1> QED
    BY <1>5 DEF Resynced, ns, rs, stale

LEMMA ClearedType ==
    ASSUME NEW a \in App
    PROVE  /\ Cleared(a) \in App
           /\ Cleared(a).epoch = a.epoch /\ Cleared(a).viewer = a.viewer
    BY DEF Cleared, App, None, Frames

LEMMA AcknowledgeType ==
    ASSUME NEW a \in App, NEW epoch \in Nat, NEW seq \in Nat \cup {-1}
    PROVE  /\ Acknowledge(a, epoch, seq) \in App
           /\ Acknowledge(a, epoch, seq).epoch = a.epoch
           /\ Acknowledge(a, epoch, seq).viewer = a.viewer
           /\ \A n \in a.store \ Acknowledge(a, epoch, seq).store :
                  epoch = a.epoch /\ n <= seq /\ n \in Nat /\ seq \in Nat
<1> DEFINE store == {n \in a.store : n > seq}
           last == IF a.last.epoch = epoch /\ a.last.seq > seq THEN a.last
                   ELSE [epoch |-> epoch, seq |-> seq]
           b == [a EXCEPT !.store = store, !.last = last]
<1>1. store \in SUBSET Nat /\ \A n \in a.store \ store : n \in Nat /\ n <= seq /\ seq \in Nat
    BY AppFields
<1>2. last \in Frames
    BY AppFields DEF Frames
<1>3. Acknowledge(a, epoch, seq) = IF epoch # a.epoch THEN a ELSE b
    BY DEF Acknowledge, App
<1> HIDE DEF store, last
<1>4. b \in App /\ b.epoch = a.epoch /\ b.viewer = a.viewer /\ b.store = store
    BY <1>1, <1>2 DEF App
<1> QED
    BY <1>1, <1>3, <1>4

-----------------------------------------------------------------------------
(* What a handler does between two awaits                                  *)

\* A handler whose next frame is r of epoch e, and which looked at AppState a, goes on
\* without a message, or with one that its stream may have there.
Advances(a, e, r, o) ==
    /\ o.x \in Handler /\ o.x.pc \notin {"free", "accepted"}
    /\ o.x.ref <= a.epoch
    /\ \/ /\ o.say = <<>>
          /\ o.x.pc \in Active => o.x.ref = e /\ Reach(o.x) = r
       \/ \E n \in Message : o.say = <<n>> /\ Due(n, a.epoch) /\ Says(e, r, n, o.x)

LEMMA LeavingType ==
    Leaving \in Handler /\ Leaving.pc = "closing" /\ Leaving.ref = 0
    BY DEF Leaving, FreeHandler, Handler, HandlerStep

LEMMA LookAdvances ==
    ASSUME NEW a \in App, NEW x \in Handler, x.ref <= a.epoch
    PROVE  Advances(a, x.ref, x.next, Look(a, x))
<1> USE HandlerFields, AppFields
<1>1. CASE ~a.viewer
    <2>1. Look(a, x) = [x |-> Leaving, say |-> <<>>]
        BY <1>1 DEF Look
    <2>2. Leaving.pc \notin Active /\ Leaving.ref <= a.epoch
        BY LeavingType DEF Active
    <2> QED
        BY <2>1, <2>2, LeavingType DEF Advances
<1>2. CASE a.viewer /\ a.epoch = x.ref /\ x.next \in a.store
    <2> DEFINE y == [x EXCEPT !.pc = "sending"]
               n == Msg("frame", x.ref, x.next)
    <2>1. Look(a, x) = [x |-> y, say |-> <<n>>]
        BY <1>2 DEF Look
    <2>2. y \in Handler /\ y.pc = "sending" /\ y.ref = x.ref /\ y.next = x.next
        BY DEF Handler, HandlerStep
    <2>3. n \in Message /\ n.type = "frame" /\ n.epoch = x.ref /\ n.seq = x.next
        BY MsgType
    <2> HIDE DEF y, n
    <2>4. Says(x.ref, x.next, n, y) /\ Due(n, a.epoch)
        BY <2>2, <2>3 DEF Says, Reach, Due
    <2> QED
        BY <2>1, <2>2, <2>3, <2>4 DEF Advances
<1>3. CASE a.viewer /\ a.epoch = x.ref /\ x.next \notin a.store /\ a.fault = -1
    <2> DEFINE y == [x EXCEPT !.pc = "item"]
    <2>1. Look(a, x) = [x |-> y, say |-> <<>>]
        BY <1>3 DEF Look
    <2>2. y \in Handler /\ y.pc = "item" /\ y.ref = x.ref /\ y.next = x.next
        BY DEF Handler, HandlerStep, Waiting
    <2> HIDE DEF y
    <2>3. Reach(y) = x.next
        BY <2>2 DEF Reach
    <2> QED
        BY <2>1, <2>2, <2>3 DEF Advances
<1>4. CASE a.viewer /\ a.epoch # x.ref /\ a.fault = -1
    <2> DEFINE y == EnterEpoch(x, a.epoch)
               n == Msg("epoch", a.epoch, -1)
    <2>1. Look(a, x) = [x |-> y, say |-> <<n>>]
        BY <1>4 DEF Look
    <2>2. y \in Handler /\ y.pc = "moving" /\ y.ref = a.epoch /\ y.next = 0
        BY DEF Handler, HandlerStep, EnterEpoch
    <2>3. n \in Message /\ n.type = "epoch" /\ n.epoch = a.epoch
        BY MsgType
    <2> HIDE DEF y, n
    <2>4. Says(x.ref, x.next, n, y) /\ Due(n, a.epoch)
        BY <2>2, <2>3 DEF Says, Reach, Due
    <2> QED
        BY <2>1, <2>2, <2>3, <2>4 DEF Advances
<1>5. CASE a.viewer /\ a.fault # -1 /\ ~(a.epoch = x.ref /\ x.next \in a.store)
    <2> DEFINE p == IF x.warned THEN "faultWait" ELSE "warn"
               y == [x EXCEPT !.pc = p, !.warned = TRUE]
               n == Msg("fault", a.epoch, -1)
    <2>1. Look(a, x) = [x |-> y, say |-> IF x.warned THEN <<>> ELSE <<n>>]
        BY <1>5 DEF Look
    <2>2. y \in Handler /\ y.pc \in {"faultWait", "warn"} /\ y.ref = x.ref /\ y.next = x.next
        BY DEF Handler, HandlerStep, Waiting
    <2>3. n \in Message /\ n.type = "fault" /\ n.epoch = a.epoch
        BY MsgType
    <2> HIDE DEF y, n
    <2>4. Reach(y) = x.next
        BY <2>2 DEF Reach
    <2>5. Says(x.ref, x.next, n, y) /\ Due(n, a.epoch)
        BY <2>2, <2>3, <2>4 DEF Says, Due
    <2>6. CASE x.warned
        BY <2>1, <2>2, <2>4, <2>6 DEF Advances
    <2>7. CASE ~x.warned
        BY <2>1, <2>2, <2>3, <2>5, <2>7 DEF Advances
    <2> QED
        BY <2>6, <2>7
<1> QED
    BY <1>1, <1>2, <1>3, <1>4, <1>5

LEMMA PassWindowAdvances ==
    ASSUME NEW a \in App, NEW x \in Handler, x.ref <= a.epoch
    PROVE  Advances(a, x.ref, x.next, PassWindow(a, x))
<1> USE HandlerFields, AppFields
<1> DEFINE kept == IF a.viewer THEN Outstanding(x.sent, a.last) ELSE x.sent
           full == a.viewer /\ Cardinality(kept) > Window
           y == [x EXCEPT !.pc = "full", !.sent = kept]
           z == [x EXCEPT !.sent = kept]
<1>1. PassWindow(a, x) = IF full THEN [x |-> y, say |-> <<>>] ELSE Look(a, z)
    BY DEF PassWindow
<1>2. kept \in SUBSET Frames
    BY DEF Outstanding
<1> HIDE DEF kept, full
<1>3. y \in Handler /\ y.pc = "full" /\ y.ref = x.ref /\ y.next = x.next
    BY <1>2 DEF Handler, HandlerStep, Waiting
<1>4. z \in Handler /\ z.ref = x.ref /\ z.next = x.next
    BY <1>2 DEF Handler
<1> HIDE DEF y, z
<1>5. Reach(y) = x.next
    BY <1>3 DEF Reach
<1>6. CASE full
    BY <1>1, <1>3, <1>5, <1>6 DEF Advances
<1>7. CASE ~full
    BY <1>1, <1>4, <1>7, LookAdvances
<1> QED
    BY <1>6, <1>7

LEMMA LoopAdvances ==
    ASSUME NEW a \in App, NEW x \in Handler, x.ref <= a.epoch
    PROVE  Advances(a, x.ref, x.next, Loop(a, x))
<1> USE HandlerFields, AppFields
<1> DEFINE sent == IF a.epoch # x.ref \/ x.stale THEN {} ELSE x.sent
           y == [x EXCEPT !.sent = sent, !.stale = FALSE]
<1>1. Loop(a, x) = PassWindow(a, y)
    BY DEF Loop
<1>2. sent \in SUBSET Frames
    OBVIOUS
<1> HIDE DEF sent
<1>3. y \in Handler /\ y.ref = x.ref /\ y.next = x.next
    BY <1>2 DEF Handler
<1> HIDE DEF y
<1> QED
    BY <1>1, <1>3, PassWindowAdvances

-----------------------------------------------------------------------------
(* Steps by what they may change                                           *)

\* Nothing was forgotten but with the epoch.
History == \/ app'.epoch = app.epoch /\ painted' = painted /\ skipped' = skipped
           \/ app.epoch < app'.epoch /\ painted' = {} /\ skipped' = {}

\* A step that leaves the connections and tabs alone and moves no handler.
QuietStep ==
    /\ app' \in App /\ resync' \in BOOLEAN /\ SamePlaces(h, h')
    /\ (app'.viewer => app.viewer) /\ History
    /\ up' \in [Sockets -> Seq(Control)]
    /\ \A s \in Sockets : up'[s] = up[s] \/ (up[s] # <<>> /\ up'[s] = Tail(up[s]))
    /\ faults' \in 0..MaxFaults
    /\ UNCHANGED <<link, down, tab>>

\* A step in which only the handler of s moves, within its loop.
LoopStep(s) ==
    /\ app' \in App /\ app'.epoch = app.epoch /\ app'.viewer = app.viewer
    /\ resync' \in BOOLEAN
    /\ h[s].pc \in Active
    /\ \E hs, o : /\ SamePlaces(h, hs) /\ h' = [hs EXCEPT ![s] = o.x]
                  /\ Emit(s, o.say) /\ Advances(app, h[s].ref, Reach(h[s]), o)
    /\ UNCHANGED <<link, up, tab, painted, skipped, faults>>

LEMMA SameItself ==
    ASSUME TypeOK
    PROVE  SamePlaces(h, h)
    BY DEF TypeOK, SamePlaces

LEMMA ControlFields ==
    ASSUME NEW m \in Control
    PROVE  m.epoch \in Nat /\ m.seq \in Nat \cup {-1}
    BY DEF Control

LEMMA TakeEffect ==
    ASSUME TypeOK, NEW s \in Sockets, NEW type, Take(s, type)
    PROVE  /\ up' \in [Sockets -> Seq(Control)]
           /\ \A r \in Sockets : up'[r] = up[r] \/ (up[r] # <<>> /\ up'[r] = Tail(up[r]))
           /\ up[s] # <<>> /\ Head(up[s]) \in Control /\ Head(up[s]).type = type
           /\ Head(up[s]) = up[s][1] /\ 1 \in 1..Len(up[s])
           /\ UNCHANGED <<link, down, tab, painted, skipped, faults>>
<1>1. up[s] \in Seq(Control) /\ up[s] # <<>>
    BY DEF TypeOK, Take
<1>2. Tail(up[s]) \in Seq(Control)
    BY <1>1, TailType
<1>3. Head(up[s]) \in Control /\ Head(up[s]) = up[s][1] /\ 1 \in 1..Len(up[s])
    BY <1>1, TailType
<1> QED
    BY <1>1, <1>2, <1>3 DEF Take, TypeOK

\* A control task ends its work and gives the slot back.
LEMMA LeaveType ==
    ASSUME TypeOK, NEW s \in Sockets
    PROVE  /\ [app EXCEPT !.viewer = FALSE] \in App
           /\ [app EXCEPT !.viewer = FALSE].epoch = app.epoch
           /\ ~[app EXCEPT !.viewer = FALSE].viewer
           /\ [app EXCEPT !.viewer = FALSE].store = app.store
           /\ SamePlaces(h, [NotifyAll(h) EXCEPT ![s].reading = FALSE])
<1>1. app \in App /\ h \in [Sockets -> Handler]
    BY DEF TypeOK
<1>2. SamePlaces(h, NotifyAll(h))
    BY <1>1, NotifyAllSame
<1> DEFINE ns == NotifyAll(h)
           x == [ns[s] EXCEPT !.reading = FALSE]
           rs == [ns EXCEPT ![s].reading = FALSE]
<1> HIDE DEF ns
<1>3. ns \in [Sockets -> Handler] /\ SamePlaces(h, ns)
    BY <1>2 DEF ns, SamePlaces
<1>4. x \in Handler /\ x.pc = ns[s].pc /\ x.ref = ns[s].ref /\ x.next = ns[s].next
    BY <1>3 DEF Handler
<1>5. rs = [ns EXCEPT ![s] = x]
    BY <1>3
<1> HIDE DEF x
<1>6. SamePlaces(h, rs)
    BY <1>3, <1>4, <1>5 DEF SamePlaces
<1> QED
    BY <1>1, <1>6 DEF App, ns

LEMMA ControlQuiet ==
    ASSUME TypeOK, NEW s \in Sockets, ControlAct(s)
    PROVE  QuietStep
<1>1. /\ app \in App /\ resync \in BOOLEAN /\ h \in [Sockets -> Handler]
      /\ up \in [Sockets -> Seq(Control)] /\ faults \in 0..MaxFaults
    BY DEF TypeOK
<1>2. app.epoch \in Nat
    BY <1>1, AppFields
<1>3. CASE Presented(s)
    <2> DEFINE m == Head(up[s])
    <2>1. Take(s, "presented")
        BY <1>3 DEF Presented
    <2>2. /\ app' = Acknowledge(app, m.epoch, m.seq)
          /\ h' = NotifyAll(h) /\ resync' = resync
        BY <1>3 DEF Presented
    <2>3. m \in Control
        BY <2>1, TakeEffect
    <2>4. m.epoch \in Nat /\ m.seq \in Nat \cup {-1}
        BY <2>3, ControlFields
    <2> HIDE DEF m
    <2>5. app' \in App /\ app'.epoch = app.epoch /\ app'.viewer = app.viewer
        BY <1>1, <2>2, <2>4, AcknowledgeType
    <2>6. SamePlaces(h, h')
        BY <1>1, <2>2, NotifyAllSame
    <2> QED
        BY <1>1, <1>2, <2>1, <2>2, <2>5, <2>6, TakeEffect DEF QuietStep, History
<1>4. CASE JumpToLive(s)
    <2>1. Take(s, "jump") /\ app' = Cleared(app) /\ resync' = TRUE /\ h' = Resynced(h)
        BY <1>4 DEF JumpToLive
    <2>2. app' \in App /\ app'.epoch = app.epoch /\ app'.viewer = app.viewer
        BY <1>1, <2>1, ClearedType
    <2>3. SamePlaces(h, h')
        BY <1>1, <2>1, ResyncedSame
    <2> QED
        BY <1>1, <1>2, <2>1, <2>2, <2>3, TakeEffect DEF QuietStep, History
<1>5. CASE Stop(s)
    <2>1. /\ Take(s, "stop") /\ app' = [app EXCEPT !.viewer = FALSE]
          /\ h' = [NotifyAll(h) EXCEPT ![s].reading = FALSE] /\ resync' = resync
        BY <1>5 DEF Stop
    <2>2. app' \in App /\ app'.epoch = app.epoch /\ ~app'.viewer /\ SamePlaces(h, h')
        BY <2>1, LeaveType
    <2> QED
        BY <1>1, <1>2, <2>1, <2>2, TakeEffect DEF QuietStep, History
<1>6. CASE Lost(s)
    <2>1. /\ app' = [app EXCEPT !.viewer = FALSE]
          /\ h' = [NotifyAll(h) EXCEPT ![s].reading = FALSE]
          /\ UNCHANGED <<resync, link, up, down, tab, painted, skipped, faults>>
        BY <1>6 DEF Lost
    <2>2. app' \in App /\ app'.epoch = app.epoch /\ ~app'.viewer /\ SamePlaces(h, h')
        BY <2>1, LeaveType
    <2> QED
        BY <1>1, <1>2, <2>1, <2>2 DEF QuietStep, History
<1> QED
    BY <1>3, <1>4, <1>5, <1>6 DEF ControlAct

LEMMA WorkerQuiet ==
    ASSUME TypeOK, Publish \/ InferenceFault \/ Reset
    PROVE  QuietStep
<1>1. /\ app \in App /\ resync \in BOOLEAN /\ h \in [Sockets -> Handler]
      /\ up \in [Sockets -> Seq(Control)] /\ faults \in 0..MaxFaults
    BY DEF TypeOK
<1>2. app.epoch \in Nat /\ MaxSeq \in Nat /\ MaxFaults \in Nat
    BY <1>1, AppFields, PlaybackAssumption DEF PlaybackAssumption
<1>3. SamePlaces(h, NotifyAll(h))
    BY <1>1, NotifyAllSame
<1>4. CASE Publish
    <2>1. PICK n \in 0..(MaxSeq - 1) :
              app' = [app EXCEPT !.store = @ \cup {n}, !.done = @ \cup {n}]
        BY <1>4 DEF Publish
    <2>2. h' = NotifyAll(h) /\ UNCHANGED <<resync, link, up, down, tab, painted, skipped, faults>>
        BY <1>4 DEF Publish
    <2>3. n \in Nat
        BY <1>2
    <2>4. app' \in App /\ app'.epoch = app.epoch /\ app'.viewer = app.viewer
        BY <1>1, <2>1, <2>3 DEF App
    <2> QED
        BY <1>1, <1>2, <1>3, <2>2, <2>4 DEF QuietStep, History
<1>5. CASE InferenceFault
    <2>1. PICK n \in 0..(MaxSeq - 1) \ app.done : app' = [app EXCEPT !.fault = n]
        BY <1>5 DEF InferenceFault
    <2>2. /\ h' = NotifyAll(h) /\ UNCHANGED <<resync, link, up, down, tab, painted, skipped>>
          /\ faults < MaxFaults /\ faults' = faults + 1
        BY <1>5 DEF InferenceFault, Fault
    <2>3. n \in Nat
        BY <1>2
    <2>4. app' \in App /\ app'.epoch = app.epoch /\ app'.viewer = app.viewer
        BY <1>1, <2>1, <2>3 DEF App
    <2>5. faults' \in 0..MaxFaults
        BY <1>1, <1>2, <2>2
    <2> QED
        BY <1>1, <1>2, <1>3, <2>2, <2>4, <2>5 DEF QuietStep, History
<1>6. CASE Reset
    <2>1. PICK e \in {app.epoch, app.epoch + 1} \cap 1..MaxEpoch :
              app' = [Cleared(app) EXCEPT !.epoch = e, !.done = {}]
        BY <1>6 DEF Reset
    <2>2. /\ h' = NotifyAll(h) /\ UNCHANGED <<link, up, down, tab, faults>>
          /\ painted' = IF app'.epoch = app.epoch THEN painted ELSE {}
          /\ skipped' = IF app'.epoch = app.epoch THEN skipped ELSE {}
          /\ resync' \in {FALSE, resync /\ app'.epoch > app.epoch}
        BY <1>6 DEF Reset
    <2>3. e \in Nat /\ app.epoch <= e
        BY <1>2
    <2>4. Cleared(app) \in App /\ Cleared(app).viewer = app.viewer
        BY <1>1, ClearedType
    <2>5. app' \in App /\ app'.epoch = e /\ app'.viewer = app.viewer
        BY <2>1, <2>3, <2>4 DEF App
    <2>6. (resync /\ app'.epoch > app.epoch) \in BOOLEAN
        BY <1>1
    <2>7. resync' \in BOOLEAN
        BY <2>2, <2>6
    <2>8. History
        BY <1>2, <2>2, <2>3, <2>5 DEF History
    <2> QED
        BY <1>1, <1>3, <2>2, <2>3, <2>5, <2>7, <2>8 DEF QuietStep
<1> QED
    BY <1>4, <1>5, <1>6

LEMMA ContinueLoops ==
    ASSUME TypeOK, NEW s \in Sockets, NEW o, h[s].pc \in Active,
           Continue(s, o), Advances(app, h[s].ref, Reach(h[s]), o)
    PROVE  LoopStep(s)
<1>1. /\ h' = [h EXCEPT ![s] = o.x] /\ Emit(s, o.say)
      /\ UNCHANGED <<app, resync, link, up, tab, painted, skipped, faults>>
    BY DEF Continue
<1>2. app \in App /\ resync \in BOOLEAN
    BY DEF TypeOK
<1>3. SamePlaces(h, h)
    BY SameItself
<1> QED
    BY <1>1, <1>2, <1>3 DEF LoopStep

LEMMA ActiveSteps == /\ Waiting \cup {"greet", "moving", "sending", "warn"} \subseteq Active
                     /\ \A p \in Active : p \notin {"free", "accepted", "closing"}
    BY DEF Active, HandlerStep, Waiting

LEMMA LoopActs ==
    ASSUME TypeOK, NEW s \in Sockets, h[s].ref <= app.epoch,
           \/ Begin(s) \/ Wake(s) \/ Sent(s) \/ Moved(s) \/ Warned(s) \/ Raise(s)
    PROVE  LoopStep(s)
<1>1. /\ app \in App /\ resync \in BOOLEAN /\ h \in [Sockets -> Handler]
      /\ h[s] \in Handler
    BY DEF TypeOK
<1>2. /\ h[s].pc \in HandlerStep /\ h[s].ref \in Nat /\ h[s].next \in Nat
      /\ h[s].sent \in SUBSET Frames
    BY <1>1, HandlerFields
<1>3. CASE Begin(s)
    <2> DEFINE a == IF h[s].new THEN Cleared(app) ELSE app
               hs == IF h[s].new THEN Resynced(h) ELSE h
               x == [hs[s] EXCEPT !.reading = TRUE, !.new = FALSE]
               o == Loop(a, x)
    <2>1. /\ h[s].pc = "greet" /\ app' = a /\ resync' = (resync \/ h[s].new)
          /\ h' = [hs EXCEPT ![s] = o.x] /\ Emit(s, o.say)
          /\ UNCHANGED <<link, up, tab, painted, skipped, faults>>
        BY <1>3 DEF Begin
    <2>2. a \in App /\ a.epoch = app.epoch /\ a.viewer = app.viewer
        BY <1>1, ClearedType
    <2>3. SamePlaces(h, hs)
        BY <1>1, ResyncedSame, SameItself
    <2> HIDE DEF a, hs
    <2>4. hs[s] \in Handler /\ hs[s].ref = h[s].ref /\ hs[s].next = h[s].next
        BY <2>3 DEF SamePlaces
    <2>5. x \in Handler /\ x.ref = h[s].ref /\ x.next = h[s].next
        BY <2>4 DEF Handler
    <2> HIDE DEF x
    <2>6. Advances(a, h[s].ref, h[s].next, o)
        BY <2>2, <2>5, LoopAdvances
    <2> HIDE DEF o
    <2>7. Reach(h[s]) = h[s].next
        BY <2>1 DEF Reach
    <2>8. Advances(app, h[s].ref, Reach(h[s]), o)
        BY <2>2, <2>6, <2>7 DEF Advances
    <2>9. h[s].pc \in Active
        BY <2>1, ActiveSteps
    <2>10. (resync \/ h[s].new) \in BOOLEAN
        OBVIOUS
    <2>11. app' \in App /\ app'.epoch = app.epoch /\ app'.viewer = app.viewer
        BY <2>1, <2>2
    <2> QED
        BY <2>1, <2>3, <2>8, <2>9, <2>10, <2>11 DEF LoopStep
<1>4. CASE Wake(s)
    <2> DEFINE x == [h[s] EXCEPT !.woken = FALSE]
               o == CASE x.pc = "full" -> PassWindow(app, x)
                      [] x.pc = "item" -> Look(app, x)
                      [] x.pc = "faultWait" -> Loop(app, x)
    <2>1. h[s].pc \in Waiting /\ Continue(s, o)
        BY <1>4 DEF Wake
    <2>2. x \in Handler /\ x.pc = h[s].pc /\ x.ref = h[s].ref /\ x.next = h[s].next
        BY <1>1 DEF Handler
    <2>3. /\ x.pc \in {"full", "item", "faultWait"}
          /\ x.pc = "full" => o = PassWindow(app, x)
          /\ x.pc = "item" => o = Look(app, x)
          /\ x.pc = "faultWait" => o = Loop(app, x)
        BY <2>1, <2>2 DEF Waiting
    <2> HIDE DEF x, o
    <2>4. /\ Advances(app, x.ref, x.next, PassWindow(app, x))
          /\ Advances(app, x.ref, x.next, Look(app, x))
          /\ Advances(app, x.ref, x.next, Loop(app, x))
        BY <1>1, <2>2, PassWindowAdvances, LookAdvances, LoopAdvances
    <2>5. Reach(h[s]) = x.next
        BY <2>2, <2>3 DEF Reach
    <2>6. Advances(app, h[s].ref, Reach(h[s]), o)
        BY <2>2, <2>3, <2>4, <2>5
    <2>7. h[s].pc \in Active
        BY <2>1, ActiveSteps
    <2> QED
        BY <2>1, <2>6, <2>7, ContinueLoops
<1>5. CASE Sent(s)
    <2> DEFINE frame == [epoch |-> h[s].ref, seq |-> h[s].next]
               n == h[s].next + 1
               all == h[s].sent \cup {frame}
               x == [h[s] EXCEPT !.next = n, !.sent = all]
    <2>1. h[s].pc = "sending"
        BY <1>5 DEF Sent
    <2>2. [h[s] EXCEPT !.next = @ + 1, !.sent = @ \cup {frame}] = x
        BY <1>1 DEF Handler
    <2>3. Continue(s, Loop(app, x))
        BY <1>5, <2>2 DEF Sent
    <2>4. n \in Nat /\ all \in SUBSET Frames
        BY <1>2 DEF Frames
    <2> HIDE DEF all
    <2>5. Reach(h[s]) = n
        BY <2>1 DEF Reach
    <2> HIDE DEF n
    <2>6. x \in Handler /\ x.ref = h[s].ref /\ x.next = n
        BY <1>1, <2>4 DEF Handler
    <2> HIDE DEF x
    <2>7. Advances(app, h[s].ref, Reach(h[s]), Loop(app, x))
        BY <1>1, <2>5, <2>6, LoopAdvances
    <2>8. h[s].pc \in Active
        BY <2>1, ActiveSteps
    <2> QED
        BY <2>3, <2>7, <2>8, ContinueLoops
<1>6. CASE Moved(s)
    <2>1. h[s].pc = "moving" /\ Continue(s, Loop(app, h[s]))
        BY <1>6 DEF Moved
    <2>2. Reach(h[s]) = h[s].next
        BY <2>1 DEF Reach
    <2>3. Advances(app, h[s].ref, Reach(h[s]), Loop(app, h[s]))
        BY <1>1, <2>2, LoopAdvances
    <2>4. h[s].pc \in Active
        BY <2>1, ActiveSteps
    <2> QED
        BY <2>1, <2>3, <2>4, ContinueLoops
<1>7. CASE Warned(s)
    <2> DEFINE x == [h[s] EXCEPT !.pc = "faultWait"]
               o == [x |-> x, say |-> <<>>]
    <2>1. h[s].pc = "warn" /\ Continue(s, o)
        BY <1>7 DEF Warned
    <2>2. x \in Handler /\ x.pc = "faultWait" /\ x.ref = h[s].ref /\ x.next = h[s].next
        BY <1>1 DEF Handler, HandlerStep, Waiting
    <2>3. o.x = x /\ o.say = <<>>
        OBVIOUS
    <2> HIDE DEF x, o
    <2>4. Reach(x) = Reach(h[s])
        BY <2>1, <2>2 DEF Reach
    <2>5. Advances(app, h[s].ref, Reach(h[s]), o)
        BY <2>2, <2>3, <2>4 DEF Advances
    <2>6. h[s].pc \in Active
        BY <2>1, ActiveSteps
    <2> QED
        BY <2>1, <2>5, <2>6, ContinueLoops
<1>8. CASE Raise(s)
    <2> DEFINE o == [x |-> Leaving, say |-> <<>>]
    <2>1. h[s].pc \in {"greet", "sending", "moving", "warn"} /\ Continue(s, o)
        BY <1>8 DEF Raise
    <2>2. o.x = Leaving /\ o.say = <<>>
        OBVIOUS
    <2> HIDE DEF o
    <2>3. Leaving.pc \notin Active /\ Leaving.ref <= app.epoch
        BY <1>1, LeavingType, ActiveSteps, AppFields
    <2>4. Advances(app, h[s].ref, Reach(h[s]), o)
        BY <2>2, <2>3, LeavingType DEF Advances
    <2>5. h[s].pc \in Active
        BY <2>1, ActiveSteps
    <2> QED
        BY <2>1, <2>4, <2>5, ContinueLoops
<1> QED
    BY <1>3, <1>4, <1>5, <1>6, <1>7, <1>8

\* What a step of the loop puts on its connection.
LEMMA EmitType ==
    ASSUME TypeOK, NEW s \in Sockets, NEW msgs \in Seq(Message), Emit(s, msgs)
    PROVE  /\ down' \in [Sockets -> Seq(Message)]
           /\ \A r \in Sockets \ {s} : down'[r] = down[r]
           /\ link[s] = "open" => down'[s] = down[s] \o msgs
           /\ link[s] # "open" => down'[s] = down[s]
<1>1. down \in [Sockets -> Seq(Message)]
    BY DEF TypeOK
<1>2. down[s] \o msgs \in Seq(Message)
    BY <1>1
<1>3. down' = [down EXCEPT ![s] = IF link[s] = "open" THEN down[s] \o msgs ELSE down[s]]
    BY <1>1 DEF Emit
<1> QED
    BY <1>1, <1>2, <1>3

\* The two kinds of loop step, as they show.
LEMMA LoopEffect ==
    ASSUME TypeOK, NEW s \in Sockets, LoopStep(s)
    PROVE  /\ h' \in [Sockets -> Handler]
           /\ \A r \in Sockets \ {s} : /\ h'[r].pc = h[r].pc /\ h'[r].ref = h[r].ref
                                       /\ h'[r].next = h[r].next
                                       /\ down'[r] = down[r]
           /\ h'[s].pc \notin {"free", "accepted"} /\ h'[s].ref <= app.epoch
           /\ down' \in [Sockets -> Seq(Message)]
           /\ \/ /\ down'[s] = down[s]
                 /\ link[s] = "open" /\ h'[s].pc \in Active
                    => h'[s].ref = h[s].ref /\ Reach(h'[s]) = Reach(h[s])
              \/ \E n \in Message :
                    /\ link[s] = "open" /\ down'[s] = Append(down[s], n)
                    /\ Due(n, app.epoch) /\ Says(h[s].ref, Reach(h[s]), n, h'[s])
<1>1. down \in [Sockets -> Seq(Message)] /\ h \in [Sockets -> Handler]
    BY DEF TypeOK
<1>2. PICK hs, o : /\ SamePlaces(h, hs) /\ h' = [hs EXCEPT ![s] = o.x]
                   /\ Emit(s, o.say) /\ Advances(app, h[s].ref, Reach(h[s]), o)
    BY DEF LoopStep
<1>3. o.x \in Handler /\ o.x.pc \notin {"free", "accepted"} /\ o.x.ref <= app.epoch
    BY <1>2 DEF Advances
<1>4. /\ h' \in [Sockets -> Handler] /\ h'[s] = o.x
      /\ \A r \in Sockets \ {s} : /\ h'[r].pc = h[r].pc /\ h'[r].ref = h[r].ref
                                  /\ h'[r].next = h[r].next
    BY <1>2, <1>3 DEF SamePlaces
<1>5. CASE /\ o.say = <<>>
           /\ o.x.pc \in Active => o.x.ref = h[s].ref /\ Reach(o.x) = Reach(h[s])
    <2>1. <<>> \in Seq(Message)
        OBVIOUS
    <2>2. down[s] \o <<>> = down[s]
        BY <1>1
    <2>3. /\ down' \in [Sockets -> Seq(Message)]
          /\ \A r \in Sockets : down'[r] = down[r]
        BY <1>2, <1>5, <2>1, <2>2, EmitType
    <2> QED
        BY <1>3, <1>4, <1>5, <2>3
<1>6. CASE \E n \in Message : /\ o.say = <<n>> /\ Due(n, app.epoch)
                              /\ Says(h[s].ref, Reach(h[s]), n, o.x)
    <2>1. PICK n \in Message : /\ o.say = <<n>> /\ Due(n, app.epoch)
                               /\ Says(h[s].ref, Reach(h[s]), n, o.x)
        BY <1>6
    <2>2. <<n>> \in Seq(Message)
        OBVIOUS
    <2>3. down[s] \o <<n>> = Append(down[s], n)
        BY <1>1
    <2>4. /\ down' \in [Sockets -> Seq(Message)]
          /\ \A r \in Sockets \ {s} : down'[r] = down[r]
          /\ link[s] = "open" => down'[s] = Append(down[s], n)
          /\ link[s] # "open" => down'[s] = down[s]
        BY <1>2, <2>1, <2>2, <2>3, EmitType
    <2> QED
        BY <1>3, <1>4, <2>1, <2>4
<1> QED
    BY <1>2, <1>5, <1>6 DEF Advances

-----------------------------------------------------------------------------
(* What the invariant says of each part, and how it grows                  *)

LEMMA TabFields ==
    ASSUME NEW x \in Tab
    PROVE  /\ x.sock \in Sockets \cup {NoSocket} /\ x.epoch \in Nat
           /\ x.last \in Nat \cup {-1} /\ x.known \in SUBSET Frames
           /\ x.decoding \in Frames /\ x.session \in BOOLEAN /\ x.decoder \in BOOLEAN
           /\ x.stopped \in BOOLEAN /\ x.jump \in BOOLEAN
    BY DEF Tab

\* The invariant, as the steps below take it apart.
LEMMA InvTypes ==
    ASSUME PlayInv
    PROVE  /\ TypeOK /\ app \in App /\ resync \in BOOLEAN /\ h \in [Sockets -> Handler]
           /\ link \in [Sockets -> {"free", "open", "gone", "closed"}]
           /\ up \in [Sockets -> Seq(Control)] /\ down \in [Sockets -> Seq(Message)]
           /\ tab \in [Tabs -> Tab] /\ faults \in 0..MaxFaults
           /\ painted \subseteq Int /\ skipped \subseteq Int
           /\ app.epoch \in Nat
           /\ \A s \in Sockets : /\ h[s] \in Handler /\ h[s].ref \in Nat
                                 /\ h[s].next \in Nat /\ Reach(h[s]) \in Nat
           /\ \A t \in Tabs : tab[t] \in Tab
<1>1. TypeOK
    BY DEF PlayInv
<1>2. app \in App /\ h \in [Sockets -> Handler] /\ tab \in [Tabs -> Tab]
    BY <1>1 DEF TypeOK
<1>3. \A s \in Sockets : h[s] \in Handler /\ h[s].ref \in Nat /\ h[s].next \in Nat
    BY <1>2, HandlerFields
<1>4. \A s \in Sockets : Reach(h[s]) \in Nat
    BY <1>3 DEF Reach
<1>5. app.epoch \in Nat
    BY <1>2, AppFields
<1> QED
    BY <1>1, <1>2, <1>3, <1>4, <1>5 DEF TypeOK

LEMMA InvParts ==
    ASSUME PlayInv
    PROVE  /\ LinksOK /\ SlotHasOwner /\ PositionOK /\ EpochsOK /\ SeenOK
           /\ AcksOK /\ KnownOK /\ StreamOK
           /\ \A s \in Sockets : InOrder(down[s]) /\ h[s].ref <= app.epoch
           /\ \A s \in Sockets : \A i \in 1..Len(down[s]) : Due(down[s][i], app.epoch)
           /\ \A t \in Tabs : \A f \in tab[t].known :
                 f \in Frames /\ f.epoch <= app.epoch /\ f.seq \in Nat /\ f.epoch \in Nat
<1>1. \A t \in Tabs : \A f \in tab[t].known : f \in Frames /\ f.epoch \in Nat
    <2>1. \A t \in Tabs : tab[t].known \in SUBSET Frames
        BY InvTypes, TabFields
    <2> QED
        BY <2>1 DEF Frames
<1> QED
    BY <1>1, StreamIsInOrder DEF PlayInv, EpochsOK

LEMMA PlayerGrows ==
    ASSUME NEW ep \in Nat, NEW S, NEW ep2 \in Nat, NEW S2, Grows(ep, S, ep2, S2),
           NEW x, \A f \in x.known : f.epoch \in Nat /\ f.epoch <= ep, PlayerOK(ep, S, x)
    PROVE  PlayerOK(ep2, S2, x)
<1>1. ASSUME NEW f \in x.known, NEW n, Accounted(ep, S, f.epoch, n)
      PROVE  Accounted(ep2, S2, f.epoch, n)
    <2>1. f.epoch \in Nat /\ f.epoch <= ep
        OBVIOUS
    <2> QED
        BY <1>1, <2>1, AccountedGrows
<1> QED
    BY <1>1 DEF PlayerOK

LEMMA StreamGrows ==
    ASSUME NEW ep \in Nat, NEW S, NEW ep2 \in Nat, NEW S2, Grows(ep, S, ep2, S2),
           NEW d \in Seq(Message), \A i \in 1..Len(d) : Due(d[i], ep),
           NEW x, NEW y, StillHas(x, ep2, S2, y),
           NEW open, NEW u, NEW open2, NEW v, StreamFor(ep, S, d, x, open, u),
           u.ref \in Nat, u.ref <= ep,
           open2 /\ v.pc \in Active =>
               open /\ u.pc \in Active /\ v.ref = u.ref /\ Reach(v) = Reach(u)
    PROVE  StreamFor(ep2, S2, d, y, open2, v)
<1>1. ASSUME NEW j \in 1..Len(d), d[j].type = "frame"
      PROVE  Ready(ep2, S2, d, j, y, d[j].epoch, d[j].seq)
    <2>1. d[j] \in Message /\ d[j].epoch <= ep
        BY DEF Due
    <2>2. d[j].epoch \in Nat
        BY <2>1 DEF Message
    <2>3. Ready(ep, S, d, j, x, d[j].epoch, d[j].seq)
        BY <1>1 DEF StreamFor, AllReady
    <2> QED
        BY <2>1, <2>2, <2>3, ReadyGrows
<1>2. ASSUME open2, v.pc \in Active
      PROVE  Ready(ep2, S2, d, Len(d) + 1, y, v.ref, Reach(v))
    <2>1. Ready(ep, S, d, Len(d) + 1, x, v.ref, Reach(v))
        BY <1>2 DEF StreamFor
    <2>2. v.ref \in Nat /\ v.ref <= ep
        BY <1>2
    <2> QED
        BY <2>1, <2>2, ReadyGrows
<1> QED
    BY <1>1, <1>2 DEF StreamFor, AllReady

\* The stream of a tab that reads nothing, of a handler that says nothing.
LEMMA StreamKept ==
    ASSUME PlayInv, app'.epoch \in Nat, Grows(app.epoch, Seen, app'.epoch, Seen'),
           NEW t \in Tabs, NEW s \in Sockets, tab[t].sock = s, s # NoSocket,
           StillHas(tab[t], app'.epoch, Seen', tab'[t]), down'[s] = down[s],
           link'[s] = "open" /\ h'[s].pc \in Active =>
               /\ link[s] = "open" /\ h[s].pc \in Active
               /\ h'[s].ref = h[s].ref /\ Reach(h'[s]) = Reach(h[s])
    PROVE  StreamFor(app'.epoch, Seen', down'[s], tab'[t], link'[s] = "open", h'[s])
<1>1. StreamFor(app.epoch, Seen, down[s], tab[t], link[s] = "open", h[s])
    BY DEF PlayInv, StreamOK
<1>2. /\ down[s] \in Seq(Message) /\ h[s].ref \in Nat /\ app.epoch \in Nat
      /\ h[s].ref <= app.epoch /\ \A i \in 1..Len(down[s]) : Due(down[s][i], app.epoch)
    BY InvTypes, InvParts
<1> DEFINE S == Seen  S2 == Seen'  d == down[s]  x == tab[t]  y == tab'[t]
           open == link[s] = "open"  open2 == link'[s] = "open"  u == h[s]  v == h'[s]
           ep == app.epoch  ep2 == app'.epoch
<1>3. StreamFor(ep, S, d, x, open, u) /\ ep \in Nat /\ ep2 \in Nat /\ Grows(ep, S, ep2, S2)
    BY <1>1, <1>2
<1>4. d \in Seq(Message) /\ \A i \in 1..Len(d) : Due(d[i], ep)
    BY <1>2
<1>5. StillHas(x, ep2, S2, y) /\ u.ref \in Nat /\ u.ref <= ep
    BY <1>2
<1>6. open2 /\ v.pc \in Active =>
          open /\ u.pc \in Active /\ v.ref = u.ref /\ Reach(v) = Reach(u)
    OBVIOUS
<1>7. down'[s] = d
    OBVIOUS
<1> HIDE DEF S, S2, d, x, y, open, open2, u, v, ep, ep2
<1>8. StreamFor(ep2, S2, d, y, open2, v)
    BY <1>3, <1>4, <1>5, <1>6, StreamGrows
<1> QED
    BY <1>7, <1>8 DEF ep2, S2, y, open2, v

\* A tab that holds connection s is the only one.
LEMMA HoldsLink ==
    ASSUME PlayInv, NEW t \in Tabs, tab[t].sock # NoSocket
    PROVE  /\ tab[t].sock \in Sockets /\ link[tab[t].sock] \in {"open", "closed"}
           /\ \A u \in Tabs \ {t} : tab[u].sock # tab[t].sock
<1>1. tab[t] \in Tab /\ LinksOK
    BY InvTypes DEF PlayInv
<1> QED
    BY <1>1, TabFields DEF LinksOK

\* Players keep what they have.
LEMMA PlayersKept ==
    ASSUME PlayInv, app'.epoch \in Nat, Grows(app.epoch, Seen, app'.epoch, Seen'),
           NEW t \in Tabs, tab'[t].known = tab[t].known, tab'[t].decoding = tab[t].decoding
    PROVE  PlayerOK(app'.epoch, Seen', tab'[t])
<1> DEFINE S == Seen  S2 == Seen'  x == tab[t]  y == tab'[t]
           ep == app.epoch  ep2 == app'.epoch
<1>1. /\ PlayerOK(ep, S, x) /\ Grows(ep, S, ep2, S2) /\ ep \in Nat /\ ep2 \in Nat
      /\ \A f \in x.known : f.epoch \in Nat /\ f.epoch <= ep
      /\ y.known = x.known /\ y.decoding = x.decoding
    BY InvTypes, InvParts DEF KnownOK
<1> HIDE DEF S, S2, x, y, ep, ep2
<1>2. PlayerOK(ep2, S2, x)
    BY <1>1, PlayerGrows
<1>3. PlayerOK(ep2, S2, y)
    BY <1>1, <1>2 DEF PlayerOK
<1> QED
    BY <1>3 DEF S2, y, ep2

LEMMA FieldEpochs ==
    /\ \A m \in Message : m.epoch \in Nat /\ m.seq \in Nat \cup {-1}
    /\ \A m \in Control : m.epoch \in Nat /\ m.seq \in Nat \cup {-1}
    /\ \A f \in Frames : f.epoch \in Nat /\ f.seq \in Nat \cup {-1}
    BY DEF Message, Control, Frames

\* With the history, what was accounted for.
LEMMA HistoryGrows ==
    ASSUME PlayInv, History, app' \in App
    PROVE  /\ app'.epoch \in Nat /\ app.epoch <= app'.epoch
           /\ Grows(app.epoch, Seen, app'.epoch, Seen') /\ SeenOK'
<1>1. app.epoch \in Nat /\ app'.epoch \in Nat /\ SeenOK
    BY InvTypes, AppFields, InvParts
<1>2. CASE app'.epoch = app.epoch /\ painted' = painted /\ skipped' = skipped
    BY <1>1, <1>2 DEF Grows, Seen, SeenOK
<1>3. CASE app.epoch < app'.epoch /\ painted' = {} /\ skipped' = {}
    BY <1>1, <1>3 DEF Grows, Seen, SeenOK
<1> QED
    BY <1>2, <1>3 DEF History

\* Taking messages off the front of what a browser has sent.
LEMMA AcksTaken ==
    ASSUME PlayInv, app' \in App,
           \/ app'.epoch = app.epoch /\ painted \subseteq painted'
           \/ app.epoch < app'.epoch,
           \A s \in Sockets : \/ up'[s] = up[s] \/ up'[s] = <<>>
                              \/ up[s] # <<>> /\ up'[s] = Tail(up[s])
    PROVE  AcksOK'
<1>1. up \in [Sockets -> Seq(Control)] /\ app.epoch \in Nat /\ app'.epoch \in Nat
    BY InvTypes, AppFields
<1>2. ASSUME NEW m \in Control, Honest(app.epoch, painted, m)
      PROVE  Honest(app'.epoch, painted', m)
    <2>1. m.epoch \in Nat
        BY FieldEpochs
    <2> QED
        BY <1>1, <1>2, <2>1 DEF Honest
<1>3. SUFFICES ASSUME NEW s \in Sockets, NEW i \in 1..Len(up'[s])
               PROVE  Honest(app'.epoch, painted', up'[s][i])
    BY DEF AcksOK
<1>4. up[s] \in Seq(Control) /\ \A j \in 1..Len(up[s]) : Honest(app.epoch, painted, up[s][j])
    BY <1>1 DEF PlayInv, AcksOK
<1>5. \E j \in 1..Len(up[s]) : up'[s][i] = up[s][j]
    <2>1. CASE up'[s] = up[s]
        BY <1>3, <2>1
    <2>2. CASE up'[s] = <<>>
        BY <1>3, <2>2, EmptyStream
    <2>3. CASE up[s] # <<>> /\ up'[s] = Tail(up[s])
        <3>1. /\ Len(up[s]) \in Nat /\ Len(up'[s]) = Len(up[s]) - 1
              /\ \A j \in 1..(Len(up[s]) - 1) : up'[s][j] = up[s][j + 1]
            BY <1>4, <2>3, TailType
        <3>2. i \in 1..(Len(up[s]) - 1) /\ i + 1 \in 1..Len(up[s])
            BY <1>3, <3>1
        <3> QED
            BY <3>1, <3>2
    <2> QED
        BY <2>1, <2>2, <2>3
<1>6. PICK j \in 1..Len(up[s]) : up'[s][i] = up[s][j]
    BY <1>5
<1>7. up[s][j] \in Control
    BY <1>4
<1> QED
    BY <1>2, <1>4, <1>6, <1>7

\* Epochs and numbers, whatever players learn of frames of the epoch, or before.
LEMMA EpochsKept ==
    ASSUME PlayInv, app' \in App, app.epoch <= app'.epoch,
           \A s \in Sockets : h'[s].ref \in Nat /\ h'[s].ref <= app.epoch,
           \A s \in Sockets : \A i \in 1..Len(down'[s]) :
               down'[s][i] \in Message /\ Due(down'[s][i], app.epoch),
           \A t \in Tabs : \A f \in tab'[t].known :
               \/ f \in tab[t].known
               \/ f.epoch \in Nat /\ f.epoch <= app.epoch /\ f.seq \in Nat
    PROVE  EpochsOK'
<1>1. app.epoch \in Nat /\ app'.epoch \in Nat
    BY InvTypes, AppFields
<1>2. \A n \in Nat : n <= app.epoch => n <= app'.epoch
    BY <1>1
<1>3. \A s \in Sockets : h'[s].ref <= app'.epoch
    BY <1>2
<1>4. \A s \in Sockets : \A i \in 1..Len(down'[s]) : Due(down'[s][i], app'.epoch)
    BY <1>2, FieldEpochs DEF Due
<1>5. \A t \in Tabs : \A f \in tab'[t].known : f.epoch <= app'.epoch /\ f.seq \in Nat
    BY <1>2, InvParts
<1> QED
    BY <1>3, <1>4, <1>5 DEF EpochsOK

\* What is on its way to the browsers, when nothing changes there.
LEMMA DownSame ==
    ASSUME PlayInv
    PROVE  \A s \in Sockets : \A i \in 1..Len(down[s]) :
               down[s][i] \in Message /\ Due(down[s][i], app.epoch)
<1>1. \A s \in Sockets : down[s] \in Seq(Message)
    BY InvTypes
<1>2. \A s \in Sockets : \A i \in 1..Len(down[s]) : down[s][i] \in Message
    BY <1>1
<1> QED
    BY <1>2, InvParts

-----------------------------------------------------------------------------
(* Every step keeps the invariant: the server                              *)

LEMMA QuietKeeps ==
    ASSUME PlayInv, QuietStep
    PROVE  PlayInv'
<1>1. /\ app' \in App /\ resync' \in BOOLEAN /\ h' \in [Sockets -> Handler]
      /\ (app'.viewer => app.viewer) /\ History
      /\ up' \in [Sockets -> Seq(Control)]
      /\ faults' \in 0..MaxFaults
      /\ link' = link /\ down' = down /\ tab' = tab
      /\ \A s \in Sockets : /\ h'[s].pc = h[s].pc /\ h'[s].ref = h[s].ref
                            /\ h'[s].next = h[s].next
    BY DEF QuietStep, SamePlaces
<1>2. /\ app'.epoch \in Nat /\ app.epoch <= app'.epoch
      /\ Grows(app.epoch, Seen, app'.epoch, Seen') /\ SeenOK'
    BY <1>1, HistoryGrows
<1>3. \A s \in Sockets : Reach(h'[s]) = Reach(h[s])
    BY <1>1 DEF Reach
<1>4. TypeOK'
    <2>1. painted' \subseteq Int /\ skipped' \subseteq Int
        BY <1>1, InvTypes DEF History
    <2> QED
        BY <1>1, <2>1, InvTypes DEF TypeOK
<1>5. LinksOK'
    BY <1>1, InvParts DEF LinksOK
<1>6. SlotHasOwner'
    BY <1>1, InvParts DEF SlotHasOwner
<1>7. StreamInOrder'
    BY <1>1, InvParts, StreamIsInOrderNext
<1>8. PositionOK'
    BY <1>1, <1>3, InvParts DEF PositionOK
<1>9. EpochsOK'
    BY <1>1, <1>2, InvTypes, InvParts, DownSame, EpochsKept
<1>10. AcksOK'
    BY <1>1, AcksTaken DEF QuietStep, History
<1>11. KnownOK'
    BY <1>1, <1>2, PlayersKept DEF KnownOK
<1>12. StreamOK'
    <2>1. SUFFICES ASSUME NEW t \in Tabs, tab'[t].sock # NoSocket
                   PROVE  StreamFor(app'.epoch, Seen', down'[tab'[t].sock], tab'[t],
                                    link'[tab'[t].sock] = "open", h'[tab'[t].sock])
        BY DEF StreamOK
    <2>2. PICK s \in Sockets : tab[t].sock = s /\ tab'[t].sock = s /\ s # NoSocket
        BY <1>1, <2>1, HoldsLink
    <2>3. StillHas(tab[t], app'.epoch, Seen', tab'[t])
        BY <1>1 DEF StillHas
    <2> QED
        BY <1>1, <1>2, <1>3, <2>2, <2>3, StreamKept
<1> QED
    BY <1>2, <1>4, <1>5, <1>6, <1>7, <1>8, <1>9, <1>10, <1>11, <1>12 DEF PlayInv

LEMMA LoopKeeps ==
    ASSUME PlayInv, NEW s \in Sockets, LoopStep(s)
    PROVE  PlayInv'
<1>1. /\ app' \in App /\ app'.epoch = app.epoch /\ app'.viewer = app.viewer
      /\ resync' \in BOOLEAN /\ h[s].pc \in Active
      /\ link' = link /\ up' = up /\ tab' = tab /\ painted' = painted
      /\ skipped' = skipped /\ faults' = faults /\ History
    BY DEF LoopStep, History
<1>2. /\ app'.epoch \in Nat /\ app.epoch <= app'.epoch
      /\ Grows(app.epoch, Seen, app'.epoch, Seen') /\ SeenOK'
    BY <1>1, HistoryGrows
<1>3. /\ h' \in [Sockets -> Handler]
      /\ \A r \in Sockets \ {s} : /\ h'[r].pc = h[r].pc /\ h'[r].ref = h[r].ref
                                  /\ h'[r].next = h[r].next
                                  /\ down'[r] = down[r]
      /\ h'[s].pc \notin {"free", "accepted"} /\ h'[s].ref <= app.epoch
      /\ down' \in [Sockets -> Seq(Message)]
    BY InvTypes, LoopEffect
<1>4. \A r \in Sockets \ {s} : Reach(h'[r]) = Reach(h[r])
    BY <1>3 DEF Reach
<1>5. TypeOK'
    BY <1>1, <1>3, InvTypes DEF TypeOK
<1>6. h[s].pc \notin {"free", "accepted", "closing"}
    BY <1>1, ActiveSteps
<1>7. LinksOK'
    <2>1. \A r \in Sockets : link[r] \in {"free", "closed"} => h'[r].pc = "free"
        BY <1>3, <1>6, InvParts DEF LinksOK
    <2> QED
        BY <1>1, <2>1, InvParts DEF LinksOK
<1>8. SlotHasOwner'
    BY <1>3 DEF SlotHasOwner
<1>9. AcksOK'
    BY <1>1, AcksTaken
<1>10. KnownOK'
    BY <1>1, <1>2, PlayersKept DEF KnownOK
<1>11. /\ down[s] \in Seq(Message) /\ InOrder(down[s]) /\ Reach(h[s]) \in Nat
       /\ link[s] = "open" => Placed(down[s], h[s].ref, Reach(h[s]))
    BY <1>1, InvTypes, InvParts DEF PositionOK
<1>12. /\ \/ down'[s] = down[s]
          \/ \E n \in Message : down'[s] = Append(down[s], n) /\ Due(n, app.epoch)
       /\ InOrder(down'[s])
       /\ link[s] = "open" /\ h'[s].pc \in Active =>
              Placed(down'[s], h'[s].ref, Reach(h'[s]))
    <2>1. CASE /\ down'[s] = down[s]
               /\ link[s] = "open" /\ h'[s].pc \in Active
                  => h'[s].ref = h[s].ref /\ Reach(h'[s]) = Reach(h[s])
        BY <1>11, <2>1
    <2>2. CASE \E n \in Message :
                  /\ link[s] = "open" /\ down'[s] = Append(down[s], n)
                  /\ Due(n, app.epoch) /\ Says(h[s].ref, Reach(h[s]), n, h'[s])
        <3>1. PICK n \in Message :
                  /\ link[s] = "open" /\ down'[s] = Append(down[s], n)
                  /\ Due(n, app.epoch) /\ Says(h[s].ref, Reach(h[s]), n, h'[s])
            BY <2>2
        <3> DEFINE e == h[s].ref  r == Reach(h[s])  y == h'[s]  d == down[s]
        <3>2. d \in Seq(Message) /\ InOrder(d) /\ r \in Nat /\ Placed(d, e, r)
              /\ Says(e, r, n, y) /\ down'[s] = Append(d, n)
            BY <1>11, <3>1
        <3> HIDE DEF e, r, y, d
        <3>3. InOrder(Append(d, n)) /\ Placed(Append(d, n), y.ref, Reach(y))
            BY <3>2, OrderSaid
        <3>4. InOrder(down'[s]) /\ Placed(down'[s], h'[s].ref, Reach(h'[s]))
            BY <3>2, <3>3 DEF y
        <3> QED
            BY <3>1, <3>4
    <2> QED
        BY <2>1, <2>2, InvTypes, LoopEffect
<1>13. StreamInOrder'
    BY <1>3, <1>12, InvParts, StreamIsInOrderNext
<1>14. PositionOK'
    BY <1>1, <1>3, <1>4, <1>12, InvParts DEF PositionOK
<1>15. EpochsOK'
    <2>1. \A i \in 1..Len(down'[s]) : down'[s][i] \in Message /\ Due(down'[s][i], app.epoch)
        <3>1. CASE down'[s] = down[s]
            BY <3>1, DownSame
        <3>2. CASE \E n \in Message : down'[s] = Append(down[s], n) /\ Due(n, app.epoch)
            <4>1. PICK n \in Message : down'[s] = Append(down[s], n) /\ Due(n, app.epoch)
                BY <3>2
            <4>2. \A i \in 1..Len(down'[s]) :
                      down'[s][i] = n \/ (i \in 1..Len(down[s]) /\ down'[s][i] = down[s][i])
                BY <1>11, <4>1
            <4> QED
                BY <4>1, <4>2, DownSame
        <3> QED
            BY <1>12, <3>1, <3>2
    <2>2. \A r \in Sockets : \A i \in 1..Len(down'[r]) :
              down'[r][i] \in Message /\ Due(down'[r][i], app.epoch)
        BY <1>3, <2>1, DownSame
    <2>3. \A r \in Sockets : h'[r].ref \in Nat /\ h'[r].ref <= app.epoch
        <3>1. \A r \in Sockets : h'[r] \in Handler
            BY <1>3
        <3> QED
            BY <1>3, <3>1, HandlerFields, InvParts
    <2> QED
        BY <1>1, <1>2, <2>2, <2>3, EpochsKept
<1>16. StreamOK'
    <2>1. SUFFICES ASSUME NEW t \in Tabs, tab'[t].sock # NoSocket
                   PROVE  StreamFor(app'.epoch, Seen', down'[tab'[t].sock], tab'[t],
                                    link'[tab'[t].sock] = "open", h'[tab'[t].sock])
        BY DEF StreamOK
    <2>2. PICK r \in Sockets : tab[t].sock = r /\ tab'[t].sock = r /\ r # NoSocket
        BY <1>1, <2>1, HoldsLink
    <2>3. StillHas(tab[t], app'.epoch, Seen', tab'[t])
        BY <1>1 DEF StillHas
    <2>4. CASE r # s \/ /\ down'[s] = down[s]
                        /\ link[s] = "open" /\ h'[s].pc \in Active
                           => h'[s].ref = h[s].ref /\ Reach(h'[s]) = Reach(h[s])
        BY <1>1, <1>2, <1>3, <1>4, <2>2, <2>3, <2>4, StreamKept
    <2>5. CASE r = s /\ \E n \in Message :
                  /\ link[s] = "open" /\ down'[s] = Append(down[s], n)
                  /\ Due(n, app.epoch) /\ Says(h[s].ref, Reach(h[s]), n, h'[s])
        <3>1. PICK n \in Message :
                  /\ link[s] = "open" /\ down'[s] = Append(down[s], n)
                  /\ Due(n, app.epoch) /\ Says(h[s].ref, Reach(h[s]), n, h'[s])
            BY <2>5
        <3>2. StreamFor(app.epoch, Seen, down[s], tab[t], link[s] = "open", h[s])
            BY <2>2, <2>5, InvParts DEF StreamOK
        <3>3. /\ AllReady(app.epoch, Seen, down[s], tab[t])
              /\ Ready(app.epoch, Seen, down[s], Len(down[s]) + 1, tab[t], h[s].ref,
                       Reach(h[s]))
            BY <1>1, <3>1, <3>2 DEF StreamFor
        <3> DEFINE e == h[s].ref  q == Reach(h[s])  y == h'[s]  d == down[s]
                   ep == app.epoch  S == Seen  x == tab[t]
        <3>4. /\ d \in Seq(Message) /\ q \in Nat /\ AllReady(ep, S, d, x)
              /\ Ready(ep, S, d, Len(d) + 1, x, e, q) /\ Says(e, q, n, y)
            BY <1>11, <3>1, <3>3
        <3>5. down'[s] = Append(d, n) /\ (link'[s] = "open") = TRUE
            BY <1>1, <3>1
        <3>6. ep = app'.epoch /\ S = Seen' /\ x = tab'[t] /\ y = h'[s]
            BY <1>1 DEF Seen
        <3> HIDE DEF e, q, y, d, ep, S, x
        <3>7. StreamFor(ep, S, Append(d, n), x, TRUE, y)
            BY <3>4, StreamSaid
        <3>8. StreamFor(app'.epoch, Seen', down'[s], tab'[t], TRUE, h'[s])
            BY <3>5, <3>6, <3>7
        <3>9. StreamFor(app'.epoch, Seen', down'[s], tab'[t], link'[s] = "open", h'[s])
            BY <3>5, <3>8
        <3> QED
            BY <2>2, <2>5, <3>9
    <2> QED
        BY <2>4, <2>5, InvTypes, LoopEffect
<1> QED
    BY <1>2, <1>5, <1>7, <1>8, <1>9, <1>10, <1>13, <1>14, <1>15, <1>16 DEF PlayInv

\* The answer to an open message.
Greeting(epoch, again) ==
    <<Msg("session", epoch, -1)>> \o
    IF again THEN <<Msg("unavailable", epoch, -1)>> ELSE <<>>

LEMMA GreetingType ==
    ASSUME NEW epoch \in Nat, NEW again \in BOOLEAN
    PROVE  LET msgs == Greeting(epoch, again) IN
           /\ msgs \in Seq(Message)
           /\ \A i \in 1..Len(msgs) : /\ msgs[i].type \notin {"frame", "epoch"}
                                      /\ msgs[i].epoch = epoch
           /\ \A x : InEpoch(msgs, Len(msgs) + 1, x, epoch)
<1> DEFINE a == Msg("session", epoch, -1)
           b == Msg("unavailable", epoch, -1)
           rest == IF again THEN <<b>> ELSE <<>>
           msgs == Greeting(epoch, again)
<1>1. /\ a \in Message /\ a.type = "session" /\ a.epoch = epoch
      /\ b \in Message /\ b.type = "unavailable" /\ b.epoch = epoch
    BY MsgType
<1>2. msgs = <<a>> \o rest
    BY DEF Greeting
<1>3. MovesTab(a) /\ ~MovesTab(b)
    BY <1>1 DEF MovesTab
<1> HIDE DEF a, b, msgs
<1>4. /\ msgs \in Seq(Message) /\ Len(msgs) \in Nat \ {0} /\ msgs[1] = a
      /\ \A i \in 1..Len(msgs) : msgs[i] = a \/ msgs[i] = b
      /\ \A i \in 2..Len(msgs) : msgs[i] = b
    <2>1. CASE again
        <3>1. rest = <<b>>
            BY <2>1
        <3> HIDE DEF rest
        <3>2. <<a>> \in Seq(Message) /\ <<b>> \in Seq(Message)
            BY <1>1
        <3>3. msgs = <<a>> \o <<b>>
            BY <1>2, <3>1
        <3>4. msgs \in Seq(Message) /\ Len(msgs) = 2 /\ msgs[1] = a /\ msgs[2] = b
            BY <3>2, <3>3
        <3>5. \A i \in 2..2 : i = 2
            OBVIOUS
        <3>6. \A i \in 1..2 : i = 1 \/ i = 2
            OBVIOUS
        <3> QED
            BY <3>4, <3>5, <3>6
    <2>2. CASE ~again
        <3>1. rest = <<>>
            BY <2>2
        <3> HIDE DEF rest
        <3>2. <<a>> \o <<>> = <<a>>
            BY <1>1
        <3>3. msgs = <<a>>
            BY <1>2, <3>1, <3>2
        <3>4. msgs \in Seq(Message) /\ Len(msgs) = 1 /\ msgs[1] = a
            BY <1>1, <3>3
        <3>5. \A i \in 2..1 : FALSE
            OBVIOUS
        <3>6. \A i \in 1..1 : i = 1
            OBVIOUS
        <3> QED
            BY <3>4, <3>5, <3>6
    <2> QED
        BY <2>1, <2>2
<1>5. \A i \in 1..Len(msgs) : msgs[i].type \notin {"frame", "epoch"} /\ msgs[i].epoch = epoch
    BY <1>1, <1>4
<1>6. ASSUME NEW x
      PROVE  InEpoch(msgs, Len(msgs) + 1, x, epoch)
    <2>1. /\ 1 \in 1..(Len(msgs) + 1 - 1)
          /\ \A k \in (1 + 1)..(Len(msgs) + 1 - 1) : k \in 2..Len(msgs)
        BY <1>4
    <2>2. \A k \in (1 + 1)..(Len(msgs) + 1 - 1) : ~MovesTab(msgs[k])
        BY <1>3, <1>4, <2>1
    <2> QED
        BY <1>1, <1>3, <1>4, <2>1, <2>2 DEF InEpoch
<1> QED
    BY <1>4, <1>5, <1>6 DEF msgs

\* A viewer is resumed behind what was seen, or what it is moved past.
LEMMA ResumeBehind ==
    ASSUME PlayInv, NEW m \in Control, NEW lost \in BOOLEAN
    PROVE  /\ ResumeAt(m, lost) \in Nat /\ MovedPast(m, lost) \subseteq Int
           /\ \A n \in 0..(ResumeAt(m, lost) - 1) : n \in Seen \cup MovedPast(m, lost)
<1>1. m.seq \in Nat \cup {-1}
    BY FieldEpochs
<1>2. CASE lost
    <2>1. ResumeAt(m, lost) = 0 /\ MovedPast(m, lost) = {} /\ \A n \in 0..(0 - 1) : FALSE
        BY <1>2 DEF ResumeAt, MovedPast
    <2> QED
        BY <2>1
<1>3. CASE ~lost
    <2>1. ResumeAt(m, lost) = m.seq + 1 /\ m.seq + 1 \in Nat
        BY <1>1, <1>3 DEF ResumeAt
    <2>r. ResumeAt(m, lost) - 1 = m.seq
        BY <1>1, <1>3 DEF ResumeAt
    <2>2. CASE m.seq \in painted
        <3>1. MovedPast(m, lost) = {}
            BY <2>2 DEF MovedPast
        <3>2. \A n \in 0..m.seq : n = m.seq \/ n \in 0..(m.seq - 1)
            BY <1>1
        <3>3. \A n \in 0..m.seq : n \in Seen
            BY <2>2, <3>2, InvParts DEF SeenOK, Seen
        <3> QED
            BY <2>1, <2>r, <3>1, <3>3
    <2>3. CASE m.seq \notin painted
        <3>1. MovedPast(m, lost) = (0..m.seq) \ painted
            BY <1>3, <2>3 DEF MovedPast
        <3>2. (0..m.seq) \ painted \subseteq Int
            BY <1>1
        <3> QED
            BY <2>1, <2>r, <3>1, <3>2 DEF Seen
    <2> QED
        BY <2>2, <2>3
<1> QED
    BY <1>2, <1>3

\* A handler reads the open message: it closes, or greets with messages msgs.
LEMMA OpenEffect ==
    ASSUME PlayInv, NEW s \in Sockets, Open(s)
    PROVE  /\ h[s].pc = "accepted"
           /\ up' \in [Sockets -> Seq(Control)] /\ up[s] # <<>> /\ up'[s] = Tail(up[s])
           /\ \A r \in Sockets \ {s} : up'[r] = up[r]
           /\ app' \in App /\ app'.epoch = app.epoch /\ app'.store = app.store
           /\ h' \in [Sockets -> Handler] /\ h'[s].pc \in {"closing", "greet"}
           /\ h'[s].ref <= app.epoch
           /\ \A r \in Sockets \ {s} : h'[r] = h[r]
           /\ skipped \subseteq skipped' /\ skipped' \subseteq Int
           /\ \E msgs \in Seq(Message) :
                 /\ Emit(s, msgs)
                 /\ \A i \in 1..Len(msgs) : /\ msgs[i].type \notin {"frame", "epoch"}
                                            /\ msgs[i].epoch = app.epoch
                 /\ h'[s].pc = "greet" =>
                       /\ h'[s].ref = app.epoch
                       /\ \A x : InEpoch(msgs, Len(msgs) + 1, x, app.epoch)
                       /\ \A n \in 0..(h'[s].next - 1) : n \in Seen'
           /\ UNCHANGED <<resync, link, tab, painted, faults>>
<1> DEFINE m == Head(up[s])
<1>1. /\ h[s].pc = "accepted" /\ up[s] # <<>> /\ up' = [up EXCEPT ![s] = Tail(up[s])]
      /\ UNCHANGED <<resync, link, tab, painted, faults>>
    BY InvTypes DEF Open
<1>2. /\ app \in App /\ h \in [Sockets -> Handler] /\ up \in [Sockets -> Seq(Control)]
      /\ down \in [Sockets -> Seq(Message)] /\ app.epoch \in Nat /\ skipped \subseteq Int
    BY InvTypes
<1>3. Tail(up[s]) \in Seq(Control) /\ m \in Control
    <2>1. up[s] \in Seq(Control)
        BY <1>2
    <2> QED
        BY <1>1, <2>1, TailType
<1>4. /\ up' \in [Sockets -> Seq(Control)] /\ up'[s] = Tail(up[s])
      /\ \A r \in Sockets \ {s} : up'[r] = up[r]
    BY <1>1, <1>2, <1>3
<1>5. CASE /\ app.viewer /\ h' = [h EXCEPT ![s].pc = "closing"]
           /\ UNCHANGED <<app, down, skipped>>
    <2> DEFINE x == [h[s] EXCEPT !.pc = "closing"]
    <2>1. x \in Handler /\ x.pc = "closing" /\ x.ref = h[s].ref
        BY <1>2 DEF Handler, HandlerStep
    <2>2. h' = [h EXCEPT ![s] = x]
        BY <1>2, <1>5
    <2> HIDE DEF x
    <2>3. /\ h' \in [Sockets -> Handler] /\ h'[s] = x
          /\ \A r \in Sockets \ {s} : h'[r] = h[r]
        BY <1>2, <2>1, <2>2
    <2>4. h[s].ref <= app.epoch
        BY InvParts
    <2>5. <<>> \in Seq(Message) /\ down[s] \o <<>> = down[s]
        BY <1>2
    <2>6. Emit(s, <<>>)
        BY <1>2, <1>5, <2>5 DEF Emit
    <2>7. \E msgs \in Seq(Message) :
             /\ Emit(s, msgs)
             /\ \A i \in 1..Len(msgs) : /\ msgs[i].type \notin {"frame", "epoch"}
                                        /\ msgs[i].epoch = app.epoch
        <3>1. \A i \in 1..Len(<<>>) : FALSE
            OBVIOUS
        <3> QED
            BY <2>5, <2>6, <3>1
    <2> QED
        BY <1>1, <1>2, <1>4, <1>5, <2>1, <2>3, <2>4, <2>7
<1>6. CASE ~(/\ app.viewer /\ h' = [h EXCEPT ![s].pc = "closing"]
             /\ UNCHANGED <<app, down, skipped>>)
    <2> DEFINE lost == m.epoch # app.epoch \/ (m.session /\ ~m.decoder)
               next == ResumeAt(m, lost)
               past == MovedPast(m, lost)
               fresh == lost \/ ~m.session
               again == m.session /\ lost
               x == [FreeHandler EXCEPT !.pc = "greet", !.ref = app.epoch,
                                        !.next = next, !.new = fresh]
               msgs == Greeting(app.epoch, again)
    <2>1. /\ app' = [app EXCEPT !.viewer = TRUE]
          /\ h' = [h EXCEPT ![s] = x] /\ Emit(s, msgs) /\ skipped' = skipped \cup past
        BY <1>6 DEF Open, Greeting
    <2>2. m.session \in BOOLEAN /\ m.decoder \in BOOLEAN
        BY <1>3 DEF Control
    <2>3. lost \in BOOLEAN /\ again \in BOOLEAN /\ fresh \in BOOLEAN
        BY <2>2
    <2>4. /\ next \in Nat /\ past \subseteq Int
          /\ \A n \in 0..(next - 1) : n \in Seen \cup past
        BY <1>3, <2>3, ResumeBehind
    <2> HIDE DEF lost, next, past, again, fresh
    <2>5. x \in Handler /\ x.pc = "greet" /\ x.ref = app.epoch /\ x.next = next
        BY <1>2, <2>3, <2>4 DEF FreeHandler, Handler, HandlerStep
    <2> HIDE DEF x
    <2>6. /\ h' \in [Sockets -> Handler] /\ h'[s] = x
          /\ \A r \in Sockets \ {s} : h'[r] = h[r]
        BY <1>2, <2>1, <2>5
    <2>7. app' \in App /\ app'.epoch = app.epoch /\ app'.store = app.store
        BY <1>2, <2>1 DEF App
    <2>8. /\ msgs \in Seq(Message)
          /\ \A i \in 1..Len(msgs) : msgs[i].type \notin {"frame", "epoch"}
                                     /\ msgs[i].epoch = app.epoch
          /\ \A z : InEpoch(msgs, Len(msgs) + 1, z, app.epoch)
        BY <1>2, <2>3, GreetingType
    <2> HIDE DEF msgs
    <2>9. x.ref <= app.epoch
        BY <1>2, <2>5
    <2>10. skipped \subseteq skipped' /\ skipped' \subseteq Int
        BY <1>2, <2>1, <2>4
    <2>11. \A n \in 0..(x.next - 1) : n \in Seen'
        BY <1>1, <2>1, <2>4, <2>5 DEF Seen
    <2>12. \E ms \in Seq(Message) :
             /\ Emit(s, ms)
             /\ \A i \in 1..Len(ms) : /\ ms[i].type \notin {"frame", "epoch"}
                                      /\ ms[i].epoch = app.epoch
             /\ h'[s].pc = "greet" =>
                   /\ h'[s].ref = app.epoch
                   /\ \A z : InEpoch(ms, Len(ms) + 1, z, app.epoch)
                   /\ \A n \in 0..(h'[s].next - 1) : n \in Seen'
        BY <2>1, <2>5, <2>6, <2>8, <2>11
    <2> QED
        BY <1>1, <1>4, <2>5, <2>6, <2>7, <2>9, <2>10, <2>12
<1> QED
    BY <1>5, <1>6

LEMMA OpenKeeps ==
    ASSUME PlayInv, NEW s \in Sockets, Open(s)
    PROVE  PlayInv'
<1>1. /\ h[s].pc = "accepted"
      /\ up' \in [Sockets -> Seq(Control)] /\ up[s] # <<>> /\ up'[s] = Tail(up[s])
      /\ \A r \in Sockets \ {s} : up'[r] = up[r]
      /\ app' \in App /\ app'.epoch = app.epoch
      /\ h' \in [Sockets -> Handler] /\ h'[s].pc \in {"closing", "greet"}
      /\ h'[s].ref <= app.epoch
      /\ \A r \in Sockets \ {s} : h'[r] = h[r]
      /\ skipped \subseteq skipped' /\ skipped' \subseteq Int
      /\ resync' = resync /\ link' = link /\ tab' = tab /\ painted' = painted
      /\ faults' = faults
    BY OpenEffect
<1>2. PICK msgs \in Seq(Message) :
          /\ Emit(s, msgs)
          /\ \A i \in 1..Len(msgs) : /\ msgs[i].type \notin {"frame", "epoch"}
                                     /\ msgs[i].epoch = app.epoch
          /\ h'[s].pc = "greet" =>
                /\ h'[s].ref = app.epoch
                /\ \A x : InEpoch(msgs, Len(msgs) + 1, x, app.epoch)
                /\ \A n \in 0..(h'[s].next - 1) : n \in Seen'
    BY OpenEffect
<1>3. /\ app.epoch \in Nat /\ app'.epoch \in Nat /\ app.epoch <= app'.epoch
      /\ Grows(app.epoch, Seen, app'.epoch, Seen') /\ Seen \subseteq Seen'
    <2>1. app.epoch \in Nat /\ app'.epoch \in Nat /\ app.epoch <= app'.epoch
        BY <1>1, InvTypes
    <2>2. Seen \subseteq Seen'
        BY <1>1 DEF Seen
    <2> QED
        BY <1>1, <2>1, <2>2 DEF Grows
<1>4. /\ down' \in [Sockets -> Seq(Message)]
      /\ \A r \in Sockets \ {s} : down'[r] = down[r]
      /\ link[s] = "open" => down'[s] = down[s] \o msgs
      /\ link[s] # "open" => down'[s] = down[s]
    BY <1>2, InvTypes, EmitType
<1>5. link[s] = "open" => down[s] = <<>> /\ down'[s] = msgs
    <2>1. link[s] = "open" => down[s] = <<>>
        BY <1>1, InvParts DEF PositionOK
    <2>2. <<>> \o msgs = msgs
        BY <1>2
    <2> QED
        BY <1>4, <2>1, <2>2
<1>6. TypeOK'
    BY <1>1, <1>4, InvTypes DEF TypeOK
<1>7. LinksOK'
    <2>1. \A r \in Sockets : link[r] \in {"free", "closed"} => h'[r].pc = "free"
        BY <1>1, InvParts DEF LinksOK
    <2> QED
        BY <1>1, <2>1, InvParts DEF LinksOK
<1>8. SlotHasOwner'
    BY <1>1 DEF SlotHasOwner
<1>9. InOrder(msgs) /\ \A e, r : Placed(msgs, e, r)
    BY <1>2, OrderQuiet
<1>10. StreamInOrder'
    BY <1>4, <1>5, <1>9, InvParts, StreamIsInOrderNext
<1>11. PositionOK'
    BY <1>1, <1>4, <1>5, <1>9, InvParts DEF PositionOK
<1>12. EpochsOK'
    <2>1. \A r \in Sockets : h'[r].ref \in Nat /\ h'[r].ref <= app.epoch
        <3>1. \A r \in Sockets : h'[r] \in Handler
            BY <1>1
        <3> QED
            BY <1>1, <3>1, HandlerFields, InvParts
    <2>2. \A i \in 1..Len(msgs) : msgs[i] \in Message /\ Due(msgs[i], app.epoch)
        BY <1>2, <1>3 DEF Due
    <2>3. \A r \in Sockets : \A i \in 1..Len(down'[r]) :
              down'[r][i] \in Message /\ Due(down'[r][i], app.epoch)
        BY <1>4, <1>5, <2>2, DownSame
    <2> QED
        BY <1>1, <1>3, <2>1, <2>3, EpochsKept
<1>13. SeenOK'
    BY <1>1, <1>3, InvParts DEF SeenOK
<1>14. AcksOK'
    BY <1>1, AcksTaken
<1>15. KnownOK'
    BY <1>1, <1>3, PlayersKept DEF KnownOK
<1>16. StreamOK'
    <2>1. SUFFICES ASSUME NEW t \in Tabs, tab'[t].sock # NoSocket
                   PROVE  StreamFor(app'.epoch, Seen', down'[tab'[t].sock], tab'[t],
                                    link'[tab'[t].sock] = "open", h'[tab'[t].sock])
        BY DEF StreamOK
    <2>2. PICK r \in Sockets : tab[t].sock = r /\ tab'[t].sock = r /\ r # NoSocket
        BY <1>1, <2>1, HoldsLink
    <2>3. CASE r # s
        <3>1. StillHas(tab[t], app'.epoch, Seen', tab'[t])
            BY <1>1 DEF StillHas
        <3> QED
            BY <1>1, <1>3, <1>4, <2>2, <2>3, <3>1, StreamKept
    <2>4. CASE r = s
        <3>1. link[s] = "open"
            <4>1. link[s] \in {"open", "closed"}
                BY <2>2, <2>4, HoldsLink
            <4>2. link[s] # "closed"
                BY <1>1, InvParts DEF LinksOK
            <4> QED
                BY <4>1, <4>2
        <3>2. down'[s] = msgs
            BY <1>5, <3>1
        <3>3. AllReady(app'.epoch, Seen', msgs, tab'[t])
            BY <1>2 DEF AllReady
        <3>4. ASSUME h'[s].pc \in Active
              PROVE  Ready(app'.epoch, Seen', msgs, Len(msgs) + 1, tab'[t], h'[s].ref,
                           Reach(h'[s]))
            <4>1. h'[s].pc = "greet"
                BY <1>1, <3>4, ActiveSteps
            <4>2. Reach(h'[s]) = h'[s].next
                BY <4>1 DEF Reach
            <4>3. \A n \in 0..(h'[s].next - 1) : n \in Seen'
                BY <1>2, <4>1
            <4>4. InEpoch(msgs, Len(msgs) + 1, tab'[t], h'[s].ref)
                BY <1>2, <4>1
            <4> QED
                BY <4>2, <4>3, <4>4 DEF Ready, Accounted
        <3> QED
            BY <2>2, <2>4, <3>2, <3>3, <3>4 DEF StreamFor
    <2> QED
        BY <2>3, <2>4
<1> QED
    BY <1>6, <1>7, <1>8, <1>10, <1>11, <1>12, <1>13, <1>14, <1>15, <1>16 DEF PlayInv

LEMMA CloseKeeps ==
    ASSUME PlayInv, NEW s \in Sockets, Close(s)
    PROVE  PlayInv'
<1>1. /\ h[s].pc = "closing" /\ app' = [app EXCEPT !.viewer = FALSE]
      /\ h' = [h EXCEPT ![s] = FreeHandler]
      /\ link' = [link EXCEPT ![s] = IF link[s] = "open" THEN "closed" ELSE "free"]
      /\ up' = [up EXCEPT ![s] = <<>>]
      /\ resync' = resync /\ down' = down /\ tab' = tab /\ painted' = painted
      /\ skipped' = skipped /\ faults' = faults
    BY InvTypes DEF Close
<1>2. /\ app \in App /\ h \in [Sockets -> Handler] /\ up \in [Sockets -> Seq(Control)]
      /\ link \in [Sockets -> {"free", "open", "gone", "closed"}] /\ app.epoch \in Nat
    BY InvTypes
<1>3. app' \in App /\ app'.epoch = app.epoch /\ ~app'.viewer
    BY <1>1, <1>2 DEF App
<1>4. History
    BY <1>1, <1>3 DEF History
<1>5. /\ app'.epoch \in Nat /\ app.epoch <= app'.epoch
      /\ Grows(app.epoch, Seen, app'.epoch, Seen') /\ SeenOK'
    BY <1>3, <1>4, HistoryGrows
<1>6. FreeHandler \in Handler /\ FreeHandler.pc = "free" /\ FreeHandler.ref = 0
    BY DEF FreeHandler, Handler, HandlerStep
<1>7. /\ h' \in [Sockets -> Handler] /\ h'[s].pc = "free" /\ h'[s].ref = 0
      /\ \A r \in Sockets \ {s} : h'[r] = h[r]
    BY <1>1, <1>2, <1>6
<1>8. /\ link' \in [Sockets -> {"free", "open", "gone", "closed"}]
      /\ link'[s] = (IF link[s] = "open" THEN "closed" ELSE "free")
      /\ \A r \in Sockets \ {s} : link'[r] = link[r]
    BY <1>1, <1>2
<1>9. /\ up' \in [Sockets -> Seq(Control)] /\ up'[s] = <<>>
      /\ \A r \in Sockets \ {s} : up'[r] = up[r]
    BY <1>1, <1>2, EmptyStream
<1>10. TypeOK'
    BY <1>1, <1>3, <1>7, <1>8, <1>9, InvTypes DEF TypeOK
<1>11. LinksOK'
    <2>1. \A r \in Sockets : link'[r] \in {"free", "closed"} => h'[r].pc = "free"
        BY <1>7, <1>8, InvParts DEF LinksOK
    <2>2. link[s] # "closed"
        BY <1>1, InvParts DEF LinksOK
    <2>3. ASSUME NEW t \in Tabs, tab[t].sock # NoSocket
          PROVE  link'[tab[t].sock] \in {"open", "closed"}
        <3>1. tab[t].sock \in Sockets /\ link[tab[t].sock] \in {"open", "closed"}
            BY <2>3, HoldsLink
        <3> QED
            BY <1>8, <2>2, <3>1
    <2> QED
        BY <1>1, <2>1, <2>3, InvParts DEF LinksOK
<1>12. SlotHasOwner'
    BY <1>3 DEF SlotHasOwner
<1>13. StreamInOrder'
    BY <1>1, InvParts, StreamIsInOrderNext
<1>14. PositionOK'
    <2>1. link'[s] # "open"
        BY <1>8
    <2>2. \A r \in Sockets : link'[r] = "open" =>
              r # s /\ link[r] = "open" /\ h'[r] = h[r] /\ down'[r] = down[r]
        BY <1>1, <1>7, <1>8, <2>1
    <2> QED
        BY <2>2, InvParts DEF PositionOK
<1>15. EpochsOK'
    <2>1. 0 \in Nat /\ 0 <= app.epoch
        BY <1>2
    <2>2. \A r \in Sockets : h'[r].ref \in Nat /\ h'[r].ref <= app.epoch
        BY <1>7, <2>1, InvTypes, InvParts
    <2> QED
        BY <1>1, <1>3, <1>5, <2>2, DownSame, EpochsKept
<1>16. AcksOK'
    <2>1. \A r \in Sockets : up'[r] = up[r] \/ up'[r] = <<>>
        BY <1>9
    <2> QED
        BY <1>1, <1>3, <2>1, AcksTaken
<1>17. KnownOK'
    BY <1>1, <1>5, PlayersKept DEF KnownOK
<1>18. StreamOK'
    <2>1. SUFFICES ASSUME NEW t \in Tabs, tab'[t].sock # NoSocket
                   PROVE  StreamFor(app'.epoch, Seen', down'[tab'[t].sock], tab'[t],
                                    link'[tab'[t].sock] = "open", h'[tab'[t].sock])
        BY DEF StreamOK
    <2>2. PICK r \in Sockets : tab[t].sock = r /\ tab'[t].sock = r /\ r # NoSocket
        BY <1>1, <2>1, HoldsLink
    <2>3. StillHas(tab[t], app'.epoch, Seen', tab'[t])
        BY <1>1 DEF StillHas
    <2>4. link'[r] = "open" => link[r] = "open" /\ h'[r] = h[r]
        BY <1>7, <1>8
    <2> QED
        BY <1>1, <1>5, <2>2, <2>3, <2>4, StreamKept
<1> QED
    BY <1>5, <1>10, <1>11, <1>12, <1>13, <1>14, <1>15, <1>16, <1>17, <1>18 DEF PlayInv

-----------------------------------------------------------------------------
(* Players                                                                 *)

\* Player x after message m: see OnMessage.
Reads(x, m) ==
    LET f == [epoch |-> m.epoch, seq |-> m.seq]
    IN  CASE m.type = "session" ->
               [x EXCEPT !.session = TRUE, !.epoch = m.epoch]
          [] m.type = "unavailable" ->
               [x EXCEPT !.known = {}, !.decoding = None]
          [] m.type = "epoch" ->
               [x EXCEPT !.epoch = m.epoch, !.last = -1, !.known = {},
                         !.decoding = None, !.decoder = FALSE]
          [] m.type = "frame" /\ m.epoch = x.epoch /\ f \notin x.known ->
               [x EXCEPT !.known = x.known \cup {f}, !.decoder = TRUE,
                         !.decoding = IF x.decoding = None THEN f ELSE x.decoding]
          [] OTHER -> x

LEMMA NoneFrame == None \in Frames /\ None.seq = -1 /\ None.epoch = 0
    BY DEF None, Frames

\* An empty player misses nothing.
LEMMA EmptyPlayer ==
    ASSUME NEW ep, NEW S, NEW x, x.known = {}, x.decoding = None
    PROVE  PlayerOK(ep, S, x)
    BY DEF PlayerOK

LEMMA PlayerReads ==
    ASSUME NEW ep, NEW S, NEW x \in Tab, NEW m \in Message, PlayerOK(ep, S, x),
           m.type = "frame" =>
               /\ m.epoch = x.epoch /\ m.seq \in Nat
               /\ \A n \in 0..(m.seq - 1) :
                     Accounted(ep, S, m.epoch, n)
                     \/ [epoch |-> m.epoch, seq |-> n] \in x.known
    PROVE  /\ Reads(x, m) \in Tab /\ Reads(x, m).sock = x.sock
           /\ Took(x, m, Reads(x, m)) /\ PlayerOK(ep, S, Reads(x, m))
           /\ \A g \in Reads(x, m).known :
                 \/ g \in x.known
                 \/ m.type = "frame" /\ g = [epoch |-> m.epoch, seq |-> m.seq]
<1> DEFINE f == [epoch |-> m.epoch, seq |-> m.seq]
           y == Reads(x, m)
<1>1. /\ m.epoch \in Nat /\ m.seq \in Nat \cup {-1} /\ f \in Frames
      /\ f.epoch = m.epoch /\ f.seq = m.seq
    BY DEF Message, Frames
<1>2. x.known \in SUBSET Frames /\ x.decoding \in Frames
    BY TabFields
<1>3. f = [epoch |-> m.epoch, seq |-> m.seq]
    OBVIOUS
<1>4. CASE m.type = "session"
    <2> DEFINE z == [x EXCEPT !.session = TRUE, !.epoch = m.epoch]
    <2>1. y = z
        BY <1>4 DEF Reads
    <2>2. /\ z \in Tab /\ z.sock = x.sock /\ z.known = x.known /\ z.epoch = m.epoch
          /\ z.decoding = x.decoding
        BY <1>1 DEF Tab
    <2> HIDE DEF z, y
    <2>3. Took(x, m, z)
        BY <1>4, <2>2 DEF Took, MovesTab
    <2>4. PlayerOK(ep, S, z)
        BY <2>2 DEF PlayerOK
    <2> QED
        BY <2>1, <2>2, <2>3, <2>4 DEF y
<1>5. CASE m.type = "unavailable"
    <2> DEFINE z == [x EXCEPT !.known = {}, !.decoding = None]
    <2>1. y = z
        BY <1>5 DEF Reads
    <2>2. /\ z \in Tab /\ z.sock = x.sock /\ z.known = {} /\ z.epoch = x.epoch
          /\ z.decoding = None
        BY NoneFrame DEF Tab
    <2> HIDE DEF z, y
    <2>3. Took(x, m, z)
        BY <1>5, <2>2 DEF Took, MovesTab, Empties
    <2>4. PlayerOK(ep, S, z)
        BY <2>2, EmptyPlayer
    <2> QED
        BY <2>1, <2>2, <2>3, <2>4 DEF y
<1>6. CASE m.type = "epoch"
    <2> DEFINE z == [x EXCEPT !.epoch = m.epoch, !.last = -1, !.known = {},
                              !.decoding = None, !.decoder = FALSE]
    <2>1. y = z
        BY <1>6 DEF Reads
    <2>2. /\ z \in Tab /\ z.sock = x.sock /\ z.known = {} /\ z.epoch = m.epoch
          /\ z.decoding = None
        BY <1>1, NoneFrame DEF Tab
    <2> HIDE DEF z, y
    <2>3. Took(x, m, z)
        BY <1>6, <2>2 DEF Took, MovesTab, Empties
    <2>4. PlayerOK(ep, S, z)
        BY <2>2, EmptyPlayer
    <2> QED
        BY <2>1, <2>2, <2>3, <2>4 DEF y
<1>7. CASE m.type = "frame" /\ f \notin x.known
    <2> DEFINE all == x.known \cup {f}
               dec == IF x.decoding = None THEN f ELSE x.decoding
               z == [x EXCEPT !.known = all, !.decoder = TRUE, !.decoding = dec]
    <2>1. y = z
        BY <1>7 DEF Reads
    <2>2. all \in SUBSET Frames /\ dec \in Frames
        BY <1>1, <1>2
    <2>3. x.known \subseteq all /\ f \in all /\ \A g \in all : g \in x.known \/ g = f
        OBVIOUS
    <2>4. dec = IF x.decoding = None THEN f ELSE x.decoding
        OBVIOUS
    <2>5. f # None
        BY <1>1, <1>7, NoneFrame
    <2> HIDE DEF all, dec
    <2>6. /\ z \in Tab /\ z.sock = x.sock /\ z.known = all /\ z.epoch = x.epoch
          /\ z.decoding = dec
        BY <2>2 DEF Tab
    <2> HIDE DEF z, y
    <2>7. Took(x, m, z)
        BY <1>3, <1>7, <2>3, <2>6 DEF Took, MovesTab, Empties
    <2> HIDE DEF f
    <2>8. \A g \in all : \A n \in 0..(g.seq - 1) :
              Accounted(ep, S, g.epoch, n) \/ [epoch |-> g.epoch, seq |-> n] \in all
        BY <1>1, <1>7, <2>3 DEF PlayerOK
    <2>9. dec # None /\ dec \in all
        BY <2>3, <2>4, <2>5 DEF PlayerOK
    <2>10. \A n \in 0..(dec.seq - 1) : Accounted(ep, S, dec.epoch, n)
        <3>1. CASE x.decoding = None
            <4>1. x.known = {} /\ dec = f
                BY <2>4, <3>1 DEF PlayerOK
            <4> QED
                BY <1>1, <1>7, <4>1
        <3>2. CASE x.decoding # None
            BY <2>4, <3>2 DEF PlayerOK
        <3> QED
            BY <3>1, <3>2
    <2>11. PlayerOK(ep, S, z)
        BY <2>6, <2>8, <2>9, <2>10 DEF PlayerOK
    <2> QED
        BY <1>3, <1>7, <2>1, <2>3, <2>6, <2>7, <2>11 DEF y
<1>8. CASE m.type = "fault" \/ (m.type = "frame" /\ f \in x.known)
    <2>1. y = x
        BY <1>8 DEF Reads
    <2> HIDE DEF y
    <2>2. Took(x, m, x)
        BY <1>3, <1>8 DEF Took, MovesTab, Empties
    <2> QED
        BY <2>1, <2>2 DEF y
<1>9. m.type \in {"session", "unavailable", "epoch", "fault", "frame"}
    BY DEF Message
<1> HIDE DEF f, y
<1> QED
    BY <1>4, <1>5, <1>6, <1>7, <1>8, <1>9

\* What is painted next has nothing before it that is not accounted for.
LEMMA PlayerPaints ==
    ASSUME NEW ep \in Nat, NEW S, NEW S2, S \subseteq S2, NEW x \in Tab, PlayerOK(ep, S, x),
           \A g \in x.known : g \in Frames /\ g.seq \in Nat /\ g.epoch \in Nat /\ g.epoch <= ep,
           x.decoding # None, x.decoding.epoch = ep => x.decoding.seq \in S2,
           NEW g \in HeadOf(x.known \ {x.decoding}),
           NEW y, y.known = x.known \ {x.decoding}, y.decoding = g
    PROVE  /\ g \in Frames /\ PlayerOK(ep, S2, y)
           /\ \A k \in x.known : k \in y.known \/ Accounted(ep, S2, k.epoch, k.seq)
<1> DEFINE f == x.decoding
           rest == x.known \ {f}
<1>1. f \in x.known /\ \A n \in 0..(f.seq - 1) : Accounted(ep, S, f.epoch, n)
    BY DEF PlayerOK
<1>2. f \in Frames /\ f.seq \in Nat /\ f.epoch \in Nat /\ f.epoch <= ep
    BY <1>1
<1>3. Accounted(ep, S2, f.epoch, f.seq)
    BY <1>2 DEF Accounted
<1>4. \A e, n : Accounted(ep, S, e, n) => Accounted(ep, S2, e, n)
    BY DEF Accounted
<1>5. /\ rest \subseteq x.known /\ \A k \in x.known : k \in rest \/ k = f
      /\ y.known = rest /\ g \in HeadOf(rest)
    OBVIOUS
<1> HIDE DEF rest, f
<1>6. \A k \in rest : \A n \in 0..(k.seq - 1) :
          Accounted(ep, S2, k.epoch, n) \/ [epoch |-> k.epoch, seq |-> n] \in rest
    <2>1. SUFFICES ASSUME NEW k \in rest, NEW n \in 0..(k.seq - 1),
                          [epoch |-> k.epoch, seq |-> n] \notin rest
                   PROVE  Accounted(ep, S2, k.epoch, n)
        OBVIOUS
    <2> DEFINE p == [epoch |-> k.epoch, seq |-> n]
    <2>2. Accounted(ep, S, k.epoch, n) \/ p \in x.known
        BY <1>5 DEF PlayerOK
    <2>3. p \in x.known => p = f
        BY <1>5, <2>1
    <2>4. p = f => f.epoch = k.epoch /\ f.seq = n
        OBVIOUS
    <2> HIDE DEF p
    <2> QED
        BY <1>3, <1>4, <2>2, <2>3, <2>4
<1>7. CASE rest = {}
    <2>1. g = None
        BY <1>5, <1>7 DEF HeadOf
    <2>2. PlayerOK(ep, S2, y)
        BY <1>5, <1>7, <2>1, EmptyPlayer
    <2> QED
        BY <1>3, <1>5, <2>1, <2>2, NoneFrame
<1>8. CASE rest # {}
    <2>1. /\ g \in rest
          /\ \A k \in rest : g.seq < k.seq \/ (g.seq = k.seq /\ g.epoch <= k.epoch)
        BY <1>5, <1>8 DEF HeadOf
    <2>2. g \in Frames /\ g.seq \in Nat /\ g.epoch \in Nat
        BY <1>5, <2>1
    <2>3. g # None
        BY <2>2, NoneFrame
    <2>4. ASSUME NEW n \in 0..(g.seq - 1)
          PROVE  Accounted(ep, S2, g.epoch, n)
        <3> DEFINE p == [epoch |-> g.epoch, seq |-> n]
        <3>1. p.seq = n /\ n < g.seq /\ n \in Nat
            BY <2>2, <2>4
        <3>2. ~(g.seq < n) /\ g.seq # n
            BY <2>2, <3>1
        <3>3. p \in rest => g.seq < p.seq \/ g.seq = p.seq
            BY <2>1
        <3>4. p \notin rest
            BY <3>1, <3>2, <3>3
        <3> QED
            BY <1>6, <2>1, <3>4
    <2>5. PlayerOK(ep, S2, y)
        BY <1>5, <1>6, <2>1, <2>3, <2>4 DEF PlayerOK
    <2> QED
        BY <1>3, <1>5, <2>2, <2>5
<1> QED
    BY <1>7, <1>8

-----------------------------------------------------------------------------
(* Every step keeps the invariant: the browser                             *)

LEMMA CtlType ==
    ASSUME NEW type \in {"open", "presented", "jump", "stop"}, NEW epoch \in Nat,
           NEW seq \in Nat \cup {-1}
    PROVE  /\ Ctl(type, epoch, seq) \in Control
           /\ Ctl(type, epoch, seq).type = type /\ Ctl(type, epoch, seq).epoch = epoch
           /\ Ctl(type, epoch, seq).seq = seq
    BY DEF Ctl, Control

\* What is added to the messages of a browser: an acknowledgement is of what it
\* painted.
LEMMA SayKeeps ==
    ASSUME PlayInv, NEW t \in Tabs, NEW m \in Control, Say(t, m), app' = app,
           painted \subseteq painted', Honest(app.epoch, painted', m)
    PROVE  up' \in [Sockets -> Seq(Control)] /\ AcksOK'
<1>1. up \in [Sockets -> Seq(Control)]
    BY InvTypes
<1>2. /\ up' \in [Sockets -> Seq(Control)]
      /\ \A s \in Sockets : up'[s] = up[s] \/ up'[s] = Append(up[s], m)
    <2>1. \A s \in Sockets : Append(up[s], m) \in Seq(Control)
        BY <1>1
    <2> QED
        BY <1>1, <2>1 DEF Say
<1>3. ASSUME NEW g \in Control, Honest(app.epoch, painted, g)
      PROVE  Honest(app.epoch, painted', g)
    BY <1>3 DEF Honest
<1>4. app'.epoch = app.epoch
    OBVIOUS
<1>5. (\A s \in Sockets : \A i \in 1..Len(up'[s]) : Honest(app.epoch, painted', up'[s][i]))
      => AcksOK'
    BY <1>4 DEF AcksOK, Honest
<1>6. SUFFICES ASSUME NEW s \in Sockets, NEW i \in 1..Len(up'[s])
               PROVE  Honest(app.epoch, painted', up'[s][i])
    BY <1>2, <1>5
<1>7. up[s] \in Seq(Control) /\ \A j \in 1..Len(up[s]) : Honest(app.epoch, painted, up[s][j])
    BY <1>1 DEF PlayInv, AcksOK
<1>8. (i \in 1..Len(up[s]) /\ up'[s][i] = up[s][i]) \/ up'[s][i] = m
    <2>1. CASE up'[s] = up[s]
        BY <1>6, <2>1
    <2>2. CASE up'[s] = Append(up[s], m)
        <3> DEFINE d == up[s]
        <3>1. d \in Seq(Control) /\ i \in 1..Len(Append(d, m))
            BY <1>6, <1>7, <2>2
        <3> HIDE DEF d
        <3>2. /\ Len(d) \in Nat /\ Len(Append(d, m)) = Len(d) + 1
              /\ \A k \in 1..Len(d) : Append(d, m)[k] = d[k]
              /\ Append(d, m)[Len(d) + 1] = m
            BY <3>1
        <3>3. i \in 1..Len(d) \/ i = Len(d) + 1
            BY <3>1, <3>2
        <3>4. (i \in 1..Len(d) /\ Append(d, m)[i] = d[i]) \/ Append(d, m)[i] = m
            BY <3>2, <3>3
        <3> QED
            BY <2>2, <3>4 DEF d
    <2> QED
        BY <1>2, <2>1, <2>2
<1>9. CASE i \in 1..Len(up[s]) /\ up'[s][i] = up[s][i]
    <2>1. up[s][i] \in Control
        BY <1>7, <1>9
    <2> QED
        BY <1>3, <1>7, <1>9, <2>1
<1>10. CASE up'[s][i] = m
    BY <1>10
<1> QED
    BY <1>8, <1>9, <1>10

\* Clicks and an open message promise nothing.
LEMMA ClickKeeps ==
    ASSUME PlayInv, NEW t \in Tabs, NEW type \in {"jump", "stop"},
           Say(t, Ctl(type, 0, -1)), app' = app, painted' = painted
    PROVE  up' \in [Sockets -> Seq(Control)] /\ AcksOK'
<1> DEFINE m == Ctl(type, 0, -1)
<1>1. m \in Control /\ m.type # "presented"
    BY CtlType
<1>2. Say(t, m)
    OBVIOUS
<1> HIDE DEF m
<1>3. Honest(app.epoch, painted', m)
    BY <1>1 DEF Honest
<1> QED
    BY <1>1, <1>2, <1>3, SayKeeps

LEMMA FaultType ==
    ASSUME PlayInv, NEW kind, Fault(kind)
    PROVE  faults' \in 0..MaxFaults
    BY InvTypes, PlaybackAssumption DEF Fault, PlaybackAssumption

LEMMA SameLinks ==
    ASSUME PlayInv, link' = link, h' = h, \A t \in Tabs : tab'[t].sock = tab[t].sock
    PROVE  LinksOK'
<1>1. LinksOK
    BY DEF PlayInv
<1> QED
    BY <1>1 DEF LinksOK

\* The messages to a browser are thrown away with its connection.
LEMMA DownCleared ==
    ASSUME PlayInv, NEW s \in Sockets, down' = [down EXCEPT ![s] = <<>>],
           \A r \in Sockets \ {s} : link'[r] = link[r] /\ h'[r] = h[r]
    PROVE  /\ down' \in [Sockets -> Seq(Message)] /\ down'[s] = <<>>
           /\ \A r \in Sockets \ {s} : down'[r] = down[r]
           /\ StreamInOrder' /\ PositionOK'
           /\ \A r \in Sockets : \A i \in 1..Len(down'[r]) :
                 down'[r][i] \in Message /\ Due(down'[r][i], app.epoch)
<1>1. /\ down' \in [Sockets -> Seq(Message)] /\ down'[s] = <<>>
      /\ \A r \in Sockets \ {s} : down'[r] = down[r]
    BY InvTypes, EmptyStream
<1>2. StreamInOrder'
    BY <1>1, EmptyStream, InvParts, StreamIsInOrderNext
<1>3. PositionOK'
    BY <1>1, EmptyStream, InvParts DEF PositionOK
<1>4. \A i \in 1..Len(down'[s]) : FALSE
    BY <1>1, EmptyStream
<1> QED
    BY <1>1, <1>2, <1>3, <1>4, DownSame

\* Only tab t changes, and nothing that the others see.
LEMMA OtherTabs ==
    ASSUME PlayInv, app' = app, Seen \subseteq Seen', NEW t \in Tabs,
           \A u \in Tabs \ {t} : tab'[u] = tab[u],
           \A u \in Tabs \ {t} : \A r \in Sockets : tab[u].sock = r /\ r # NoSocket =>
               down'[r] = down[r] /\ link'[r] = link[r] /\ h'[r] = h[r],
           PlayerOK(app.epoch, Seen', tab'[t]),
           \A s \in Sockets : tab'[t].sock = s /\ s # NoSocket =>
               StreamFor(app.epoch, Seen', down'[s], tab'[t], link'[s] = "open", h'[s]),
           tab'[t].sock # NoSocket => tab'[t].sock \in Sockets
    PROVE  KnownOK' /\ StreamOK'
<1>1. /\ app'.epoch = app.epoch /\ app.epoch \in Nat /\ app'.epoch \in Nat
      /\ Grows(app.epoch, Seen, app'.epoch, Seen')
    BY InvTypes DEF Grows
<1>2. ASSUME NEW u \in Tabs
      PROVE  PlayerOK(app'.epoch, Seen', tab'[u])
    <2>1. CASE u = t
        BY <1>1, <2>1
    <2>2. CASE u # t
        BY <1>1, <2>2, PlayersKept
    <2> QED
        BY <2>1, <2>2
<1>3. ASSUME NEW u \in Tabs, tab'[u].sock # NoSocket
      PROVE  StreamFor(app'.epoch, Seen', down'[tab'[u].sock], tab'[u],
                       link'[tab'[u].sock] = "open", h'[tab'[u].sock])
    <2>1. CASE u = t
        BY <1>1, <1>3, <2>1
    <2>2. CASE u # t
        <3>1. PICK r \in Sockets : tab[u].sock = r /\ tab'[u].sock = r /\ r # NoSocket
            BY <1>3, <2>2, HoldsLink
        <3>2. down'[r] = down[r] /\ link'[r] = link[r] /\ h'[r] = h[r]
            BY <2>2, <3>1
        <3>3. StillHas(tab[u], app'.epoch, Seen', tab'[u])
            BY <2>2 DEF StillHas
        <3> QED
            BY <1>1, <3>1, <3>2, <3>3, StreamKept
    <2> QED
        BY <2>1, <2>2
<1> QED
    BY <1>2, <1>3 DEF KnownOK, StreamOK

\* The stream of a tab that keeps its connection.
LEMMA TabStream ==
    ASSUME PlayInv, app' = app, Seen \subseteq Seen', NEW t \in Tabs, NEW s \in Sockets,
           tab[t].sock = s, s # NoSocket, StillHas(tab[t], app.epoch, Seen', tab'[t]),
           down' = down, link' = link, h' = h
    PROVE  StreamFor(app.epoch, Seen', down'[s], tab'[t], link'[s] = "open", h'[s])
<1>1. app'.epoch = app.epoch /\ app'.epoch \in Nat
    BY InvTypes
<1>2. Grows(app.epoch, Seen, app'.epoch, Seen')
    BY <1>1 DEF Grows
<1>3. StillHas(tab[t], app'.epoch, Seen', tab'[t])
    BY <1>1
<1>4. StreamFor(app'.epoch, Seen', down'[s], tab'[t], link'[s] = "open", h'[s])
    BY <1>1, <1>2, <1>3, StreamKept
<1> QED
    BY <1>1, <1>4

\* A tab without a connection, or with one on which nothing was sent.
LEMMA QuietStream ==
    ASSUME NEW ep, NEW S, NEW x, NEW open, NEW y, y.pc \notin Active
    PROVE  StreamFor(ep, S, <<>>, x, open, y)
<1>1. \A j \in 1..Len(<<>>) : FALSE
    BY EmptyStream
<1> QED
    BY <1>1 DEF StreamFor, AllReady

LEMMA OpenSocketKeeps ==
    ASSUME PlayInv, NEW t \in Tabs, NEW s \in Sockets, OpenSocket(t, s)
    PROVE  PlayInv'
<1> DEFINE first == [type |-> "open", epoch |-> tab[t].epoch, seq |-> tab[t].last,
                     session |-> tab[t].session, decoder |-> tab[t].decoder]
           jump == Ctl("jump", 0, -1)
           rest == IF tab[t].jump THEN <<jump>> ELSE <<>>
           said == <<first>> \o rest
           x == [tab[t] EXCEPT !.sock = s, !.jump = FALSE]
           y == [h[s] EXCEPT !.pc = "accepted"]
<1>1. /\ tab[t].sock = NoSocket /\ link[s] = "free"
      /\ tab' = [tab EXCEPT ![t].sock = s, ![t].jump = FALSE]
      /\ link' = [link EXCEPT ![s] = "open"]
      /\ up' = [up EXCEPT ![s] = said]
      /\ down' = [down EXCEPT ![s] = <<>>]
      /\ h' = [h EXCEPT ![s].pc = "accepted"]
      /\ UNCHANGED <<app, resync, painted, skipped, faults>>
    BY DEF OpenSocket
<1>2. LinksOK /\ SlotHasOwner /\ SeenOK
    BY InvParts
<1>3. tab[t] \in Tab
    BY InvTypes
<1>4. /\ said \in Seq(Control)
      /\ \A i \in 1..Len(said) : said[i].type # "presented"
    <2>1. first \in Control /\ first.type = "open"
        BY <1>3, TabFields DEF Control
    <2>2. jump \in Control /\ jump.type = "jump"
        BY CtlType
    <2> HIDE DEF first, jump
    <2>3. CASE tab[t].jump
        <3>1. <<first>> \in Seq(Control) /\ <<jump>> \in Seq(Control) /\ rest = <<jump>>
            BY <2>1, <2>2, <2>3
        <3>2. said \in Seq(Control) /\ Len(said) = 2 /\ said[1] = first /\ said[2] = jump
            BY <3>1
        <3> HIDE DEF said
        <3>3. \A i \in 1..Len(said) : said[i] = first \/ said[i] = jump
            BY <3>2
        <3> QED
            BY <2>1, <2>2, <3>2, <3>3
    <2>4. CASE ~tab[t].jump
        <3>1. <<first>> \in Seq(Control) /\ <<>> \in Seq(Control) /\ rest = <<>>
            BY <2>1, <2>4
        <3>2. said \in Seq(Control) /\ Len(said) = 1 /\ said[1] = first
            BY <3>1
        <3> HIDE DEF said
        <3>3. \A i \in 1..Len(said) : said[i] = first
            BY <3>2
        <3> QED
            BY <2>1, <3>2, <3>3
    <2> QED
        BY <2>3, <2>4
<1> HIDE DEF said
<1>5. /\ tab \in [Tabs -> Tab] /\ h \in [Sockets -> Handler]
      /\ up \in [Sockets -> Seq(Control)] /\ h[s] \in Handler
      /\ link \in [Sockets -> {"free", "open", "gone", "closed"}]
    BY InvTypes
<1>6. x \in Tab /\ x.sock = s /\ x.known = tab[t].known /\ x.decoding = tab[t].decoding
    BY <1>3 DEF Tab
<1>7. tab' = [tab EXCEPT ![t] = x]
    BY <1>1, <1>5
<1>8. y \in Handler /\ y.pc = "accepted" /\ y.ref = h[s].ref
    BY <1>5 DEF Handler, HandlerStep
<1>9. h' = [h EXCEPT ![s] = y]
    BY <1>1, <1>5
<1> HIDE DEF x, y
<1>10. /\ h' \in [Sockets -> Handler] /\ h'[s] = y
       /\ \A r \in Sockets \ {s} : h'[r] = h[r]
    BY <1>5, <1>8, <1>9
<1>11. /\ link' \in [Sockets -> {"free", "open", "gone", "closed"}] /\ link'[s] = "open"
       /\ \A r \in Sockets \ {s} : link'[r] = link[r]
    BY <1>1, <1>5
<1>12. /\ up' \in [Sockets -> Seq(Control)] /\ up'[s] = said
       /\ \A r \in Sockets \ {s} : up'[r] = up[r]
    BY <1>1, <1>4, <1>5
<1>13. /\ down' \in [Sockets -> Seq(Message)] /\ StreamInOrder' /\ PositionOK'
       /\ down'[s] = <<>> /\ \A r \in Sockets \ {s} : down'[r] = down[r]
       /\ \A r \in Sockets : \A i \in 1..Len(down'[r]) :
             down'[r][i] \in Message /\ Due(down'[r][i], app.epoch)
    BY <1>1, <1>10, <1>11, DownCleared
<1>14. /\ tab' \in [Tabs -> Tab] /\ tab'[t] = x
       /\ \A u \in Tabs \ {t} : tab'[u] = tab[u]
    BY <1>5, <1>6, <1>7
<1>15. TypeOK'
    BY <1>1, <1>10, <1>11, <1>12, <1>13, <1>14, InvTypes DEF TypeOK
<1>16. h[s].pc = "free" /\ \A u \in Tabs : tab[u].sock # NoSocket => tab[u].sock # s
    BY <1>1, <1>2 DEF LinksOK
<1>17. LinksOK'
    <2>1. \A r \in Sockets : link'[r] \in {"free", "closed"} => h'[r].pc = "free"
        BY <1>2, <1>10, <1>11 DEF LinksOK
    <2>2. ASSUME NEW u \in Tabs, tab'[u].sock # NoSocket
          PROVE  link'[tab'[u].sock] \in {"open", "closed"}
        <3>1. CASE u = t
            BY <1>6, <1>11, <1>14, <3>1
        <3>2. CASE u # t
            <4>1. tab[u].sock \in Sockets /\ link[tab[u].sock] \in {"open", "closed"}
                BY <1>14, <2>2, <3>2, HoldsLink
            <4> QED
                BY <1>11, <1>14, <1>16, <2>2, <3>2, <4>1
        <3> QED
            BY <3>1, <3>2
    <2>3. ASSUME NEW u \in Tabs, NEW v \in Tabs, tab'[u].sock = tab'[v].sock,
                 tab'[u].sock # NoSocket
          PROVE  u = v
        BY <1>2, <1>6, <1>14, <1>16, <2>3 DEF LinksOK
    <2> QED
        BY <2>1, <2>2, <2>3 DEF LinksOK
<1>18. SlotHasOwner'
    BY <1>1, <1>2, <1>10, <1>16 DEF SlotHasOwner
<1>19. AcksOK'
    <2>1. app'.epoch = app.epoch /\ painted' = painted
        BY <1>1
    <2>2. \A r \in Sockets : \A i \in 1..Len(up'[r]) :
              Honest(app'.epoch, painted', up'[r][i])
        <3>1. \A i \in 1..Len(up'[s]) : Honest(app'.epoch, painted', up'[s][i])
            BY <1>4, <1>12 DEF Honest
        <3>2. \A r \in Sockets \ {s} : \A i \in 1..Len(up'[r]) :
                  Honest(app'.epoch, painted', up'[r][i])
            BY <1>12, <2>1, InvParts DEF AcksOK
        <3> QED
            BY <3>1, <3>2
    <2> QED
        BY <2>2 DEF AcksOK
<1>20. EpochsOK'
    <2>1. \A r \in Sockets : h'[r].ref = h[r].ref
        BY <1>8, <1>10
    <2>2. \A r \in Sockets : h'[r].ref \in Nat /\ h'[r].ref <= app.epoch
        BY <2>1, InvTypes, InvParts
    <2>3. \A u \in Tabs : \A f \in tab'[u].known : f \in tab[u].known
        BY <1>6, <1>14
    <2>4. app' \in App /\ app.epoch <= app'.epoch
        BY <1>1, InvTypes
    <2> QED
        BY <1>13, <2>2, <2>3, <2>4, EpochsKept
<1>21. Seen' = Seen /\ SeenOK'
    BY <1>1, <1>2 DEF Seen, SeenOK
<1>22. KnownOK' /\ StreamOK'
    <2>1. app'.epoch = app.epoch /\ app'.epoch \in Nat
          /\ Grows(app.epoch, Seen, app'.epoch, Seen')
        BY <1>1, <1>21, InvTypes DEF Grows
    <2>2. PlayerOK(app'.epoch, Seen', tab'[t])
        BY <1>6, <1>14, <2>1, PlayersKept
    <2>3. h'[s].pc \notin Active
        BY <1>8, <1>10 DEF Active
    <2>4. StreamFor(app.epoch, Seen', down'[s], tab'[t], link'[s] = "open", h'[s])
        BY <1>13, <2>3, QuietStream
    <2>5. \A r \in Sockets \ {s} : link'[r] = link[r] /\ h'[r] = h[r]
        BY <1>10, <1>11
    <2>6. \A u \in Tabs \ {t} : \A r \in Sockets : tab[u].sock = r /\ r # NoSocket =>
              down'[r] = down[r] /\ link'[r] = link[r] /\ h'[r] = h[r]
        BY <1>13, <1>16, <2>5
    <2>7. tab'[t].sock = s
        BY <1>6, <1>14
    <2>8. app' = app /\ Seen \subseteq Seen' /\ PlayerOK(app.epoch, Seen', tab'[t])
        BY <1>1, <1>21, <2>1, <2>2
    <2>9. \A r \in Sockets : tab'[t].sock = r /\ r # NoSocket =>
              StreamFor(app.epoch, Seen', down'[r], tab'[t], link'[r] = "open", h'[r])
        BY <2>4, <2>7
    <2> QED
        BY <1>14, <2>6, <2>7, <2>8, <2>9, OtherTabs
<1> QED
    BY <1>13, <1>15, <1>17, <1>18, <1>19, <1>20, <1>21, <1>22 DEF PlayInv

\* The browser reads the first message.
LEMMA DownTaken ==
    ASSUME PlayInv, NEW s \in Sockets, down[s] # <<>>,
           down' = [down EXCEPT ![s] = Tail(@)], link' = link, h' = h
    PROVE  /\ down' \in [Sockets -> Seq(Message)] /\ down'[s] = Tail(down[s])
           /\ \A r \in Sockets \ {s} : down'[r] = down[r]
           /\ StreamInOrder' /\ PositionOK'
           /\ \A r \in Sockets : \A i \in 1..Len(down'[r]) :
                 down'[r][i] \in Message /\ Due(down'[r][i], app.epoch)
<1>1. down[s] \in Seq(Message) /\ InOrder(down[s])
    BY InvTypes, InvParts
<1>2. /\ Tail(down[s]) \in Seq(Message)
      /\ InOrder(Tail(down[s]))
      /\ \A e, r : Placed(down[s], e, r) => Placed(Tail(down[s]), e, r)
    BY <1>1, TailType, OrderTail
<1>3. /\ down' \in [Sockets -> Seq(Message)] /\ down'[s] = Tail(down[s])
      /\ \A r \in Sockets \ {s} : down'[r] = down[r]
    BY <1>2, InvTypes
<1>4. StreamInOrder'
    BY <1>2, <1>3, InvParts, StreamIsInOrderNext
<1>5. PositionOK'
    <2>1. ASSUME NEW r \in Sockets, link'[r] = "open"
          PROVE  /\ h'[r].pc = "accepted" => down'[r] = <<>>
                 /\ h'[r].pc \in Active => Placed(down'[r], h'[r].ref, Reach(h'[r]))
        <3>1. /\ h[r].pc = "accepted" => down[r] = <<>>
              /\ h[r].pc \in Active => Placed(down[r], h[r].ref, Reach(h[r]))
            BY <2>1, InvParts DEF PositionOK
        <3>2. CASE r = s
            BY <1>2, <1>3, <3>1, <3>2
        <3>3. CASE r # s
            BY <1>3, <3>1, <3>3
        <3> QED
            BY <3>2, <3>3
    <2> QED
        BY <2>1 DEF PositionOK
<1>6. \A i \in 1..Len(down'[s]) : down'[s][i] \in Message /\ Due(down'[s][i], app.epoch)
    <2>1. /\ Len(Tail(down[s])) = Len(down[s]) - 1 /\ Len(down[s]) \in Nat \ {0}
          /\ \A i \in 1..(Len(down[s]) - 1) : Tail(down[s])[i] = down[s][i + 1]
        BY <1>1, TailType
    <2>2. \A i \in 1..(Len(down[s]) - 1) : i + 1 \in 1..Len(down[s])
        BY <2>1
    <2> QED
        BY <1>3, <2>1, <2>2, DownSame
<1> QED
    BY <1>3, <1>4, <1>5, <1>6, DownSame

\* What is ready stays so when the first message is read.
LEMMA StreamTaken ==
    ASSUME NEW ep, NEW S, NEW d \in Seq(Message), d # <<>>, NEW x, NEW y,
           Took(x, Head(d), y), NEW open, NEW u, StreamFor(ep, S, d, x, open, u)
    PROVE  StreamFor(ep, S, Tail(d), y, open, u)
<1> DEFINE c == Tail(d)
<1>1. /\ Len(c) = Len(d) - 1 /\ Len(d) \in Nat \ {0} /\ Head(d) = d[1]
      /\ \A i \in 1..(Len(d) - 1) : c[i] = d[i + 1]
    BY TailType
<1> HIDE DEF c
<1>2. ASSUME NEW j \in 1..Len(d), NEW e, NEW r, Ready(ep, S, d, j + 1, x, e, r)
      PROVE  Ready(ep, S, c, j, y, e, r)
    <2>1. j \in Nat \ {0} /\ \A i \in 1..(j - 1) : i \in 1..(Len(d) - 1)
        BY <1>1
    <2>2. \A i \in 1..(j - 1) : c[i] = d[i + 1]
        BY <1>1, <2>1
    <2>3. Took(x, d[1], y)
        BY <1>1
    <2> QED
        BY <1>2, <2>1, <2>2, <2>3, ReadyTail
<1>3. AllReady(ep, S, c, y)
    <2>1. SUFFICES ASSUME NEW j \in 1..Len(c), c[j].type = "frame"
                   PROVE  Ready(ep, S, c, j, y, c[j].epoch, c[j].seq)
        BY DEF AllReady
    <2>2. j \in 1..Len(d) /\ j + 1 \in 1..Len(d) /\ c[j] = d[j + 1]
        BY <1>1
    <2>3. Ready(ep, S, d, j + 1, x, c[j].epoch, c[j].seq)
        BY <2>1, <2>2 DEF StreamFor, AllReady
    <2> QED
        BY <1>2, <2>2, <2>3
<1>4. open /\ u.pc \in Active => Ready(ep, S, c, Len(c) + 1, y, u.ref, Reach(u))
    <2>1. Len(c) + 1 = Len(d) /\ Len(d) \in 1..Len(d)
        BY <1>1
    <2>2. open /\ u.pc \in Active => Ready(ep, S, d, Len(d) + 1, x, u.ref, Reach(u))
        BY DEF StreamFor
    <2> QED
        BY <1>2, <2>1, <2>2
<1> QED
    BY <1>3, <1>4 DEF StreamFor, c

\* A frame that is read next is of the player's epoch, and those before it are with the
\* player or accounted for.
LEMMA ReadyNow ==
    ASSUME NEW ep, NEW S, NEW d, NEW x, NEW e, NEW r, Ready(ep, S, d, 1, x, e, r)
    PROVE  /\ e = x.epoch
           /\ \A n \in 0..(r - 1) : Accounted(ep, S, e, n)
                                    \/ [epoch |-> e, seq |-> n] \in x.known
<1>1. \A i \in 1..(1 - 1) : FALSE
    OBVIOUS
<1>2. InEpoch(d, 1, x, e) /\ e = x.epoch
    BY <1>1 DEF Ready, InEpoch
<1>3. \A n : Knows(d, 1, x, e, n) => [epoch |-> e, seq |-> n] \in x.known
    BY <1>1 DEF Knows
<1> QED
    BY <1>2, <1>3 DEF Ready

\* A message changes what a tab has, but not its connection.
LEMMA OnMessageKeeps ==
    ASSUME PlayInv, NEW t \in Tabs, OnMessage(t)
    PROVE  PlayInv'
<1> DEFINE s == tab[t].sock
           m == Head(down[s])
           x == tab[t]
           y == Reads(x, m)
<1>1. /\ s # NoSocket /\ down[s] # <<>> /\ down' = [down EXCEPT ![s] = Tail(@)]
      /\ UNCHANGED <<app, resync, h, link, up, painted, skipped, faults>>
    BY DEF OnMessage
<1>2. tab \in [Tabs -> Tab] /\ x \in Tab /\ x = tab[t] /\ x.sock = s
    BY InvTypes
<1>3. tab' = [tab EXCEPT ![t] = y]
    BY <1>2 DEF OnMessage, Reads
<1>4. s \in Sockets /\ tab[t].sock = s
    BY <1>1, HoldsLink
<1>5. /\ m \in Message /\ m = Head(down[s]) /\ m = down[s][1] /\ 1 \in 1..Len(down[s])
      /\ down[s] \in Seq(Message) /\ Due(m, app.epoch)
    <2>1. down[s] \in Seq(Message)
        BY <1>4, InvTypes
    <2>2. m \in Message /\ m = down[s][1] /\ 1 \in 1..Len(down[s])
        BY <1>1, <2>1, TailType
    <2> QED
        BY <1>4, <2>1, <2>2, InvParts
<1>6. StreamFor(app.epoch, Seen, down[s], x, link[s] = "open", h[s])
    BY <1>1, InvParts DEF StreamOK
<1>7. PlayerOK(app.epoch, Seen, x)
    BY InvParts DEF KnownOK
<1> HIDE DEF s, m
<1>8. m.type = "frame" =>
          /\ m.epoch = x.epoch /\ m.seq \in Nat
          /\ \A n \in 0..(m.seq - 1) :
                Accounted(app.epoch, Seen, m.epoch, n)
                \/ [epoch |-> m.epoch, seq |-> n] \in x.known
    <2>1. SUFFICES ASSUME m.type = "frame"
                   PROVE  /\ m.epoch = x.epoch /\ m.seq \in Nat
                          /\ \A n \in 0..(m.seq - 1) :
                                Accounted(app.epoch, Seen, m.epoch, n)
                                \/ [epoch |-> m.epoch, seq |-> n] \in x.known
        OBVIOUS
    <2>2. Ready(app.epoch, Seen, down[s], 1, x, m.epoch, m.seq)
        BY <1>5, <1>6, <2>1 DEF StreamFor, AllReady
    <2>3. m.seq \in Nat
        BY <1>5, <2>1 DEF Due
    <2> HIDE DEF x
    <2> QED
        BY <2>2, <2>3, ReadyNow
<1> HIDE DEF x
<1>9. /\ y \in Tab /\ y.sock = s /\ Took(x, m, y) /\ PlayerOK(app.epoch, Seen, y)
      /\ \A g \in y.known :
            \/ g \in x.known
            \/ m.type = "frame" /\ g = [epoch |-> m.epoch, seq |-> m.seq]
    BY <1>2, <1>5, <1>7, <1>8, PlayerReads
<1> HIDE DEF y
<1>10. tab' \in [Tabs -> Tab] /\ tab'[t] = y /\ \A u \in Tabs \ {t} : tab'[u] = tab[u]
    BY <1>2, <1>3, <1>9
<1>11. /\ down' \in [Sockets -> Seq(Message)] /\ down'[s] = Tail(down[s])
       /\ \A r \in Sockets \ {s} : down'[r] = down[r]
       /\ StreamInOrder' /\ PositionOK'
       /\ \A r \in Sockets : \A i \in 1..Len(down'[r]) :
             down'[r][i] \in Message /\ Due(down'[r][i], app.epoch)
    BY <1>1, <1>4, DownTaken
<1>12. TypeOK'
    BY <1>1, <1>10, <1>11, InvTypes DEF TypeOK
<1>13. LinksOK'
    <2>1. \A u \in Tabs : tab'[u].sock = tab[u].sock
        BY <1>4, <1>9, <1>10
    <2> QED
        BY <1>1, <2>1, SameLinks
<1>14. SlotHasOwner' /\ AcksOK' /\ SeenOK' /\ Seen' = Seen
    BY <1>1, InvParts DEF SlotHasOwner, AcksOK, SeenOK, Seen
<1>15. EpochsOK'
    <2>1. \A r \in Sockets : h'[r].ref \in Nat /\ h'[r].ref <= app.epoch
        BY <1>1, InvTypes, InvParts
    <2>2. ASSUME NEW g \in y.known, g \notin x.known
          PROVE  g.epoch \in Nat /\ g.epoch <= app.epoch /\ g.seq \in Nat
        <3>1. m.type = "frame" /\ g.epoch = m.epoch /\ g.seq = m.seq
            BY <1>9, <2>2
        <3> QED
            BY <1>5, <3>1, FieldEpochs DEF Due
    <2>3. \A u \in Tabs : \A g \in tab'[u].known :
              \/ g \in tab[u].known
              \/ g.epoch \in Nat /\ g.epoch <= app.epoch /\ g.seq \in Nat
        BY <1>2, <1>10, <2>2
    <2>4. app' \in App /\ app.epoch <= app'.epoch
        BY <1>1, InvTypes
    <2> QED
        BY <1>11, <2>1, <2>3, <2>4, EpochsKept
<1>16. KnownOK' /\ StreamOK'
    <2>1. app' = app /\ Seen \subseteq Seen' /\ PlayerOK(app.epoch, Seen', tab'[t])
        BY <1>1, <1>9, <1>10, <1>14
    <2>2. \A u \in Tabs \ {t} : \A r \in Sockets : tab[u].sock = r /\ r # NoSocket =>
              down'[r] = down[r] /\ link'[r] = link[r] /\ h'[r] = h[r]
        <3>1. \A u \in Tabs \ {t} : tab[u].sock # s
            BY <1>1, <1>4, HoldsLink
        <3> QED
            BY <1>1, <1>11, <3>1
    <2>3. StreamFor(app.epoch, Seen, Tail(down[s]), y, link[s] = "open", h[s])
        BY <1>1, <1>5, <1>6, <1>9, StreamTaken
    <2>4. StreamFor(app.epoch, Seen', down'[s], tab'[t], link'[s] = "open", h'[s])
        BY <1>1, <1>10, <1>11, <1>14, <2>3
    <2>5. tab'[t].sock = s
        BY <1>9, <1>10
    <2>6. \A r \in Sockets : tab'[t].sock = r /\ r # NoSocket =>
              StreamFor(app.epoch, Seen', down'[r], tab'[t], link'[r] = "open", h'[r])
        BY <2>4, <2>5
    <2>7. tab'[t].sock # NoSocket => tab'[t].sock \in Sockets
        BY <1>4, <2>5
    <2> QED
        BY <1>10, <2>1, <2>2, <2>6, <2>7, OtherTabs
<1> QED
    BY <1>11, <1>12, <1>13, <1>14, <1>15, <1>16 DEF PlayInv

\* A step of a tab that keeps its connection.
LEMMA TabKeeps ==
    ASSUME PlayInv, NEW t \in Tabs, NEW x \in Tab, tab' = [tab EXCEPT ![t] = x],
           x.sock = tab[t].sock, x.known \subseteq tab[t].known,
           Seen \subseteq Seen', SeenOK',
           StillHas(tab[t], app.epoch, Seen', x), PlayerOK(app.epoch, Seen', x),
           UNCHANGED <<app, resync, h, link, down>>,
           up' \in [Sockets -> Seq(Control)], AcksOK',
           painted' \subseteq Int, skipped' \subseteq Int, faults' \in 0..MaxFaults
    PROVE  PlayInv'
<1>1. /\ tab' \in [Tabs -> Tab] /\ tab'[t] = x
      /\ \A u \in Tabs \ {t} : tab'[u] = tab[u]
    BY InvTypes
<1>2. TypeOK'
    BY <1>1, InvTypes DEF TypeOK
<1>3. LinksOK'
    BY <1>1, SameLinks
<1>4. SlotHasOwner' /\ StreamInOrder' /\ PositionOK'
    BY DEF PlayInv, SlotHasOwner, StreamInOrder, PositionOK
<1>5. EpochsOK'
    <2>1. \A r \in Sockets : h'[r].ref \in Nat /\ h'[r].ref <= app.epoch
        BY InvTypes, InvParts
    <2>2. \A u \in Tabs : \A g \in tab'[u].known : g \in tab[u].known
        BY <1>1
    <2>3. app' \in App /\ app.epoch <= app'.epoch
        BY InvTypes
    <2>4. \A r \in Sockets : \A i \in 1..Len(down'[r]) :
              down'[r][i] \in Message /\ Due(down'[r][i], app.epoch)
        BY DownSame
    <2> QED
        BY <2>1, <2>2, <2>3, <2>4, EpochsKept
<1>6. KnownOK' /\ StreamOK'
    <2>1. ASSUME NEW s \in Sockets, tab'[t].sock = s, s # NoSocket
          PROVE  StreamFor(app.epoch, Seen', down'[s], tab'[t], link'[s] = "open", h'[s])
        <3>1. tab[t].sock = s /\ StillHas(tab[t], app.epoch, Seen', tab'[t])
            BY <1>1, <2>1
        <3> QED
            BY <2>1, <3>1, TabStream
    <2>2. tab'[t].sock # NoSocket => tab'[t].sock \in Sockets
        BY <1>1, HoldsLink
    <2>3. PlayerOK(app.epoch, Seen', tab'[t])
        BY <1>1
    <2> QED
        BY <1>1, <2>1, <2>2, <2>3, OtherTabs
<1> QED
    BY <1>2, <1>3, <1>4, <1>5, <1>6 DEF PlayInv

LEMMA PaintKeeps ==
    ASSUME PlayInv, NEW t \in Tabs, Paint(t)
    PROVE  PlayInv'
<1> DEFINE f == tab[t].decoding
           rest == tab[t].known \ {f}
           m == Ctl("presented", f.epoch, f.seq)
<1>1. PICK g \in HeadOf(rest) :
          tab' = [tab EXCEPT ![t].known = rest, ![t].decoding = g, ![t].last = f.seq]
    BY DEF Paint
<1>2. /\ f # None
      /\ painted' = IF f.epoch = app.epoch THEN painted \cup {f.seq} ELSE painted
      /\ Say(t, m)
      /\ UNCHANGED <<app, resync, h, link, down, skipped, faults>>
    BY DEF Paint
<1> DEFINE x == [tab[t] EXCEPT !.known = rest, !.decoding = g, !.last = f.seq]
<1>3. /\ tab \in [Tabs -> Tab] /\ tab[t] \in Tab /\ tab[t].known \in SUBSET Frames
      /\ app.epoch \in Nat
      /\ \A k \in tab[t].known :
            k \in Frames /\ k.seq \in Nat /\ k.epoch \in Nat /\ k.epoch <= app.epoch
    BY InvTypes, InvParts, TabFields
<1>4. PlayerOK(app.epoch, Seen, tab[t])
    BY InvParts DEF KnownOK
<1>5. /\ f \in tab[t].known
      /\ \A n \in 0..(f.seq - 1) : Accounted(app.epoch, Seen, f.epoch, n)
      /\ f.seq \in Nat /\ f.epoch \in Nat /\ f.epoch <= app.epoch
    BY <1>2, <1>3, <1>4 DEF PlayerOK
<1>6. tab' = [tab EXCEPT ![t] = x]
    BY <1>1, <1>3
<1>7. /\ painted \subseteq painted' /\ Seen \subseteq Seen'
      /\ f.epoch = app.epoch => f.seq \in painted' /\ f.seq \in Seen'
    BY <1>2 DEF Seen
<1>8. SeenOK' /\ painted' \subseteq Int
    <2>1. painted \subseteq Nat /\ \A k \in painted : \A n \in 0..(k - 1) : n \in Seen
        BY InvParts DEF SeenOK
    <2>2. painted' \subseteq Nat
        BY <1>2, <1>5, <2>1
    <2>3. ASSUME NEW k \in painted', NEW n \in 0..(k - 1)
          PROVE  n \in Seen'
        <3>1. CASE k \in painted
            BY <1>7, <2>1, <2>3, <3>1
        <3>2. CASE k \notin painted
            <4>1. f.epoch = app.epoch /\ k = f.seq
                BY <1>2, <2>3, <3>2
            <4>2. Accounted(app.epoch, Seen, f.epoch, n)
                BY <1>5, <2>3, <4>1
            <4>3. ~(f.epoch < app.epoch)
                BY <1>3, <4>1
            <4> QED
                BY <1>7, <4>2, <4>3 DEF Accounted
        <3> QED
            BY <3>1, <3>2
    <2>4. Nat \subseteq Int
        OBVIOUS
    <2> QED
        BY <2>2, <2>3, <2>4 DEF SeenOK
<1>9. m \in Control /\ m.type = "presented" /\ m.epoch = f.epoch /\ m.seq = f.seq
    BY <1>5, CtlType
<1> HIDE DEF m
<1>10. up' \in [Sockets -> Seq(Control)] /\ AcksOK'
    <2>1. Honest(app.epoch, painted', m)
        BY <1>5, <1>7, <1>9 DEF Honest
    <2> QED
        BY <1>2, <1>7, <1>9, <2>1, SayKeeps
<1>11. x.known = rest /\ x.decoding = g /\ x.sock = tab[t].sock /\ x.epoch = tab[t].epoch
    BY <1>3 DEF Tab
<1>12. /\ g \in Frames /\ PlayerOK(app.epoch, Seen', x)
       /\ \A k \in tab[t].known : k \in x.known \/ Accounted(app.epoch, Seen', k.epoch, k.seq)
    <2> HIDE DEF x
    <2> DEFINE ep == app.epoch  S == Seen  S2 == Seen'  z == tab[t]
    <2>1. /\ ep \in Nat /\ S \subseteq S2 /\ z \in Tab /\ PlayerOK(ep, S, z)
          /\ \A k \in z.known : k \in Frames /\ k.seq \in Nat /\ k.epoch \in Nat /\ k.epoch <= ep
          /\ z.decoding # None /\ (z.decoding.epoch = ep => z.decoding.seq \in S2)
          /\ g \in HeadOf(z.known \ {z.decoding})
          /\ x.known = z.known \ {z.decoding} /\ x.decoding = g
        BY <1>2, <1>3, <1>4, <1>7, <1>11
    <2> HIDE DEF ep, S, S2, z
    <2>2. /\ g \in Frames /\ PlayerOK(ep, S2, x)
          /\ \A k \in z.known : k \in x.known \/ Accounted(ep, S2, k.epoch, k.seq)
        BY <2>1, PlayerPaints
    <2> QED
        BY <2>2 DEF ep, S2, z
<1>13. x \in Tab /\ x.known \subseteq tab[t].known
    BY <1>3, <1>5, <1>11, <1>12 DEF Tab
<1> HIDE DEF x
<1>14. StillHas(tab[t], app.epoch, Seen', x)
    BY <1>11, <1>12 DEF StillHas
<1>15. skipped' \subseteq Int /\ faults' \in 0..MaxFaults
    BY <1>2, InvTypes
<1> QED
    BY <1>2, <1>6, <1>7, <1>8, <1>10, <1>11, <1>12, <1>13, <1>14, <1>15, TabKeeps

LEMMA JumpKeeps ==
    ASSUME PlayInv, NEW t \in Tabs, Jump(t)
    PROVE  PlayInv'
<1> DEFINE x == [tab[t] EXCEPT !.known = {}, !.decoding = None, !.last = -1, !.jump = TRUE]
           left == {f.seq : f \in {g \in tab[t].known : g.epoch = app.epoch}} \ painted
<1>1. /\ Fault("jump") /\ Say(t, Ctl("jump", 0, -1))
      /\ tab' = [tab EXCEPT ![t].known = {}, ![t].decoding = None, ![t].last = -1,
                            ![t].jump = TRUE]
      /\ skipped' = skipped \cup left
      /\ UNCHANGED <<app, resync, h, link, down, painted>>
    BY DEF Jump
<1>2. tab \in [Tabs -> Tab] /\ tab[t] \in Tab /\ app.epoch \in Nat
    BY InvTypes
<1>3. /\ x \in Tab /\ x.sock = tab[t].sock /\ x.epoch = tab[t].epoch
      /\ x.known = {} /\ x.decoding = None
    BY <1>2, NoneFrame DEF Tab
<1>4. tab' = [tab EXCEPT ![t] = x]
    BY <1>1, <1>2
<1> HIDE DEF x
<1>5. up' \in [Sockets -> Seq(Control)] /\ AcksOK'
    BY <1>1, ClickKeeps
<1>6. \A k \in tab[t].known :
          k.seq \in Nat /\ k.epoch \in Nat /\ k.epoch <= app.epoch
    BY InvParts
<1>7. left \subseteq Int
    BY <1>6
<1>8. \A k \in tab[t].known : k.epoch = app.epoch => k.seq \in left \/ k.seq \in painted
    OBVIOUS
<1> HIDE DEF left
<1>9. /\ Seen \subseteq Seen' /\ painted' \subseteq Int /\ skipped' \subseteq Int
      /\ \A k \in tab[t].known : k.epoch = app.epoch => k.seq \in Seen'
    BY <1>1, <1>7, <1>8, InvTypes DEF Seen
<1>10. SeenOK'
    BY <1>1, <1>9, InvParts DEF SeenOK
<1>11. StillHas(tab[t], app.epoch, Seen', x)
    <2>1. \A k \in tab[t].known : Accounted(app.epoch, Seen', k.epoch, k.seq)
        BY <1>2, <1>6, <1>9 DEF Accounted
    <2> QED
        BY <1>3, <2>1 DEF StillHas
<1>12. PlayerOK(app.epoch, Seen', x)
    BY <1>3, EmptyPlayer
<1>13. faults' \in 0..MaxFaults /\ x.known \subseteq tab[t].known
    BY <1>1, <1>3, FaultType
<1> QED
    BY <1>1, <1>3, <1>4, <1>5, <1>9, <1>10, <1>11, <1>12, <1>13, TabKeeps

LEMMA StartTabKeeps ==
    ASSUME PlayInv, NEW t \in Tabs, StartTab(t)
    PROVE  PlayInv'
<1> DEFINE x == [tab[t] EXCEPT !.stopped = FALSE]
<1>1. /\ tab' = [tab EXCEPT ![t].stopped = FALSE]
      /\ UNCHANGED <<app, resync, h, link, up, down, painted, skipped, faults>>
    BY DEF StartTab
<1>2. tab \in [Tabs -> Tab] /\ tab[t] \in Tab
    BY InvTypes
<1>3. /\ x \in Tab /\ x.sock = tab[t].sock /\ x.epoch = tab[t].epoch
      /\ x.known = tab[t].known /\ x.decoding = tab[t].decoding
    BY <1>2 DEF Tab
<1>4. tab' = [tab EXCEPT ![t] = x]
    BY <1>1, <1>2
<1> HIDE DEF x
<1>5. Seen' = Seen /\ SeenOK' /\ AcksOK'
    BY <1>1, InvParts DEF Seen, SeenOK, AcksOK
<1>6. StillHas(tab[t], app.epoch, Seen', x)
    BY <1>3 DEF StillHas
<1>7. PlayerOK(app.epoch, Seen', x)
    BY <1>3, <1>5, InvParts DEF KnownOK, PlayerOK
<1> QED
    BY <1>1, <1>3, <1>4, <1>5, <1>6, <1>7, InvTypes, TabKeeps

\* Tab t leaves its connection s, and keeps what it knows or throws it away.
LEMMA LinkLeft ==
    ASSUME PlayInv, NEW t \in Tabs, NEW s \in Sockets, tab[t].sock = s, s # NoSocket,
           NEW value \in {"free", "gone"}, link' = [link EXCEPT ![s] = value],
           value = "free" => h[s].pc = "free",
           NEW x \in Tab, tab' = [tab EXCEPT ![t] = x], x.sock = NoSocket,
           \/ x.known = tab[t].known /\ x.decoding = tab[t].decoding
           \/ x.known = {} /\ x.decoding = None,
           down' = [down EXCEPT ![s] = <<>>],
           UNCHANGED <<app, resync, h, painted, skipped>>,
           up' \in [Sockets -> Seq(Control)], AcksOK', faults' \in 0..MaxFaults
    PROVE  PlayInv'
<1>1. LinksOK /\ link \in [Sockets -> {"free", "open", "gone", "closed"}]
    BY InvTypes, InvParts
<1>2. /\ link' \in [Sockets -> {"free", "open", "gone", "closed"}]
      /\ link'[s] = value /\ \A r \in Sockets \ {s} : link'[r] = link[r]
    BY <1>1
<1>3. /\ tab' \in [Tabs -> Tab] /\ tab'[t] = x
      /\ \A u \in Tabs \ {t} : tab'[u] = tab[u]
    BY InvTypes
<1>4. LinksOK'
    <2>1. \A r \in Sockets : link'[r] \in {"free", "closed"} => h'[r].pc = "free"
        BY <1>1, <1>2 DEF LinksOK
    <2>2. ASSUME NEW u \in Tabs, tab'[u].sock # NoSocket
          PROVE  link'[tab'[u].sock] \in {"open", "closed"}
        <3>1. u # t /\ tab'[u].sock = tab[u].sock /\ tab[u].sock # s
            BY <1>3, <2>2, HoldsLink
        <3>2. tab[u].sock \in Sockets /\ link[tab[u].sock] \in {"open", "closed"}
            BY <2>2, <3>1, HoldsLink
        <3> QED
            BY <1>2, <3>1, <3>2
    <2>3. \A u, v \in Tabs : tab'[u].sock = tab'[v].sock /\ tab'[u].sock # NoSocket => u = v
        BY <1>1, <1>3 DEF LinksOK
    <2> QED
        BY <2>1, <2>2, <2>3 DEF LinksOK
<1>5. /\ down' \in [Sockets -> Seq(Message)]
      /\ \A r \in Sockets \ {s} : down'[r] = down[r]
      /\ StreamInOrder' /\ PositionOK'
      /\ \A r \in Sockets : \A i \in 1..Len(down'[r]) :
            down'[r][i] \in Message /\ Due(down'[r][i], app.epoch)
    BY <1>2, DownCleared
<1>6. TypeOK'
    BY <1>2, <1>3, <1>5, InvTypes DEF TypeOK
<1>7. SlotHasOwner' /\ SeenOK' /\ Seen' = Seen
    BY InvParts DEF SlotHasOwner, SeenOK, Seen
<1>8. EpochsOK'
    <2>1. \A r \in Sockets : h'[r].ref \in Nat /\ h'[r].ref <= app.epoch
        BY InvTypes, InvParts
    <2>2. \A u \in Tabs : \A g \in tab'[u].known : g \in tab[u].known
        BY <1>3
    <2>3. app' \in App /\ app.epoch <= app'.epoch
        BY InvTypes
    <2> QED
        BY <1>5, <2>1, <2>2, <2>3, EpochsKept
<1>9. KnownOK' /\ StreamOK'
    <2>1. PlayerOK(app.epoch, Seen', tab'[t])
        <3>1. PlayerOK(app.epoch, Seen, tab[t])
            BY InvParts DEF KnownOK
        <3>2. CASE x.known = tab[t].known /\ x.decoding = tab[t].decoding
            BY <1>3, <1>7, <3>1, <3>2 DEF PlayerOK
        <3>3. CASE x.known = {} /\ x.decoding = None
            BY <1>3, <3>3, EmptyPlayer
        <3> QED
            BY <3>2, <3>3
    <2>2. \A u \in Tabs \ {t} : \A r \in Sockets : tab[u].sock = r /\ r # NoSocket =>
              down'[r] = down[r] /\ link'[r] = link[r] /\ h'[r] = h[r]
        <3>1. \A u \in Tabs \ {t} : tab[u].sock # s
            BY HoldsLink
        <3> QED
            BY <1>2, <1>5, <3>1
    <2>3. tab'[t].sock = NoSocket
        BY <1>3
    <2>4. app' = app /\ Seen \subseteq Seen'
        BY <1>7
    <2>5. \A r \in Sockets : tab'[t].sock = r /\ r # NoSocket =>
              StreamFor(app.epoch, Seen', down'[r], tab'[t], link'[r] = "open", h'[r])
        BY <2>3
    <2> QED
        BY <1>3, <2>1, <2>2, <2>3, <2>4, <2>5, OtherTabs
<1> QED
    BY <1>4, <1>5, <1>6, <1>7, <1>8, <1>9 DEF PlayInv

LEMMA StopTabKeeps ==
    ASSUME PlayInv, NEW t \in Tabs, StopTab(t)
    PROVE  PlayInv'
<1> DEFINE s == tab[t].sock
           value == IF link[s] = "open" THEN "gone" ELSE "free"
           x == [tab[t] EXCEPT !.sock = NoSocket, !.known = {}, !.decoding = None,
                               !.decoder = FALSE, !.stopped = TRUE]
<1>1. /\ s # NoSocket /\ Fault("stop") /\ Say(t, Ctl("stop", 0, -1))
      /\ tab' = [tab EXCEPT ![t].sock = NoSocket, ![t].known = {}, ![t].decoding = None,
                            ![t].decoder = FALSE, ![t].stopped = TRUE]
      /\ link' = [link EXCEPT ![s] = IF @ = "open" THEN "gone" ELSE "free"]
      /\ down' = [down EXCEPT ![s] = <<>>]
      /\ UNCHANGED <<app, resync, h, painted, skipped>>
    BY DEF StopTab
<1>2. /\ tab \in [Tabs -> Tab] /\ tab[t] \in Tab
      /\ link \in [Sockets -> {"free", "open", "gone", "closed"}]
    BY InvTypes
<1>3. s \in Sockets /\ link[s] \in {"open", "closed"}
    BY <1>1, HoldsLink
<1>4. x \in Tab /\ x.sock = NoSocket /\ x.known = {} /\ x.decoding = None
    BY <1>2, NoneFrame DEF Tab
<1>5. tab' = [tab EXCEPT ![t] = x] /\ link' = [link EXCEPT ![s] = value]
    BY <1>1, <1>2, <1>3
<1>6. value \in {"free", "gone"} /\ (value = "free" => h[s].pc = "free")
    BY <1>3, InvParts DEF LinksOK
<1>7. tab[t].sock = s
    OBVIOUS
<1> HIDE DEF x, s, value
<1>8. up' \in [Sockets -> Seq(Control)] /\ AcksOK'
    BY <1>1, ClickKeeps
<1>9. faults' \in 0..MaxFaults
    BY <1>1, FaultType
<1> QED
    BY <1>1, <1>3, <1>4, <1>5, <1>6, <1>7, <1>8, <1>9, LinkLeft

LEMMA DisconnectKeeps ==
    ASSUME PlayInv, NEW t \in Tabs, Disconnect(t)
    PROVE  PlayInv'
<1> DEFINE s == tab[t].sock
           x == [tab[t] EXCEPT !.sock = NoSocket]
<1>1. /\ s # NoSocket /\ Fault("lost")
      /\ tab' = [tab EXCEPT ![t].sock = NoSocket]
      /\ link' = [link EXCEPT ![s] = "gone"]
      /\ down' = [down EXCEPT ![s] = <<>>]
      /\ UNCHANGED <<app, resync, h, up, painted, skipped>>
    BY DEF Disconnect
<1>2. tab \in [Tabs -> Tab] /\ tab[t] \in Tab
    BY InvTypes
<1>3. s \in Sockets
    BY <1>1, HoldsLink
<1>4. /\ x \in Tab /\ x.sock = NoSocket
      /\ x.known = tab[t].known /\ x.decoding = tab[t].decoding
    BY <1>2 DEF Tab
<1>5. tab' = [tab EXCEPT ![t] = x] /\ tab[t].sock = s
    BY <1>1, <1>2
<1> HIDE DEF x, s
<1>6. up' \in [Sockets -> Seq(Control)] /\ AcksOK'
    BY <1>1, InvTypes, InvParts DEF AcksOK
<1>7. faults' \in 0..MaxFaults
    BY <1>1, FaultType
<1>8. "gone" \in {"free", "gone"} /\ ("gone" = "free" => h[s].pc = "free")
    OBVIOUS
<1> QED
    BY <1>1, <1>3, <1>4, <1>5, <1>6, <1>7, <1>8, LinkLeft

LEMMA OnCloseKeeps ==
    ASSUME PlayInv, NEW t \in Tabs, OnClose(t)
    PROVE  PlayInv'
<1> DEFINE s == tab[t].sock
           x == [tab[t] EXCEPT !.sock = NoSocket]
<1>1. /\ s # NoSocket /\ link[s] = "closed" /\ down[s] = <<>>
      /\ tab' = [tab EXCEPT ![t].sock = NoSocket]
      /\ link' = [link EXCEPT ![s] = "free"]
      /\ UNCHANGED <<app, resync, h, up, down, painted, skipped, faults>>
    BY DEF OnClose
<1>2. tab \in [Tabs -> Tab] /\ tab[t] \in Tab
    BY InvTypes
<1>3. s \in Sockets /\ h[s].pc = "free"
    BY <1>1, HoldsLink, InvParts DEF LinksOK
<1>4. /\ x \in Tab /\ x.sock = NoSocket
      /\ x.known = tab[t].known /\ x.decoding = tab[t].decoding
    BY <1>2 DEF Tab
<1>5. tab' = [tab EXCEPT ![t] = x] /\ tab[t].sock = s
    BY <1>1, <1>2
<1> HIDE DEF x, s
<1>6. down' = [down EXCEPT ![s] = <<>>]
    BY <1>1, <1>3, InvTypes
<1>7. up' \in [Sockets -> Seq(Control)] /\ AcksOK' /\ faults' \in 0..MaxFaults
    BY <1>1, InvTypes, InvParts DEF AcksOK
<1>8. "free" \in {"free", "gone"}
    OBVIOUS
<1> QED
    BY <1>1, <1>3, <1>4, <1>5, <1>6, <1>7, <1>8, LinkLeft

-----------------------------------------------------------------------------
(* The theorems                                                            *)

LEMMA PlayInit ==
    ASSUME Init
    PROVE  PlayInv
<1>1. /\ app = [epoch |-> 0, store |-> {}, viewer |-> FALSE, last |-> None,
                fault |-> -1, done |-> {}]
      /\ resync = FALSE
      /\ h = [s \in Sockets |-> FreeHandler]
      /\ link = [s \in Sockets |-> "free"]
      /\ up = [s \in Sockets |-> <<>>] /\ down = [s \in Sockets |-> <<>>]
      /\ tab = [t \in Tabs |-> [sock |-> NoSocket, epoch |-> 0, last |-> -1,
                                known |-> {}, decoding |-> None, session |-> FALSE,
                                decoder |-> FALSE, stopped |-> FALSE, jump |-> FALSE]]
      /\ painted = {} /\ skipped = {} /\ faults = 0
    BY DEF Init
<1>2. app \in App /\ app.epoch = 0 /\ ~app.viewer
    BY <1>1, NoneFrame DEF App
<1>3. FreeHandler \in Handler /\ FreeHandler.pc = "free" /\ FreeHandler.ref = 0
    BY DEF FreeHandler, Handler, HandlerStep
<1>4. <<>> \in Seq(Control) /\ <<>> \in Seq(Message) /\ \A i \in 1..Len(<<>>) : FALSE
    OBVIOUS
<1>5. \A t \in Tabs : /\ tab[t] \in Tab /\ tab[t].sock = NoSocket /\ tab[t].known = {}
                      /\ tab[t].decoding = None
    BY <1>1, NoneFrame DEF Tab
<1>6. tab \in [Tabs -> Tab]
    BY <1>1, <1>5
<1>7. MaxFaults \in Nat
    BY PlaybackAssumption DEF PlaybackAssumption
<1>8. h \in [Sockets -> Handler] /\ \A s \in Sockets : h[s].pc = "free" /\ h[s].ref = 0
    BY <1>1, <1>3
<1>9. TypeOK
    <2>1. /\ link \in [Sockets -> {"free", "open", "gone", "closed"}]
          /\ up \in [Sockets -> Seq(Control)] /\ down \in [Sockets -> Seq(Message)]
        <3>1. link \in [Sockets -> {"free", "open", "gone", "closed"}]
            BY <1>1
        <3> DEFINE e == <<>>
        <3>2. e \in Seq(Control) /\ e \in Seq(Message)
            BY <1>4
        <3>3. up = [s \in Sockets |-> e] /\ down = [s \in Sockets |-> e]
            BY <1>1
        <3> HIDE DEF e
        <3>4. up \in [Sockets -> Seq(Control)] /\ down \in [Sockets -> Seq(Message)]
            BY <3>2, <3>3
        <3> QED
            BY <3>1, <3>4
    <2>2. /\ resync \in BOOLEAN /\ painted \subseteq Int /\ skipped \subseteq Int
          /\ faults \in 0..MaxFaults
        <3>1. resync = FALSE /\ painted = {} /\ skipped = {} /\ faults = 0
            BY <1>1
        <3>2. 0 \in 0..MaxFaults
            BY <1>7
        <3> QED
            BY <3>1, <3>2
    <2> QED
        BY <1>2, <1>6, <1>8, <2>1, <2>2 DEF TypeOK
<1>10. LinksOK
    BY <1>5, <1>8 DEF LinksOK
<1>11. SlotHasOwner
    BY <1>2 DEF SlotHasOwner
<1>12. \A s \in Sockets : down[s] = <<>> /\ up[s] = <<>> /\ link[s] = "free"
    BY <1>1
<1>13. StreamInOrder
    BY <1>12 DEF StreamInOrder
<1>14. PositionOK
    BY <1>12 DEF PositionOK
<1>15. EpochsOK
    BY <1>2, <1>4, <1>5, <1>8, <1>12 DEF EpochsOK
<1>16. SeenOK
    BY <1>1 DEF SeenOK
<1>17. AcksOK
    BY <1>4, <1>12 DEF AcksOK
<1>18. KnownOK
    BY <1>5, EmptyPlayer DEF KnownOK
<1>19. StreamOK
    BY <1>5 DEF StreamOK
<1> QED
    BY <1>9, <1>10, <1>11, <1>13, <1>14, <1>15, <1>16, <1>17, <1>18, <1>19 DEF PlayInv

LEMMA PlayStep ==
    ASSUME PlayInv, [Next]_vars
    PROVE  PlayInv'
<1>1. TypeOK
    BY DEF PlayInv
<1>2. ASSUME NEW s \in Sockets, HandlerAct(s)
      PROVE  PlayInv'
    <2>1. h[s].ref <= app.epoch
        BY InvParts
    <2>2. CASE Open(s)
        BY <2>2, OpenKeeps
    <2>3. CASE Close(s)
        BY <2>3, CloseKeeps
    <2>4. CASE \/ Begin(s) \/ Wake(s) \/ Sent(s) \/ Moved(s) \/ Warned(s) \/ Raise(s)
        BY <1>1, <2>1, <2>4, LoopActs, LoopKeeps
    <2> QED
        BY <1>2, <2>2, <2>3, <2>4 DEF HandlerAct
<1>3. ASSUME NEW s \in Sockets, ControlAct(s)
      PROVE  PlayInv'
    BY <1>1, <1>3, ControlQuiet, QuietKeeps
<1>4. CASE Publish \/ InferenceFault \/ Reset
    BY <1>1, <1>4, WorkerQuiet, QuietKeeps
<1>5. ASSUME NEW t \in Tabs, Browser(t)
      PROVE  PlayInv'
    BY <1>5, OpenSocketKeeps, OnMessageKeeps, PaintKeeps, JumpKeeps, StopTabKeeps,
       StartTabKeeps, DisconnectKeeps, OnCloseKeeps
    DEF Browser, Connecting
<1>6. CASE UNCHANGED vars
    <2>1. UNCHANGED <<app, resync, h, link, up, down, tab, painted, skipped, faults>>
        BY <1>6 DEF vars
    <2>2. /\ TypeOK' /\ LinksOK' /\ SlotHasOwner' /\ PositionOK' /\ EpochsOK' /\ SeenOK'
          /\ AcksOK'
        BY <2>1, InvTypes, InvParts
        DEF TypeOK, LinksOK, SlotHasOwner, PositionOK, EpochsOK, SeenOK, Seen, AcksOK
    <2>3. StreamInOrder'
        BY <2>1, InvParts, StreamIsInOrderNext
    <2>4. KnownOK' /\ StreamOK'
        BY <2>1, InvParts DEF KnownOK, StreamOK, Seen
    <2> QED
        BY <2>2, <2>3, <2>4 DEF PlayInv
<1> QED
    BY <1>2, <1>3, <1>4, <1>5, <1>6 DEF Next

\* The inductive invariant: connections, the position of each handler in its stream,
\* what browsers have acknowledged, and that no frame is lost on its way.
THEOREM PlaybackInvariance == Spec => []PlayInv
<1>1. Init => PlayInv
    BY PlayInit
<1>2. PlayInv /\ [Next]_vars => PlayInv'
    BY PlayStep
<1> QED
    BY <1>1, <1>2, PTL DEF Spec

\* Type correctness of AppState, handlers, connections and tabs, for any number of
\* connections and any window.
THEOREM PlaybackTypeCorrect == Spec => []TypeOK
<1>1. PlayInv => TypeOK
    BY DEF PlayInv
<1> QED
    BY <1>1, PlaybackInvariance, PTL

\* Frames arrive in order on every connection, over changes of epoch, resyncs that
\* another task asks for, and faults (playback.py, playback_loop).
THEOREM StreamArrivesInOrder == Spec => []StreamInOrder
<1>1. PlayInv => StreamInOrder
    BY DEF PlayInv
<1> QED
    BY <1>1, PlaybackInvariance, PTL

\* The slot is never taken without a handler that will give it back: no connection
\* that breaks, stops or is turned away leaves it taken for good.
THEOREM TakenSlotHasOwner == Spec => []SlotHasOwner
<1>1. PlayInv => SlotHasOwner
    BY DEF PlayInv
<1> QED
    BY <1>1, PlaybackInvariance, PTL

\* What each step may delete.
LEMMA UnseenStep ==
    ASSUME PlayInv, [Next]_vars
    PROVE  \/ Reset \/ \E s \in Sockets : (h[s].new /\ Begin(s)) \/ JumpToLive(s)
           \/ app.store \ app'.store \subseteq painted \cup skipped
           \/ UNCHANGED vars
<1>1. TypeOK /\ app \in App
    BY InvTypes
<1>2. ASSUME NEW s \in Sockets, HandlerAct(s), ~(h[s].new /\ Begin(s))
      PROVE  app'.store = app.store
    <2>1. CASE Open(s)
        BY <2>1, OpenEffect
    <2>2. CASE Close(s)
        BY <1>1, <2>2 DEF Close, App
    <2>3. CASE \/ Wake(s) \/ Sent(s) \/ Moved(s) \/ Warned(s) \/ Raise(s)
        BY <2>3 DEF Wake, Sent, Moved, Warned, Raise, Continue
    <2>4. CASE Begin(s)
        BY <1>2, <2>4 DEF Begin
    <2> QED
        BY <1>2, <2>1, <2>2, <2>3, <2>4 DEF HandlerAct
<1>3. ASSUME NEW s \in Sockets, Presented(s)
      PROVE  app.store \ app'.store \subseteq painted \cup skipped
    <2> DEFINE m == Head(up[s])
    <2>1. Take(s, "presented") /\ app' = Acknowledge(app, m.epoch, m.seq)
        BY <1>3 DEF Presented
    <2>2. m \in Control /\ m.type = "presented" /\ m = up[s][1] /\ 1 \in 1..Len(up[s])
        BY <1>1, <2>1, TakeEffect
    <2>3. m.epoch = app.epoch => m.seq \in painted
        BY <2>2, InvParts DEF AcksOK, Honest
    <2> HIDE DEF m
    <2>4. \A n \in app.store \ app'.store :
              m.epoch = app.epoch /\ n <= m.seq /\ n \in Nat /\ m.seq \in Nat
        BY <1>1, <2>1, <2>2, FieldEpochs, AcknowledgeType
    <2>5. \A n \in app.store \ app'.store : n = m.seq \/ n \in 0..(m.seq - 1)
        BY <2>4
    <2>6. \A n \in 0..(m.seq - 1) : m.seq \in painted => n \in painted \cup skipped
        BY InvParts DEF SeenOK, Seen
    <2> QED
        BY <2>3, <2>4, <2>5, <2>6
<1>4. ASSUME NEW s \in Sockets, Stop(s) \/ Lost(s)
      PROVE  app'.store = app.store
    BY <1>1, <1>4, LeaveType DEF Stop, Lost
<1>5. CASE Publish
    <2>1. PICK n \in 0..(MaxSeq - 1) :
              app' = [app EXCEPT !.store = @ \cup {n}, !.done = @ \cup {n}]
        BY <1>5 DEF Publish
    <2>2. app.store \ app'.store = {}
        BY <1>1, <2>1 DEF App
    <2> QED
        BY <2>2
<1>6. CASE InferenceFault
    <2>1. PICK n \in 0..(MaxSeq - 1) \ app.done : app' = [app EXCEPT !.fault = n]
        BY <1>6 DEF InferenceFault
    <2>2. app'.store = app.store
        BY <1>1, <2>1 DEF App
    <2> QED
        BY <2>2
<1>7. ASSUME NEW t \in Tabs, Browser(t)
      PROVE  app' = app
    BY <1>7 DEF Browser, Connecting, OpenSocket, OnMessage, Paint, Jump, StopTab,
                StartTab, Disconnect, OnClose
<1> QED
    BY <1>2, <1>3, <1>4, <1>5, <1>6, <1>7 DEF Next, ControlAct

\* AppState.acknowledge() deletes only results that were painted themselves, or that a
\* viewer was moved past, whatever acknowledgements of whatever connection are still
\* under way and however often connections are lost (state.py, acknowledge; index.html,
\* enqueue, pump and paint).
THEOREM UnseenIsKept == Spec => UnseenKept
<1> DEFINE kept == \/ Reset
                   \/ \E s \in Sockets : (h[s].new /\ Begin(s)) \/ JumpToLive(s)
                   \/ app.store \ app'.store \subseteq painted \cup skipped
<1>1. PlayInv /\ [Next]_vars => [kept]_vars
    BY UnseenStep
<1> HIDE DEF kept
<1>2. Spec => [][kept]_vars
    BY <1>1, PlaybackInvariance, PTL DEF Spec
<1> QED
    BY <1>2 DEF UnseenKept, kept

=============================================================================
