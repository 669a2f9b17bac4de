-------------------------- MODULE PublishersProofs --------------------------
(***************************************************************************)
(* Theorems about Publishers, for any number of peer connections and of    *)
(* restarts of the vision service.                                         *)
(*                                                                         *)
(* The inductive invariant PInv says what the properties leave open: who   *)
(* is still to be closed, and by whom (CloserOK); that the packets the     *)
(* feed remembers are of a peer for which somebody still has to call End() *)
(* (FeedOK); and what android_live will be once everything under way has   *)
(* arrived (LiveOK).                                                       *)
(***************************************************************************)
EXTENDS Publishers, FiniteSetTheorems, TLAPS

\* q has taken the pointer over from p and has not closed p yet.
Replaces(q, p) == peer[q].set = "replacing" /\ peer[q].old = p

\* Nobody has taken p out yet, or is about to close it.
Untouched(p) == peer[p].dones = 0 /\ ~peer[p].ending

\* The state of every peer but for the number of reports.
Types ==
    /\ publisher \in 0..MaxPeers
    /\ peer \in [Peers -> Peer]
    /\ lastOf \in 0..MaxPeers /\ strayed \in BOOLEAN
    /\ ended \in BOOLEAN /\ endSent \in BOOLEAN /\ endMsg \in BOOLEAN
    /\ reports \in Seq(BOOLEAN)
    /\ androidLive \in BOOLEAN
    /\ sync \in SyncState
    /\ restarts \in 0..MaxRestarts
    /\ raced \in BOOLEAN

\* The done channel of the installed publisher is open, and nobody is about to
\* close it; a connection without a track has none.
InstalledOK ==
    \A p \in Peers :
        publisher = p \/ peer[p].set = "none" =>
            Untouched(p) /\ \A q \in Peers : ~Replaces(q, p)

FreshOK == \A p \in Peers : peer[p].set = "none" => publisher # p

\* One peer at most is about to close p, and p is open until it does.
CloserOK ==
    \A q \in Peers : peer[q].set = "replacing" =>
        /\ peer[q].old \in Peers /\ peer[q].old # q
        /\ Untouched(peer[q].old)
        /\ \A r \in Peers : Replaces(r, peer[q].old) => r = q

\* A done channel is closed once, and before the End() of a removal.
ClosedOK == \A p \in Peers : /\ peer[p].dones <= 1
                             /\ peer[p].ending => peer[p].dones = 1

\* The peers that have reported: at their start, and at their end.
Started == {p \in Peers : peer[p].set = "done"}
Finished == {p \in Peers : peer[p].dones # 0 /\ ~peer[p].ending}
ReportsOK == Len(reports) <= Cardinality(Started) + Cardinality(Finished)

\* The feed remembers packets of a peer that has not left.
FeedOK == lastOf # 0 /\ ~ended /\ ~strayed => ~Left(lastOf)

\* Somebody is being installed or removed and has yet to report it.
Pending == \E p \in Peers : peer[p].ending \/ peer[p].set \in {"replacing", "starting"}

\* What android_live will be when everything under way has arrived in order.
Word ==
    IF reports # <<>> THEN Last(reports)
    ELSE IF sync \in {"live", "not live"} THEN sync = "live"
    ELSE IF sync = "ask" THEN IsLive
    ELSE androidLive

LiveOK == raced \/ Pending \/ Word = IsLive

PInv == /\ Types /\ InstalledOK /\ FreshOK /\ CloserOK /\ ClosedOK
        /\ ReportsOK /\ FeedOK /\ LiveOK

----------------------------------------------------------------------------
(* Sequences of reports                                                    *)

LEMMA RemoveAtType ==
    ASSUME NEW s \in Seq(BOOLEAN), NEW i \in DOMAIN s
    PROVE  RemoveAt(s, i) \in Seq(BOOLEAN) /\ Len(RemoveAt(s, i)) = Len(s) - 1
<1>1. i \in 1..Len(s) /\ Len(s) \in Nat
    OBVIOUS
<1>2. /\ SubSeq(s, 1, i - 1) \in Seq(BOOLEAN)
      /\ Len(SubSeq(s, 1, i - 1)) = i - 1
    BY <1>1
<1>3. /\ SubSeq(s, i + 1, Len(s)) \in Seq(BOOLEAN)
      /\ Len(SubSeq(s, i + 1, Len(s))) = Len(s) - i
    BY <1>1
<1> DEFINE a == SubSeq(s, 1, i - 1)
<1> DEFINE b == SubSeq(s, i + 1, Len(s))
<1>4. RemoveAt(s, i) = a \o b
    BY DEF RemoveAt
<1> HIDE DEF a, b
<1>5. a \in Seq(BOOLEAN) /\ b \in Seq(BOOLEAN)
    BY <1>2, <1>3 DEF a, b
<1>6. a \o b \in Seq(BOOLEAN) /\ Len(a \o b) = Len(a) + Len(b)
    BY <1>5
<1>7. Len(a) = i - 1 /\ Len(b) = Len(s) - i
    BY <1>2, <1>3 DEF a, b
<1> QED
    BY <1>1, <1>4, <1>6, <1>7

\* Taking the oldest report leaves the newest one where it is.
LEMMA LastAfterFirst ==
    ASSUME NEW s \in Seq(BOOLEAN), s # <<>>
    PROVE  IF RemoveAt(s, 1) = <<>> THEN Last(s) = s[1]
           ELSE Last(RemoveAt(s, 1)) = Last(s)
<1>1. Len(s) \in Nat /\ Len(s) >= 1 /\ 1 \in DOMAIN s
    OBVIOUS
<1>2. RemoveAt(s, 1) \in Seq(BOOLEAN) /\ Len(RemoveAt(s, 1)) = Len(s) - 1
    BY <1>1, RemoveAtType
<1>3. SubSeq(s, 1, 0) = <<>>
    BY <1>1
<1>4. RemoveAt(s, 1) = SubSeq(s, 2, Len(s))
    BY <1>1, <1>3 DEF RemoveAt
<1>5. CASE Len(s) = 1
    BY <1>1, <1>2, <1>5 DEF Last
<1>6. CASE Len(s) # 1
    BY <1>1, <1>2, <1>4, <1>6 DEF Last
<1> QED
    BY <1>5, <1>6, Zenon

LEMMA AppendBoolean ==
    ASSUME NEW s \in Seq(BOOLEAN), NEW b \in BOOLEAN
    PROVE  /\ Append(s, b) \in Seq(BOOLEAN) /\ Len(Append(s, b)) = Len(s) + 1
           /\ Append(s, b) # <<>> /\ Last(Append(s, b)) = b
    BY DEF Last

----------------------------------------------------------------------------
(* What the steps of a peer do to the peers                                *)

LEMMA SetPublisherEffect ==
    ASSUME Types, NEW p \in Peers, SetPublisher(p)
    PROVE  /\ peer' \in [Peers -> Peer]
           /\ peer'[p].set = (IF IsLive THEN "replacing" ELSE "starting")
           /\ peer'[p].old = publisher /\ peer'[p].conn = peer[p].conn
           /\ peer'[p].dones = peer[p].dones /\ peer'[p].ending = peer[p].ending
           /\ \A r \in Peers : r # p => peer'[r] = peer[r]
<1> DEFINE st == IF IsLive THEN "replacing" ELSE "starting"
<1>1. st \in {"replacing", "starting"} /\ publisher \in 0..MaxPeers
    BY DEF Types
<1>2. peer \in [Peers -> Peer] /\ peer' = [peer EXCEPT ![p].set = st, ![p].old = publisher]
    BY DEF Types, SetPublisher
<1> HIDE DEF st
<1>3. [peer[p] EXCEPT !.set = st, !.old = publisher] \in Peer
    BY <1>1, <1>2 DEF Peer
<1>4. peer'[p].set = st /\ peer'[p].old = publisher
    BY <1>2 DEF Peer
<1> QED
    BY <1>2, <1>3, <1>4 DEF Peer, st

\* The peers after p has closed o.
Closed(f, p, o) == [f EXCEPT ![p].set = "starting",
                             ![o].dones = @ + 1, ![o].conn = "gone"]

LEMMA ClosedEffect ==
    ASSUME NEW f \in [Peers -> Peer], NEW p \in Peers, NEW o \in Peers, o # p,
           f[o].dones = 0
    PROVE  LET g == Closed(f, p, o)
           IN  /\ g \in [Peers -> Peer]
               /\ g[p].set = "starting" /\ g[p].old = f[p].old
               /\ g[p].dones = f[p].dones /\ g[p].ending = f[p].ending
               /\ g[o].dones = 1 /\ g[o].ending = f[o].ending
               /\ g[o].set = f[o].set /\ g[o].old = f[o].old
               /\ \A r \in Peers : r \notin {p, o} => g[r] = f[r]
<1> DEFINE n == f[o].dones + 1
<1> DEFINE h == [f EXCEPT ![p].set = "starting", ![o].dones = n, ![o].conn = "gone"]
<1>0. n \in 0..2
    OBVIOUS
<1>1. n = 1
    OBVIOUS
<1>2. Closed(f, p, o) = h
    BY DEF Closed
<1> HIDE DEF n
<1>3. [f[p] EXCEPT !.set = "starting"] \in Peer
    BY DEF Peer
<1>4. [f[o] EXCEPT !.dones = n, !.conn = "gone"] \in Peer
    BY <1>0 DEF Peer
<1>5. h \in [Peers -> Peer] /\ \A r \in Peers : r \notin {p, o} => h[r] = f[r]
    BY <1>3, <1>4
<1>6. h[p] = [f[p] EXCEPT !.set = "starting"]
    OBVIOUS
<1>7. h[o] = [f[o] EXCEPT !.dones = n, !.conn = "gone"]
    OBVIOUS
<1> HIDE DEF h
<1>8. /\ h[p].set = "starting" /\ h[p].old = f[p].old
      /\ h[p].dones = f[p].dones /\ h[p].ending = f[p].ending
    BY <1>6 DEF Peer
<1>9. /\ h[o].dones = 1 /\ h[o].ending = f[o].ending
      /\ h[o].set = f[o].set /\ h[o].old = f[o].old
    BY <1>1, <1>7 DEF Peer
<1> QED
    BY <1>2, <1>5, <1>8, <1>9

LEMMA CloseOldEffect ==
    ASSUME Types, NEW p \in Peers, CloseOld(p), NEW o \in Peers, o = peer[p].old, o # p,
           peer[o].dones = 0
    PROVE  /\ peer' \in [Peers -> Peer]
           /\ peer'[p].set = "starting" /\ peer'[p].old = peer[p].old
           /\ peer'[p].dones = peer[p].dones /\ peer'[p].ending = peer[p].ending
           /\ peer'[o].dones = 1 /\ peer'[o].ending = peer[o].ending
           /\ peer'[o].set = peer[o].set /\ peer'[o].old = peer[o].old
           /\ \A r \in Peers : r \notin {p, o} => peer'[r] = peer[r]
<1>1. peer \in [Peers -> Peer]
    BY DEF Types
<1>2. peer' = Closed(peer, p, o)
    BY DEF CloseOld, Closed
<1> QED
    BY <1>1, <1>2, ClosedEffect

LEMMA StartReaderEffect ==
    ASSUME Types, NEW p \in Peers, StartReader(p)
    PROVE  /\ peer' \in [Peers -> Peer]
           /\ peer'[p].set = "done" /\ peer'[p].old = peer[p].old
           /\ peer'[p].dones = peer[p].dones /\ peer'[p].ending = peer[p].ending
           /\ \A r \in Peers : r # p => peer'[r] = peer[r]
<1>1. peer \in [Peers -> Peer]
    BY DEF Types
<1>2. peer' = [peer EXCEPT ![p].set = "done", ![p].reader = "reading"]
    BY DEF StartReader
<1>3. [peer[p] EXCEPT !.set = "done", !.reader = "reading"] \in Peer
    BY <1>1 DEF Peer
<1> QED
    BY <1>1, <1>2, <1>3 DEF Peer

\* The removal of the publisher, from StateCallback and from ReaderFails.
LEMMA RemovedEffect ==
    ASSUME NEW f \in [Peers -> Peer], NEW p \in Peers, publisher = p, f[p].dones = 0
    PROVE  /\ Removed(p, f) \in [Peers -> Peer]
           /\ Removed(p, f)[p].dones = 1 /\ Removed(p, f)[p].ending
           /\ Removed(p, f)[p].set = f[p].set /\ Removed(p, f)[p].old = f[p].old
           /\ \A r \in Peers : r # p => Removed(p, f)[r] = f[r]
<1> DEFINE n == f[p].dones + 1
<1>0. n \in 0..2
    OBVIOUS
<1>6. n = 1
    OBVIOUS
<1>1. Removed(p, f) = [f EXCEPT ![p].ending = TRUE, ![p].dones = n]
    BY DEF Removed
<1> HIDE DEF n
<1>2. [f[p] EXCEPT !.ending = TRUE, !.dones = n] \in Peer
    BY <1>0 DEF Peer
<1> DEFINE g == [f EXCEPT ![p].ending = TRUE, ![p].dones = n]
<1>3. g \in [Peers -> Peer] /\ \A r \in Peers : r # p => g[r] = f[r]
    BY <1>2
<1>4. g[p] = [f[p] EXCEPT !.ending = TRUE, !.dones = n]
    OBVIOUS
<1> HIDE DEF g
<1>5. g[p].dones = 1 /\ g[p].ending /\ g[p].set = f[p].set /\ g[p].old = f[p].old
    BY <1>4, <1>6 DEF Peer
<1> QED
    BY <1>1, <1>3, <1>5 DEF g

LEMMA StateCallbackEffect ==
    ASSUME Types, InstalledOK, NEW p \in Peers, StateCallback(p)
    PROVE  /\ publisher = p /\ publisher' = 0
           /\ peer' \in [Peers -> Peer]
           /\ peer'[p].dones = 1 /\ peer'[p].ending
           /\ peer'[p].set = peer[p].set /\ peer'[p].old = peer[p].old
           /\ \A r \in Peers : r # p => peer'[r] = peer[r]
<1>1. publisher = p /\ publisher' = 0 /\ peer' = Removed(p, peer)
    BY DEF StateCallback, IsInstalled
<1>2. peer \in [Peers -> Peer] /\ peer[p].dones = 0
    BY <1>1 DEF Types, InstalledOK, Untouched
<1> QED
    BY <1>1, <1>2, RemovedEffect

LEMMA ReaderReturns ==
    ASSUME Types, NEW p \in Peers
    PROVE  LET f == [peer EXCEPT ![p].reader = "returned"]
           IN  /\ f \in [Peers -> Peer]
               /\ f[p].dones = peer[p].dones /\ f[p].ending = peer[p].ending
               /\ f[p].set = peer[p].set /\ f[p].old = peer[p].old
               /\ \A r \in Peers : r # p => f[r] = peer[r]
    BY DEF Types, Peer

LEMMA ReaderFailsEffect ==
    ASSUME Types, InstalledOK, NEW p \in Peers, ReaderFails(p)
    PROVE  /\ peer' \in [Peers -> Peer]
           /\ IF publisher = p
              THEN publisher' = 0 /\ peer'[p].dones = 1 /\ peer'[p].ending
              ELSE /\ publisher' = publisher /\ peer'[p].dones = peer[p].dones
                   /\ peer'[p].ending = peer[p].ending
           /\ peer'[p].set = peer[p].set /\ peer'[p].old = peer[p].old
           /\ \A r \in Peers : r # p => peer'[r] = peer[r]
<1> DEFINE f == [peer EXCEPT ![p].reader = "returned"]
<1>1. /\ f \in [Peers -> Peer]
      /\ f[p].dones = peer[p].dones /\ f[p].ending = peer[p].ending
      /\ f[p].set = peer[p].set /\ f[p].old = peer[p].old
      /\ \A r \in Peers : r # p => f[r] = peer[r]
    BY ReaderReturns
<1>2. IF publisher = p THEN publisher' = 0 /\ peer' = Removed(p, f)
      ELSE publisher' = publisher /\ peer' = f
    BY DEF ReaderFails, IsInstalled
<1> HIDE DEF f
<1>3. CASE publisher = p
  <2>1. f[p].dones = 0
      BY <1>1, <1>3 DEF InstalledOK, Untouched
  <2>2. /\ Removed(p, f) \in [Peers -> Peer]
        /\ Removed(p, f)[p].dones = 1 /\ Removed(p, f)[p].ending
        /\ Removed(p, f)[p].set = f[p].set /\ Removed(p, f)[p].old = f[p].old
        /\ \A r \in Peers : r # p => Removed(p, f)[r] = f[r]
      BY <1>1, <1>3, <2>1, RemovedEffect
  <2> QED
      BY <1>1, <1>2, <1>3, <2>2
<1>4. CASE publisher # p
    BY <1>1, <1>2, <1>4
<1> QED
    BY <1>3, <1>4

LEMMA EndRemovedEffect ==
    ASSUME Types, NEW p \in Peers, EndRemoved(p)
    PROVE  /\ peer' \in [Peers -> Peer]
           /\ ~peer'[p].ending /\ peer'[p].dones = peer[p].dones
           /\ peer'[p].set = peer[p].set /\ peer'[p].old = peer[p].old
           /\ \A r \in Peers : r # p => peer'[r] = peer[r]
<1>1. peer \in [Peers -> Peer] /\ peer' = [peer EXCEPT ![p].ending = FALSE]
    BY DEF Types, EndRemoved
<1> QED
    BY <1>1 DEF Peer

LEMMA GoneEffect ==
    ASSUME Types, NEW p \in Peers, Gone(p)
    PROVE  /\ peer' \in [Peers -> Peer]
           /\ \A r \in Peers : /\ peer'[r].set = peer[r].set /\ peer'[r].old = peer[r].old
                               /\ peer'[r].dones = peer[r].dones
                               /\ peer'[r].ending = peer[r].ending
<1>1. peer \in [Peers -> Peer] /\ peer' = [peer EXCEPT ![p].conn = "gone"]
    BY DEF Types, Gone
<1> QED
    BY <1>1 DEF Peer

----------------------------------------------------------------------------
(* Types                                                                   *)

LEMMA PeersAreNat == Peers \subseteq Nat \ {0} /\ MaxPeers \in Nat
    BY PublishersAssumption DEF Peers

LEMMA TypesStep == Types /\ ClosedOK /\ InstalledOK /\ CloserOK /\ [Next]_vars => Types'
<1> SUFFICES ASSUME Types, ClosedOK, InstalledOK, CloserOK, [Next]_vars PROVE Types'
    OBVIOUS
<1>1. ASSUME NEW p \in Peers, SetPublisher(p) PROVE Types'
  <2>1. publisher' \in 0..MaxPeers
      BY <1>1, PeersAreNat DEF SetPublisher, Peers
  <2> QED
      BY <1>1, <2>1, SetPublisherEffect DEF SetPublisher, Types, feedVars
<1>2. ASSUME NEW p \in Peers, CloseOld(p) PROVE Types'
  <2>1. peer[p].old \in Peers /\ peer[peer[p].old].dones = 0 /\ peer[p].old # p
      BY <1>2 DEF CloserOK, Untouched, CloseOld
  <2>2. peer' \in [Peers -> Peer]
      BY <1>2, <2>1, CloseOldEffect
  <2> QED
      BY <1>2, <2>2 DEF CloseOld, Types, End
<1>3. ASSUME NEW p \in Peers, StartReader(p) PROVE Types'
  <2>1. peer' \in [Peers -> Peer]
      BY <1>3, StartReaderEffect
  <2>2. reports' \in Seq(BOOLEAN) /\ raced' \in BOOLEAN
      BY <1>3 DEF StartReader, Types, Report
  <2> QED
      BY <1>3, <2>1, <2>2 DEF StartReader, Types, feedVars
<1>4. ASSUME NEW p \in Peers, Gone(p) PROVE Types'
  <2>1. peer' \in [Peers -> Peer]
      BY <1>4, GoneEffect
  <2> QED
      BY <1>4, <2>1 DEF Gone, Types, feedVars
<1>5. ASSUME NEW p \in Peers, StateCallback(p) PROVE Types'
  <2>1. publisher' \in 0..MaxPeers /\ peer' \in [Peers -> Peer]
      BY <1>5, PeersAreNat, StateCallbackEffect
  <2> QED
      BY <1>5, <2>1 DEF StateCallback, Types, feedVars
<1>6. ASSUME NEW p \in Peers, ReaderFails(p) PROVE Types'
  <2>1. publisher' \in 0..MaxPeers /\ peer' \in [Peers -> Peer]
      BY <1>6, PeersAreNat, ReaderFailsEffect DEF Types
  <2> QED
      BY <1>6, <2>1 DEF ReaderFails, Types, feedVars
<1>7. ASSUME NEW p \in Peers, EndRemoved(p) PROVE Types'
  <2>1. peer' \in [Peers -> Peer]
      BY <1>7, EndRemovedEffect
  <2>2. reports' \in Seq(BOOLEAN) /\ raced' \in BOOLEAN
      BY <1>7 DEF EndRemoved, Types, Report
  <2> QED
      BY <1>7, <2>1, <2>2 DEF EndRemoved, Types, End
<1>8. ASSUME NEW p \in Peers, Packet(p) PROVE Types'
  <2>1. lastOf' \in 0..MaxPeers
      BY <1>8, PeersAreNat DEF Packet, Types, Peers
  <2>2. strayed' \in BOOLEAN
      BY <1>8 DEF Packet
  <2> QED
      BY <1>8, <2>1, <2>2 DEF Packet, Types
<1>9. ASSUME NEW i \in DOMAIN reports, ReportArrives(i) PROVE Types'
  <2>1. RemoveAt(reports, i) \in Seq(BOOLEAN) /\ reports[i] \in BOOLEAN
      BY RemoveAtType DEF Types
  <2> QED
      BY <1>9, <2>1 DEF ReportArrives, Types, feedVars
<1>10. ASSUME NEW i \in DOMAIN reports, ReportLost(i) PROVE Types'
    BY <1>10, RemoveAtType DEF ReportLost, Types, feedVars
<1>11. CASE SendEnd
    BY <1>11 DEF SendEnd, Types, feedVars
<1>12. CASE EndArrives
    BY <1>12 DEF EndArrives, Types, feedVars, IsLive
<1>13. CASE SyncAnswered
    BY <1>13 DEF SyncAnswered, Types, feedVars, SyncState
<1>14. CASE SyncApplied
    BY <1>14 DEF SyncApplied, Types, feedVars, SyncState
<1>15. CASE RestartVision
  <2>1. restarts' \in 0..MaxRestarts
      BY <1>15, PublishersAssumption DEF RestartVision, Types
  <2> QED
      BY <1>15, <2>1 DEF RestartVision, Types, feedVars, SyncState
<1>16. CASE UNCHANGED vars
    BY <1>16 DEF vars, Types, feedVars
<1> QED
    BY <1>1, <1>2, <1>3, <1>4, <1>5, <1>6, <1>7, <1>8, <1>9, <1>10, <1>11, <1>12,
       <1>13, <1>14, <1>15, <1>16 DEF Next, PeerNext, VisionNext

----------------------------------------------------------------------------
(* Who closes whom                                                         *)

PeersOK == InstalledOK /\ FreshOK /\ CloserOK /\ ClosedOK

LEMMA PeersKept ==
    ASSUME PeersOK, publisher' = publisher,
           \A r \in Peers : /\ peer'[r].set = peer[r].set /\ peer'[r].old = peer[r].old
                            /\ peer'[r].dones = peer[r].dones
                            /\ peer'[r].ending = peer[r].ending
    PROVE  PeersOK'
    BY DEF PeersOK, InstalledOK, FreshOK, CloserOK, ClosedOK, Untouched, Replaces

LEMMA PeersSetPublisher ==
    ASSUME Types, PeersOK, NEW p \in Peers, SetPublisher(p)
    PROVE  PeersOK'
<1>1. /\ peer'[p].set = (IF IsLive THEN "replacing" ELSE "starting")
      /\ peer'[p].old = publisher
      /\ peer'[p].dones = peer[p].dones /\ peer'[p].ending = peer[p].ending
      /\ \A r \in Peers : r # p => peer'[r] = peer[r]
    BY SetPublisherEffect
<1>2. peer[p].set = "none" /\ publisher' = p /\ publisher # p
    BY DEF SetPublisher, PeersOK, FreshOK
<1>3. Untouched(p) /\ \A q \in Peers : ~Replaces(q, p)
    BY <1>2 DEF PeersOK, InstalledOK
<1>4. publisher # 0 => /\ publisher \in Peers /\ Untouched(publisher)
                       /\ \A q \in Peers : ~Replaces(q, publisher)
    BY DEF Types, PeersOK, InstalledOK, Peers
<1>5. peer'[p].set = "replacing" => publisher # 0
    BY <1>1 DEF IsLive
<1>6. InstalledOK'
  <2> SUFFICES ASSUME NEW r \in Peers, (publisher = r \/ peer[r].set = "none")'
               PROVE  Untouched(r)' /\ \A q \in Peers : ~Replaces(q, r)'
      BY DEF InstalledOK
  <2>1. CASE r = p
      BY <2>1, <1>1, <1>2, <1>3 DEF Untouched, Replaces
  <2>2. CASE r # p
    <3>1. peer[r].set = "none" /\ publisher # r
        BY <2>2, <1>1, <1>2 DEF PeersOK, FreshOK
    <3>2. Untouched(r) /\ \A q \in Peers : ~Replaces(q, r)
        BY <3>1 DEF PeersOK, InstalledOK
    <3> QED
        BY <2>2, <3>1, <3>2, <1>1 DEF Untouched, Replaces
  <2> QED
      BY <2>1, <2>2
<1>7. FreshOK'
    BY <1>1, <1>2 DEF FreshOK
<1>8. CloserOK'
  <2> SUFFICES ASSUME NEW q \in Peers, (peer[q].set = "replacing")'
               PROVE  (/\ peer[q].old \in Peers /\ peer[q].old # q
                       /\ Untouched(peer[q].old)
                       /\ \A r \in Peers : Replaces(r, peer[q].old) => r = q)'
      BY DEF CloserOK
  <2>1. CASE q = p
      BY <2>1, <1>1, <1>2, <1>4, <1>5 DEF Untouched, Replaces
  <2>2. CASE q # p
    <3>1. peer'[q] = peer[q] /\ Replaces(q, peer[q].old)
        BY <2>2, <1>1 DEF Replaces
    <3>2. /\ peer[q].old \in Peers /\ peer[q].old # q /\ Untouched(peer[q].old)
          /\ \A r \in Peers : Replaces(r, peer[q].old) => r = q
        BY <3>1 DEF PeersOK, CloserOK, Replaces
    <3>3. peer[q].old # p /\ (publisher # 0 => peer[q].old # publisher)
        BY <3>1, <1>3, <1>4
    <3> QED
        BY <3>1, <3>2, <3>3, <1>1, <1>5 DEF Untouched, Replaces
  <2> QED
      BY <2>1, <2>2
<1>9. ClosedOK'
    BY <1>1 DEF PeersOK, ClosedOK
<1> QED
    BY <1>6, <1>7, <1>8, <1>9 DEF PeersOK

LEMMA PeersCloseOld ==
    ASSUME Types, PeersOK, NEW p \in Peers, CloseOld(p)
    PROVE  PeersOK'
<1> DEFINE o == peer[p].old
<1>1. /\ peer[p].set = "replacing" /\ publisher' = publisher
      /\ Replaces(p, o)
    BY DEF CloseOld, Replaces
<1>2. /\ o \in Peers /\ o # p /\ Untouched(o)
      /\ \A r \in Peers : Replaces(r, o) => r = p
    BY <1>1 DEF PeersOK, CloserOK
<1>3. publisher # o /\ peer[o].set # "none"
    BY <1>1, <1>2 DEF PeersOK, InstalledOK
<1>4. /\ peer'[p].set = "starting" /\ peer'[p].old = peer[p].old
      /\ peer'[p].dones = peer[p].dones /\ peer'[p].ending = peer[p].ending
      /\ peer'[o].dones = 1 /\ peer'[o].ending = peer[o].ending
      /\ peer'[o].set = peer[o].set /\ peer'[o].old = peer[o].old
      /\ \A r \in Peers : r \notin {p, o} => peer'[r] = peer[r]
    BY <1>2, CloseOldEffect DEF Untouched
<1> HIDE DEF o
<1>5. \A r \in Peers : r # o => (Untouched(r)' <=> Untouched(r))
    BY <1>4 DEF Untouched
<1>6. \A q, r \in Peers : Replaces(q, r)' => Replaces(q, r) /\ r # o
    BY <1>1, <1>2, <1>4 DEF Replaces
<1>7. \A r \in Peers : peer'[r].set = "none" => peer[r].set = "none"
    BY <1>1, <1>4
<1>8. InstalledOK' /\ FreshOK'
    BY <1>1, <1>3, <1>4, <1>5, <1>6, <1>7 DEF PeersOK, InstalledOK, FreshOK
<1>9. CloserOK'
  <2> SUFFICES ASSUME NEW q \in Peers, (peer[q].set = "replacing")'
               PROVE  (/\ peer[q].old \in Peers /\ peer[q].old # q
                       /\ Untouched(peer[q].old)
                       /\ \A r \in Peers : Replaces(r, peer[q].old) => r = q)'
      BY DEF CloserOK
  <2>1. q # p /\ peer[q].set = "replacing" /\ peer'[q].old = peer[q].old
      BY <1>4
  <2>2. /\ peer[q].old \in Peers /\ peer[q].old # q /\ Untouched(peer[q].old)
        /\ \A r \in Peers : Replaces(r, peer[q].old) => r = q
      BY <2>1 DEF PeersOK, CloserOK
  <2>3. peer[q].old # o
      BY <2>1, <1>2 DEF Replaces
  <2> QED
      BY <2>1, <2>2, <2>3, <1>5, <1>6
<1>10. ClosedOK'
    BY <1>2, <1>4 DEF PeersOK, ClosedOK, Untouched
<1> QED
    BY <1>8, <1>9, <1>10 DEF PeersOK

\* The removal of the publisher, by the callback or by the reader.
LEMMA PeersRemoved ==
    ASSUME PeersOK, NEW p \in Peers, publisher = p, publisher' = 0,
           peer'[p].dones = 1, peer'[p].ending,
           peer'[p].set = peer[p].set, peer'[p].old = peer[p].old,
           \A r \in Peers : r # p => peer'[r] = peer[r]
    PROVE  PeersOK'
<1>1. peer[p].set # "none" /\ \A q \in Peers : ~Replaces(q, p)
    BY DEF PeersOK, FreshOK, InstalledOK
<1>2. \A q \in Peers : peer'[q].set = peer[q].set /\ peer'[q].old = peer[q].old
    OBVIOUS
<1>3. 0 \notin Peers
    BY PeersAreNat
<1>4. InstalledOK' /\ FreshOK'
    BY <1>1, <1>2, <1>3 DEF PeersOK, InstalledOK, FreshOK, Untouched, Replaces
<1>5. CloserOK'
    BY <1>1, <1>2 DEF PeersOK, CloserOK, Untouched, Replaces
<1>6. ClosedOK'
    BY DEF PeersOK, ClosedOK
<1> QED
    BY <1>4, <1>5, <1>6 DEF PeersOK

LEMMA PeersStep == Types /\ PeersOK /\ [Next]_vars => PeersOK'
<1> SUFFICES ASSUME Types, PeersOK, [Next]_vars PROVE PeersOK'
    OBVIOUS
<1>1. ASSUME NEW p \in Peers, SetPublisher(p) PROVE PeersOK'
    BY <1>1, PeersSetPublisher
<1>2. ASSUME NEW p \in Peers, CloseOld(p) PROVE PeersOK'
    BY <1>2, PeersCloseOld
<1>3. ASSUME NEW p \in Peers, StartReader(p) PROVE PeersOK'
  <2>1. /\ peer[p].set = "starting" /\ publisher' = publisher
        /\ peer'[p].set = "done" /\ peer'[p].old = peer[p].old
        /\ peer'[p].dones = peer[p].dones /\ peer'[p].ending = peer[p].ending
        /\ \A r \in Peers : r # p => peer'[r] = peer[r]
      BY <1>3, StartReaderEffect DEF StartReader
  <2>2. \A q, r \in Peers : Replaces(q, r)' => Replaces(q, r)
      BY <2>1 DEF Replaces
  <2>3. \A r \in Peers : Untouched(r)' <=> Untouched(r)
      BY <2>1 DEF Untouched
  <2>4. InstalledOK' /\ FreshOK'
      BY <2>1, <2>2, <2>3 DEF PeersOK, InstalledOK, FreshOK
  <2>5. CloserOK' /\ ClosedOK'
      BY <2>1, <2>2, <2>3 DEF PeersOK, CloserOK, ClosedOK
  <2> QED
      BY <2>4, <2>5 DEF PeersOK
<1>4. ASSUME NEW p \in Peers, Gone(p) PROVE PeersOK'
    BY <1>4, GoneEffect, PeersKept DEF Gone
<1>5. ASSUME NEW p \in Peers, StateCallback(p) PROVE PeersOK'
    BY <1>5, StateCallbackEffect, PeersRemoved DEF PeersOK
<1>6. ASSUME NEW p \in Peers, ReaderFails(p) PROVE PeersOK'
  <2>1. /\ IF publisher = p
           THEN publisher' = 0 /\ peer'[p].dones = 1 /\ peer'[p].ending
           ELSE /\ publisher' = publisher /\ peer'[p].dones = peer[p].dones
                /\ peer'[p].ending = peer[p].ending
        /\ peer'[p].set = peer[p].set /\ peer'[p].old = peer[p].old
        /\ \A r \in Peers : r # p => peer'[r] = peer[r]
      BY <1>6, ReaderFailsEffect DEF PeersOK
  <2>2. CASE publisher = p
      BY <2>1, <2>2, PeersRemoved
  <2>3. CASE publisher # p
      BY <2>1, <2>3, PeersKept
  <2> QED
      BY <2>2, <2>3
<1>7. ASSUME NEW p \in Peers, EndRemoved(p) PROVE PeersOK'
  <2>1. /\ peer[p].ending /\ publisher' = publisher
        /\ ~peer'[p].ending /\ peer'[p].dones = peer[p].dones
        /\ peer'[p].set = peer[p].set /\ peer'[p].old = peer[p].old
        /\ \A r \in Peers : r # p => peer'[r] = peer[r]
      BY <1>7, EndRemovedEffect DEF EndRemoved
  <2>2. \A q, r \in Peers : Replaces(q, r)' <=> Replaces(q, r)
      BY <2>1 DEF Replaces
  <2>3. \A r \in Peers : Untouched(r) => Untouched(r)'
      BY <2>1 DEF Untouched
  <2>4. InstalledOK' /\ FreshOK'
      BY <2>1, <2>2, <2>3 DEF PeersOK, InstalledOK, FreshOK
  <2>5. CloserOK' /\ ClosedOK'
      BY <2>1, <2>2, <2>3 DEF PeersOK, CloserOK, ClosedOK
  <2> QED
      BY <2>4, <2>5 DEF PeersOK
<1>8. ASSUME UNCHANGED <<publisher, peer>> PROVE PeersOK'
    BY <1>8, PeersKept
<1>9. ASSUME NEW p \in Peers, Packet(p) PROVE PeersOK'
    BY <1>8, <1>9 DEF Packet
<1>10. CASE VisionNext
    BY <1>8, <1>10 DEF VisionNext, ReportArrives, ReportLost, SendEnd, EndArrives,
                       SyncAnswered, SyncApplied, RestartVision
<1>11. CASE UNCHANGED vars
    BY <1>8, <1>11 DEF vars
<1> QED
    BY <1>1, <1>2, <1>3, <1>4, <1>5, <1>6, <1>7, <1>9, <1>10, <1>11 DEF Next, PeerNext

----------------------------------------------------------------------------
(* How many reports there can be                                           *)

LEMMA PeersFinite ==
    ASSUME NEW S \in SUBSET Peers
    PROVE  IsFiniteSet(S) /\ Cardinality(S) \in Nat /\ Cardinality(S) <= MaxPeers
<1>1. MaxPeers \in Int /\ 1 \in Int
    BY PeersAreNat
<1>2. IsFiniteSet(Peers) /\ Cardinality(Peers) = MaxPeers
    BY <1>1, PeersAreNat, FS_Interval DEF Peers
<1>3. IsFiniteSet(S) /\ Cardinality(S) <= Cardinality(Peers)
    BY <1>2, FS_Subset
<1> QED
    BY <1>2, <1>3, FS_CardinalityType

LEMMA MorePeers ==
    ASSUME NEW S \in SUBSET Peers, NEW T \in SUBSET Peers, S \subseteq T
    PROVE  /\ Cardinality(S) <= Cardinality(T)
           /\ \A p \in T : p \notin S => Cardinality(S) + 1 <= Cardinality(T)
<1>1. /\ IsFiniteSet(S) /\ IsFiniteSet(T)
      /\ Cardinality(S) \in Nat /\ Cardinality(T) \in Nat
    BY PeersFinite
<1>2. Cardinality(S) <= Cardinality(T)
    BY <1>1, FS_Subset
<1>3. ASSUME NEW p \in T, p \notin S PROVE Cardinality(S) + 1 <= Cardinality(T)
  <2>1. IsFiniteSet(S \cup {p}) /\ Cardinality(S \cup {p}) = Cardinality(S) + 1
      BY <1>1, <1>3, FS_AddElement
  <2>2. S \cup {p} \subseteq T
      BY <1>3
  <2>3. Cardinality(S \cup {p}) <= Cardinality(T)
      BY <1>1, <2>2, FS_Subset
  <2> QED
      BY <2>1, <2>3
<1> QED
    BY <1>2, <1>3

LEMMA ReportsKept ==
    ASSUME Types, Types', ReportsOK, Len(reports') <= Len(reports),
           Started \subseteq Started', Finished \subseteq Finished'
    PROVE  ReportsOK'
<1>1. /\ Started \in SUBSET Peers /\ Started' \in SUBSET Peers
      /\ Finished \in SUBSET Peers /\ Finished' \in SUBSET Peers
    BY DEF Started, Finished
<1>2. /\ Cardinality(Started) \in Nat /\ Cardinality(Started') \in Nat
      /\ Cardinality(Finished) \in Nat /\ Cardinality(Finished') \in Nat
    BY <1>1, PeersFinite
<1>3. /\ Cardinality(Started) <= Cardinality(Started')
      /\ Cardinality(Finished) <= Cardinality(Finished')
    BY <1>1, MorePeers
<1>4. Len(reports) \in Nat /\ Len(reports') \in Nat
    BY DEF Types
<1> QED
    BY <1>2, <1>3, <1>4 DEF ReportsOK

LEMMA OneMoreReport ==
    ASSUME Types, Types', ReportsOK, Len(reports') = Len(reports) + 1,
           Started \subseteq Started', Finished \subseteq Finished',
           NEW p \in Peers,
           p \in Started' \ Started \/ p \in Finished' \ Finished
    PROVE  ReportsOK'
<1>1. /\ Started \in SUBSET Peers /\ Started' \in SUBSET Peers
      /\ Finished \in SUBSET Peers /\ Finished' \in SUBSET Peers
    BY DEF Started, Finished
<1>2. /\ Cardinality(Started) \in Nat /\ Cardinality(Started') \in Nat
      /\ Cardinality(Finished) \in Nat /\ Cardinality(Finished') \in Nat
    BY <1>1, PeersFinite
<1>3. /\ Cardinality(Started) <= Cardinality(Started')
      /\ Cardinality(Finished) <= Cardinality(Finished')
    BY <1>1, MorePeers
<1>4. \/ Cardinality(Started) + 1 <= Cardinality(Started')
      \/ Cardinality(Finished) + 1 <= Cardinality(Finished')
    BY <1>1, MorePeers
<1>5. Len(reports) \in Nat /\ Len(reports') \in Nat
    BY DEF Types
<1> QED
    BY <1>2, <1>3, <1>4, <1>5 DEF ReportsOK

LEMMA ReportsStep ==
    Types /\ Types' /\ PeersOK /\ ReportsOK /\ [Next]_vars => ReportsOK'
<1> SUFFICES ASSUME Types, Types', PeersOK, ReportsOK, [Next]_vars PROVE ReportsOK'
    OBVIOUS
<1>0. Len(reports) \in Nat /\ reports \in Seq(BOOLEAN)
    BY DEF Types
<1>1. ASSUME NEW p \in Peers, SetPublisher(p) PROVE ReportsOK'
  <2>1. reports' = reports /\ peer[p].set = "none"
      BY <1>1 DEF SetPublisher
  <2>2. Started \subseteq Started' /\ Finished \subseteq Finished'
      BY <1>1, <2>1, SetPublisherEffect DEF Started, Finished
  <2> QED
      BY <1>0, <2>1, <2>2, ReportsKept
<1>2. ASSUME NEW p \in Peers, CloseOld(p) PROVE ReportsOK'
  <2> DEFINE o == peer[p].old
  <2>1. reports' = reports /\ peer[p].set = "replacing"
      BY <1>2 DEF CloseOld
  <2>2. o \in Peers /\ o # p /\ Untouched(o)
      BY <2>1 DEF PeersOK, CloserOK
  <2>3. /\ peer'[p].set = "starting" /\ peer'[p].old = peer[p].old
        /\ peer'[p].dones = peer[p].dones /\ peer'[p].ending = peer[p].ending
        /\ peer'[o].dones = 1 /\ peer'[o].ending = peer[o].ending
        /\ peer'[o].set = peer[o].set /\ peer'[o].old = peer[o].old
        /\ \A r \in Peers : r \notin {p, o} => peer'[r] = peer[r]
      BY <1>2, <2>2, CloseOldEffect DEF Untouched
  <2> HIDE DEF o
  <2>4. Started \subseteq Started' /\ Finished \subseteq Finished'
      BY <2>1, <2>2, <2>3 DEF Started, Finished
  <2> QED
      BY <1>0, <2>1, <2>4, ReportsKept
<1>3. ASSUME NEW p \in Peers, StartReader(p) PROVE ReportsOK'
  <2>1. Len(reports') = Len(reports) + 1 /\ peer[p].set = "starting"
      BY <1>0, <1>3 DEF StartReader, Report
  <2>2. Started \subseteq Started' /\ Finished \subseteq Finished'
      BY <1>3, StartReaderEffect DEF Started, Finished
  <2>3. p \in Started' \ Started
      BY <1>3, <2>1, StartReaderEffect DEF Started
  <2> QED
      BY <2>1, <2>2, <2>3, OneMoreReport
<1>4. ASSUME NEW p \in Peers, Gone(p) PROVE ReportsOK'
  <2>1. Started \subseteq Started' /\ Finished \subseteq Finished'
      BY <1>4, GoneEffect DEF Started, Finished
  <2> QED
      BY <1>0, <1>4, <2>1, ReportsKept DEF Gone
<1>5. ASSUME NEW p \in Peers, StateCallback(p) PROVE ReportsOK'
  <2>1. Untouched(p)
      BY <1>5 DEF StateCallback, IsInstalled, PeersOK, InstalledOK
  <2>2. Started \subseteq Started' /\ Finished \subseteq Finished'
      BY <1>5, <2>1, StateCallbackEffect DEF Started, Finished, Untouched, PeersOK
  <2> QED
      BY <1>0, <1>5, <2>2, ReportsKept DEF StateCallback
<1>6. ASSUME NEW p \in Peers, ReaderFails(p) PROVE ReportsOK'
  <2>1. publisher = p => Untouched(p)
      BY <1>6 DEF PeersOK, InstalledOK
  <2>2. Started \subseteq Started' /\ Finished \subseteq Finished'
      BY <1>6, <2>1, ReaderFailsEffect DEF Started, Finished, Untouched, PeersOK
  <2> QED
      BY <1>0, <1>6, <2>2, ReportsKept DEF ReaderFails
<1>7. ASSUME NEW p \in Peers, EndRemoved(p) PROVE ReportsOK'
  <2>1. /\ Len(reports') = Len(reports) + 1 /\ peer[p].ending
        /\ peer[p].dones = 1
      BY <1>0, <1>7 DEF EndRemoved, Report, PeersOK, ClosedOK
  <2>2. Started \subseteq Started' /\ Finished \subseteq Finished'
      BY <1>7, EndRemovedEffect DEF Started, Finished
  <2>3. p \in Finished' \ Finished
      BY <1>7, <2>1, EndRemovedEffect DEF Finished
  <2> QED
      BY <2>1, <2>2, <2>3, OneMoreReport
<1>8. ASSUME UNCHANGED peer, Len(reports') <= Len(reports) PROVE ReportsOK'
    BY <1>8, ReportsKept DEF Started, Finished
<1>9. ASSUME NEW p \in Peers, Packet(p) PROVE ReportsOK'
    BY <1>0, <1>8, <1>9 DEF Packet
<1>10. ASSUME NEW i \in DOMAIN reports, ReportArrives(i) \/ ReportLost(i)
       PROVE  ReportsOK'
  <2>1. Len(RemoveAt(reports, i)) = Len(reports) - 1
      BY <1>0, RemoveAtType
  <2>2. reports' = RemoveAt(reports, i) /\ peer' = peer
      BY <1>10 DEF ReportArrives, ReportLost
  <2> QED
      BY <1>0, <1>8, <2>1, <2>2
<1>11. CASE SendEnd \/ EndArrives \/ SyncAnswered \/ SyncApplied \/ RestartVision
  <2>1. reports' = reports /\ peer' = peer
      BY <1>11 DEF SendEnd, EndArrives, SyncAnswered, SyncApplied, RestartVision
  <2> QED
      BY <1>0, <1>8, <2>1
<1>12. CASE UNCHANGED vars
    BY <1>0, <1>8, <1>12 DEF vars
<1> QED
    BY <1>1, <1>2, <1>3, <1>4, <1>5, <1>6, <1>7, <1>9, <1>10, <1>11, <1>12
    DEF Next, PeerNext, VisionNext

----------------------------------------------------------------------------
(* Whose packets the feed remembers                                        *)

LEMMA FeedStep ==
    Types /\ Types' /\ PeersOK /\ FeedOK /\ [Next]_vars => FeedOK'
<1> SUFFICES ASSUME Types, Types', PeersOK, FeedOK, [Next]_vars,
                    lastOf' # 0, ~ended', ~strayed'
             PROVE  ~Left(lastOf)'
    BY DEF FeedOK
<1>0. lastOf' \in Peers
    BY DEF Types, Peers
<1>a. UNCHANGED feedVars => ~Left(lastOf) /\ lastOf' = lastOf /\ lastOf \in Peers
    BY <1>0 DEF FeedOK, feedVars
<1>1. ASSUME NEW p \in Peers, SetPublisher(p) PROVE ~Left(lastOf)'
  <2>1. UNCHANGED feedVars /\ peer[p].set = "none" /\ publisher' = p
      BY <1>1 DEF SetPublisher
  <2>2. /\ peer'[p].set = (IF IsLive THEN "replacing" ELSE "starting")
        /\ peer'[p].old = publisher /\ peer'[p].ending = peer[p].ending
        /\ \A r \in Peers : r # p => peer'[r] = peer[r]
      BY <1>1, SetPublisherEffect
  <2>3. 0 \notin Peers
      BY PeersAreNat
  <2> QED
      BY <1>a, <2>1, <2>2, <2>3 DEF Left, IsLive
<1>2. ASSUME NEW p \in Peers, CloseOld(p) \/ EndRemoved(p) PROVE ~Left(lastOf)'
    BY <1>2 DEF CloseOld, EndRemoved, End
<1>3. ASSUME NEW p \in Peers, StartReader(p) PROVE ~Left(lastOf)'
  <2>1. UNCHANGED feedVars /\ peer[p].set = "starting" /\ publisher' = publisher
      BY <1>3 DEF StartReader
  <2>2. /\ peer'[p].ending = peer[p].ending
        /\ \A r \in Peers : r # p => peer'[r] = peer[r]
      BY <1>3, StartReaderEffect
  <2> QED
      BY <1>a, <2>1, <2>2 DEF Left
<1>4. ASSUME NEW p \in Peers, Gone(p) PROVE ~Left(lastOf)'
  <2>1. UNCHANGED feedVars /\ publisher' = publisher
      BY <1>4 DEF Gone
  <2> QED
      BY <1>4, <1>a, <2>1, GoneEffect DEF Left
<1>5. ASSUME NEW p \in Peers, StateCallback(p) PROVE ~Left(lastOf)'
  <2>1. UNCHANGED feedVars
      BY <1>5 DEF StateCallback
  <2>2. /\ publisher = p /\ peer'[p].ending
        /\ peer'[p].set = peer[p].set /\ peer'[p].old = peer[p].old
        /\ \A r \in Peers : r # p => peer'[r] = peer[r]
      BY <1>5, StateCallbackEffect DEF PeersOK
  <2> QED
      BY <1>a, <2>1, <2>2 DEF Left
<1>6. ASSUME NEW p \in Peers, ReaderFails(p) PROVE ~Left(lastOf)'
  <2>1. UNCHANGED feedVars
      BY <1>6 DEF ReaderFails
  <2>2. /\ IF publisher = p THEN peer'[p].ending
           ELSE publisher' = publisher /\ peer'[p].ending = peer[p].ending
        /\ peer'[p].set = peer[p].set /\ peer'[p].old = peer[p].old
        /\ \A r \in Peers : r # p => peer'[r] = peer[r]
      BY <1>6, ReaderFailsEffect DEF PeersOK
  <2> QED
      BY <1>a, <2>1, <2>2 DEF Left
<1>7. ASSUME UNCHANGED <<publisher, peer, feedVars>> PROVE ~Left(lastOf)'
    BY <1>7, <1>a DEF Left
<1>8. ASSUME NEW p \in Peers, Packet(p) PROVE ~Left(lastOf)'
  <2>1. publisher' = publisher /\ peer' = peer /\ ~strayed /\ ~Left(p)
      BY <1>8 DEF Packet
  <2>a. lastOf' \in {0, p} \cup (IF ended THEN {} ELSE {lastOf})
      BY <1>8 DEF Packet
  <2>2. lastOf' = p \/ (lastOf' = lastOf /\ ~ended)
    <3>1. CASE ended
        BY <2>a, <3>1
    <3>2. CASE ~ended
        BY <2>a, <3>2
    <3> QED
        BY <3>1, <3>2
  <2>3. CASE lastOf' = p
      BY <2>1, <2>3 DEF Left
  <2>4. CASE lastOf' = lastOf /\ ~ended
      BY <2>1, <2>4 DEF FeedOK, Left
  <2> QED
      BY <2>2, <2>3, <2>4
<1>9. CASE VisionNext
    BY <1>7, <1>9 DEF VisionNext, ReportArrives, ReportLost, SendEnd, EndArrives,
                      SyncAnswered, SyncApplied, RestartVision
<1>10. CASE UNCHANGED vars
    BY <1>7, <1>10 DEF vars
<1> QED
    BY <1>1, <1>2, <1>3, <1>4, <1>5, <1>6, <1>8, <1>9, <1>10 DEF Next, PeerNext

----------------------------------------------------------------------------
(* What android_live will be                                               *)

\* Word does not look at the reader, nor at the connection.
LEMMA LiveKept ==
    ASSUME LiveOK, UNCHANGED <<publisher, reports, androidLive, sync, raced>>,
           Pending => Pending'
    PROVE  LiveOK'
    BY DEF LiveOK, Word, IsLive

LEMMA LiveReported ==
    ASSUME Types, NEW live \in BOOLEAN, Report(live), publisher' = publisher
    PROVE  LiveOK'
<1>1. reports' # <<>> /\ Last(reports') = live
    BY AppendBoolean DEF Types, Report
<1>2. Word' = live
    BY <1>1 DEF Word
<1>3. raced' \/ live = IsLive
    BY DEF Report
<1>4. IsLive' = IsLive
    BY DEF IsLive
<1> QED
    BY <1>2, <1>3, <1>4, Zenon DEF LiveOK

LEMMA LivePeers ==
    ASSUME Types, PeersOK, LiveOK, NEW p \in Peers, PeerNext(p)
    PROVE  LiveOK'
<1>1. CASE SetPublisher(p)
  <2>1. peer'[p].set \in {"replacing", "starting"}
      BY <1>1, SetPublisherEffect
  <2> QED
      BY <2>1 DEF LiveOK, Pending
<1>2. CASE CloseOld(p)
  <2>1. peer[p].old \in Peers /\ peer[peer[p].old].dones = 0 /\ peer[p].old # p
      BY <1>2 DEF PeersOK, CloserOK, Untouched, CloseOld
  <2>2. peer'[p].set = "starting"
      BY <1>2, <2>1, CloseOldEffect
  <2> QED
      BY <2>2 DEF LiveOK, Pending
<1>3. CASE StartReader(p)
    BY <1>3, LiveReported DEF StartReader
<1>4. CASE Gone(p)
  <2>1. Pending => Pending'
      BY <1>4, GoneEffect DEF Pending
  <2> QED
      BY <1>4, <2>1, LiveKept DEF Gone
<1>5. CASE StateCallback(p)
  <2>1. peer'[p].ending
      BY <1>5, StateCallbackEffect DEF PeersOK
  <2> QED
      BY <2>1 DEF LiveOK, Pending
<1>6. CASE ReaderFails(p)
  <2>1. /\ IF publisher = p THEN peer'[p].ending
           ELSE publisher' = publisher /\ peer'[p].ending = peer[p].ending
        /\ peer'[p].set = peer[p].set
        /\ \A r \in Peers : r # p => peer'[r] = peer[r]
      BY <1>6, ReaderFailsEffect DEF PeersOK
  <2>2. CASE publisher = p
      BY <2>1, <2>2 DEF LiveOK, Pending
  <2>3. CASE publisher # p
    <3>1. Pending => Pending'
        BY <2>1, <2>3 DEF Pending
    <3> QED
        BY <1>6, <2>1, <2>3, <3>1, LiveKept DEF ReaderFails
  <2> QED
      BY <2>2, <2>3
<1>7. CASE EndRemoved(p)
    BY <1>7, LiveReported DEF EndRemoved
<1>8. CASE Packet(p)
    BY <1>8, LiveKept DEF Packet, Pending
<1> QED
    BY <1>1, <1>2, <1>3, <1>4, <1>5, <1>6, <1>7, <1>8 DEF PeerNext

LEMMA LiveVision ==
    ASSUME Types, LiveOK, VisionNext
    PROVE  LiveOK'
<1>1. publisher' = publisher /\ peer' = peer
    BY DEF VisionNext, ReportArrives, ReportLost, SendEnd, EndArrives, SyncAnswered,
           SyncApplied, RestartVision
<1>2. (IsLive <=> IsLive') /\ (Pending <=> Pending')
    BY <1>1 DEF IsLive, Pending
<1>3. raced => raced'
    BY DEF VisionNext, ReportArrives, ReportLost, SendEnd, EndArrives, SyncAnswered,
           SyncApplied, RestartVision
<1> SUFFICES ASSUME ~raced', ~Pending' PROVE Word' = IsLive'
    BY DEF LiveOK
<1>4. Word = IsLive
    BY <1>2, <1>3 DEF LiveOK
<1>5. ASSUME NEW i \in DOMAIN reports, ReportArrives(i) PROVE Word' = IsLive'
  <2>1. i = 1 /\ sync \notin {"live", "not live"} /\ sync' = sync
      BY <1>5 DEF ReportArrives
  <2>2. reports \in Seq(BOOLEAN) /\ reports # <<>>
      BY <1>5 DEF Types
  <2>3. reports' = RemoveAt(reports, 1) /\ androidLive' = reports[1]
      BY <1>5, <2>1 DEF ReportArrives
  <2>4. IF reports' = <<>> THEN Last(reports) = reports[1]
        ELSE Last(reports') = Last(reports)
      BY <2>2, <2>3, LastAfterFirst
  <2>5. Last(reports) = IsLive
      BY <1>4, <2>2 DEF Word
  <2>6. IsLive' = IsLive
      BY <1>1 DEF IsLive
  <2> QED
      BY <2>1, <2>3, <2>4, <2>5, <2>6 DEF Word
<1>6. ASSUME NEW i \in DOMAIN reports, ReportLost(i) PROVE Word' = IsLive'
    BY <1>6 DEF ReportLost
<1>7. CASE SendEnd
    BY <1>1, <1>4, <1>7 DEF SendEnd, Word, IsLive
<1>8. CASE EndArrives
  <2>1. ~IsLive /\ androidLive' = FALSE /\ sync' = sync /\ reports' = reports
      BY <1>8 DEF EndArrives
  <2> QED
      BY <1>1, <1>4, <2>1 DEF Word, IsLive
<1>9. CASE SyncAnswered
    BY <1>1, <1>4, <1>9 DEF SyncAnswered, Word, IsLive
<1>10. CASE SyncApplied
    BY <1>1, <1>4, <1>10 DEF SyncApplied, Word, IsLive
<1>11. CASE RestartVision
    BY <1>1, <1>4, <1>11 DEF RestartVision, Word, IsLive
<1> QED
    BY <1>5, <1>6, <1>7, <1>8, <1>9, <1>10, <1>11 DEF VisionNext

----------------------------------------------------------------------------
(* Theorems                                                                *)

LEMMA PInit == Init => PInv
<1> SUFFICES ASSUME Init PROVE PInv
    OBVIOUS
<1> USE DEF Init
<1>0. /\ \A p \in Peers : /\ peer[p].set = "none" /\ peer[p].dones = 0
                          /\ ~peer[p].ending
      /\ publisher = 0 /\ 0 \notin Peers
    BY PeersAreNat
<1>1. Types
  <2>1. peer \in [Peers -> Peer]
      BY PeersAreNat DEF Peer
  <2>2. restarts \in 0..MaxRestarts /\ 0 \in 0..MaxPeers
      BY PeersAreNat, PublishersAssumption
  <2>3. reports \in Seq(BOOLEAN)
      OBVIOUS
  <2> QED
      BY <2>1, <2>2, <2>3 DEF Types, SyncState
<1>2. PeersOK
    BY <1>0 DEF PeersOK, InstalledOK, FreshOK, CloserOK, ClosedOK, Untouched, Replaces
<1>3. ReportsOK
  <2>1. Started = {} /\ Finished = {} /\ Len(reports) = 0
      BY <1>0 DEF Started, Finished
  <2>2. Cardinality({}) = 0
      BY FS_EmptySet
  <2> QED
      BY <2>1, <2>2 DEF ReportsOK
<1>4. FeedOK
    BY DEF FeedOK
<1>5. LiveOK
    BY DEF LiveOK, Word, IsLive
<1> QED
    BY <1>1, <1>2, <1>3, <1>4, <1>5 DEF PInv, PeersOK

LEMMA PStep == PInv /\ [Next]_vars => PInv'
<1> SUFFICES ASSUME PInv, [Next]_vars PROVE PInv'
    OBVIOUS
<1>1. Types /\ PeersOK /\ ReportsOK /\ FeedOK /\ LiveOK
    BY DEF PInv, PeersOK
<1>2. Types'
    BY <1>1, TypesStep DEF PeersOK
<1>3. PeersOK'
    BY <1>1, PeersStep
<1>4. ReportsOK' /\ FeedOK'
    BY <1>1, <1>2, ReportsStep, FeedStep
<1>5. LiveOK'
  <2>1. CASE UNCHANGED vars
      BY <1>1, <2>1 DEF LiveOK, Word, Pending, IsLive, vars
  <2> QED
      BY <1>1, <2>1, LivePeers, LiveVision DEF Next
<1> QED
    BY <1>2, <1>3, <1>4, <1>5 DEF PInv, PeersOK

\* The invariant that the other theorems follow from: each publisher is closed
\* by one party only, what the feed remembers is of a peer somebody will end it
\* for, and the reports under way end in the truth or a race has happened.
THEOREM PublishersInvariance == Spec => []PInv
<1> QED
    BY PInit, PStep, PTL DEF Spec

\* The relay's and the vision service's state is well formed; there are never
\* more reports under way than two for each connection (onLiveAsync).
THEOREM PublishersTypeCorrect == Spec => []TypeOK
<1>1. PInv => TypeOK
  <2> SUFFICES ASSUME PInv PROVE TypeOK
      OBVIOUS
  <2>1. Started \in SUBSET Peers /\ Finished \in SUBSET Peers
      BY DEF Started, Finished
  <2>2. /\ Cardinality(Started) \in Nat /\ Cardinality(Started) <= MaxPeers
        /\ Cardinality(Finished) \in Nat /\ Cardinality(Finished) <= MaxPeers
      BY <2>1, PeersFinite
  <2>3. Len(reports) <= Cardinality(Started) + Cardinality(Finished) /\ Len(reports) \in Nat
      BY DEF PInv, ReportsOK, Types
  <2>4. Len(reports) <= 2 * MaxPeers
      BY <2>2, <2>3, PeersAreNat
  <2> QED
      BY <2>4 DEF PInv, Types, TypeOK
<1> QED
    BY <1>1, PublishersInvariance, PTL

\* SetPublisher, the connection's callback and the reader never close the same
\* done channel twice, however they interleave: that would end the relay.
THEOREM DoneNeverClosedTwice == Spec => []DoneClosedOnce
<1>1. PInv => DoneClosedOnce
    BY DEF PInv, ClosedOK, DoneClosedOnce
<1> QED
    BY <1>1, PublishersInvariance, PTL

\* Once nobody is being installed or removed, the feed compares the packets of
\* the publisher with its own ones only.
THEOREM FeedFollowsPublisher == Spec => []FeedFollows
<1>1. PInv => FeedFollows
  <2> SUFFICES ASSUME PInv, publisher # 0, ~ended, lastOf \notin {0, publisher}, ~strayed,
                      \A p \in Peers : /\ ~peer[p].ending
                                       /\ peer[p].set \notin {"replacing", "starting"}
               PROVE  FALSE
      BY DEF FeedFollows
  <2>1. lastOf \in Peers
      BY DEF PInv, Types, Peers
  <2>2. Left(lastOf)
      BY <2>1 DEF Left
  <2> QED
      BY <2>2 DEF PInv, FeedOK
<1> QED
    BY <1>1, PublishersInvariance, PTL

\* When nothing is under way and none of the named races has happened, the
\* vision service's android_live says whether the relay has a publisher.
THEOREM WrongLiveHasCause == Spec => []WrongHasCause
<1>1. PInv => WrongHasCause
  <2> SUFFICES ASSUME PInv, Quiet, ~raced PROVE androidLive = IsLive
      BY DEF WrongHasCause
  <2>1. ~Pending
      BY DEF Quiet, Pending
  <2>2. Word = IsLive
      BY <2>1 DEF PInv, LiveOK
  <2>3. Word = androidLive
      BY DEF Quiet, Word
  <2> QED
      BY <2>2, <2>3
<1> QED
    BY <1>1, PublishersInvariance, PTL

\* Only a publisher whose own connection is gone is taken out: a callback or a
\* reader that comes late leaves the one that has replaced it alone.
THEOREM RemovedOnlyWhenGone == Spec => OnlyGoneIsRemoved
<1>1. PInv /\ [Next]_vars => [publisher # 0 /\ publisher' = 0 => peer[publisher].conn = "gone"]_vars
  <2> SUFFICES ASSUME PInv, Next, publisher # 0, publisher' = 0
               PROVE  peer[publisher].conn = "gone"
      BY DEF vars
  <2>1. ASSUME NEW p \in Peers, PeerNext(p) PROVE peer[publisher].conn = "gone"
      BY <2>1, PeersAreNat DEF PeerNext, SetPublisher, CloseOld, StartReader, Gone,
         StateCallback, ReaderFails, EndRemoved, Packet, IsInstalled
  <2>2. CASE VisionNext
      BY <2>2 DEF VisionNext, ReportArrives, ReportLost, SendEnd, EndArrives,
         SyncAnswered, SyncApplied, RestartVision
  <2> QED
      BY <2>1, <2>2 DEF Next
<1> QED
    BY <1>1, PublishersInvariance, PTL DEF Spec, OnlyGoneIsRemoved

=============================================================================
