----------------------------- MODULE Publishers -----------------------------
(***************************************************************************)
(* Who publishes: the relay's broadcaster (broadcaster.go), the peer       *)
(* connections of signaling/handlers.go that install and remove            *)
(* publishers, and what the vision service believes about it               *)
(* (AppState.android_live).                                                *)
(*                                                                         *)
(* SetPublisher and RemovePublisher hold the lock only to exchange the     *)
(* pointer; what they do afterwards (close the old one, End() the feed,    *)
(* report) interleaves with other publishers coming and going.  Each       *)
(* report is posted by a goroutine of its own.  The vision service also    *)
(* asks once at startup, and takes the END of the feed for "not live".     *)
(*                                                                         *)
(* Of the feed (see YoloFeed) only sourceEnded, endSent and the memory of  *)
(* the last packet are kept: each connection numbers its packets from a    *)
(* start of its own, so the feed must not compare those of two.            *)
(***************************************************************************)
EXTENDS Integers, SequencesExt

CONSTANTS
    MaxPeers,     \* bound: peer connections of Android
    MaxRestarts   \* bound: restarts of the vision service

ASSUME PublishersAssumption == MaxPeers \in Nat /\ MaxRestarts \in Nat

VARIABLES
    publisher,    \* Broadcaster.publisher, 0 for nil
    peer,         \* the peer connections and the goroutines that serve them
    ended,        \* Feed.sourceEnded
    lastOf,       \* the peer lastPacketSeq is of, 0 without havePacketSeq
    endSent,      \* Feed.endSent
    endMsg,       \* an END on its way to the vision service
    reports,      \* calls of onLive that have not been answered, oldest first
    androidLive,  \* AppState.android_live
    sync,         \* sync_android_live_from_relay
    restarts,     \* how often the vision service was restarted
    raced,        \* history: one of the races that spoil android_live happened
    strayed       \* history: a packet came after the End() meant for its peer

feedVars == <<ended, lastOf, strayed>>
vars == <<publisher, peer, feedVars, endSent, endMsg, reports, androidLive, sync,
          restarts, raced>>

Peers == 1..MaxPeers

\* set: how far SetPublisher has come, old: the publisher it replaces.
\* conn: the connection, which pion closes when it fails or is closed.
\* reader: readPublisher.  ending: in RemovePublisher, after the unlock.
\* dones: how often the done channel was closed.
Peer == [set : {"none", "replacing", "starting", "done"}, old : 0..MaxPeers,
         conn : {"up", "gone"}, reader : {"none", "reading", "returned"},
         ending : BOOLEAN, dones : 0..2]

\* "ask" until the relay has answered, then the answer until it is applied.
SyncState == {"ask", "live", "not live", "done"}

TypeOK ==
    /\ publisher \in 0..MaxPeers
    /\ peer \in [Peers -> Peer]
    /\ lastOf \in 0..MaxPeers /\ strayed \in BOOLEAN
    /\ ended \in BOOLEAN /\ endSent \in BOOLEAN /\ endMsg \in BOOLEAN
    /\ reports \in Seq(BOOLEAN) /\ Len(reports) <= 2 * MaxPeers
    /\ androidLive \in BOOLEAN
    /\ sync \in SyncState
    /\ restarts \in 0..MaxRestarts
    /\ raced \in BOOLEAN

Init ==
    /\ publisher = 0
    /\ peer = [p \in Peers |-> [set |-> "none", old |-> 0, conn |-> "up",
                                reader |-> "none", ending |-> FALSE, dones |-> 0]]
    /\ lastOf = 0 /\ strayed = FALSE
    /\ ended = FALSE /\ endSent = FALSE /\ endMsg = FALSE
    /\ reports = <<>>
    /\ androidLive = FALSE /\ sync = "ask" /\ restarts = 0
    /\ raced = FALSE

IsLive == publisher # 0

----------------------------------------------------------------------------
(* The relay                                                               *)

End == ended' = TRUE /\ endSent' = FALSE /\ UNCHANGED <<lastOf, strayed>>

\* onLiveAsync.  By now another publisher may have come or gone: the report is
\* then wrong when it is made.
Report(live) == /\ reports' = Append(reports, live)
                /\ raced' = (raced \/ live # IsLive)

\* OnTrack, maybe of a connection that is already gone.
SetPublisher(p) ==
    /\ peer[p].set = "none"
    /\ publisher' = p
    /\ peer' = [peer EXCEPT ![p].set = IF IsLive THEN "replacing" ELSE "starting",
                            ![p].old = publisher]
    /\ UNCHANGED <<feedVars, endSent, endMsg, reports, androidLive, sync, restarts, raced>>

\* Mutant: the feed is not told that its source has changed.
CloseOldWithoutEnd(p) ==
    /\ peer[p].set = "replacing"
    /\ peer' = [peer EXCEPT ![p].set = "starting",
                            ![peer[p].old].dones = @ + 1,
                            ![peer[p].old].conn = "gone"]
    /\ UNCHANGED <<publisher, feedVars, endSent, endMsg, reports, androidLive, sync,
                   restarts, raced>>

CloseOld(p) ==
    /\ peer[p].set = "replacing"
    /\ peer' = [peer EXCEPT ![p].set = "starting",
                            ![peer[p].old].dones = @ + 1,
                            ![peer[p].old].conn = "gone"]
    /\ End
    /\ UNCHANGED <<publisher, endMsg, reports, androidLive, sync, restarts, raced>>

StartReader(p) ==
    /\ peer[p].set = "starting"
    /\ Report(TRUE)
    /\ peer' = [peer EXCEPT ![p].set = "done", ![p].reader = "reading"]
    /\ UNCHANGED <<publisher, feedVars, endSent, endMsg, androidLive, sync, restarts>>

\* A connection fails or is closed by the other side.
Gone(p) ==
    /\ peer[p].conn = "up"
    /\ peer' = [peer EXCEPT ![p].conn = "gone"]
    /\ UNCHANGED <<publisher, feedVars, endSent, endMsg, reports, androidLive, sync,
                   restarts, raced>>

\* Mutant: whoever leaves clears the publisher.
AnyIsInstalled(p) == publisher # 0
\* The check RemovePublisher makes under the lock.
IsInstalled(p) == publisher = p

\* Under the lock, and the close of the done channel.
Removed(p, q) == [q EXCEPT ![p].ending = TRUE, ![publisher].dones = @ + 1]

\* Mutant: the publisher stays installed.
CallbackKeeps(p) ==
    /\ peer[p].conn = "gone" /\ IsInstalled(p)
    /\ peer' = Removed(p, peer)
    /\ UNCHANGED <<publisher, feedVars, endSent, endMsg, reports, androidLive, sync,
                   restarts, raced>>

\* OnConnectionStateChange.  It may have run before the publisher was
\* installed and never run again.
StateCallback(p) ==
    /\ peer[p].conn = "gone" /\ IsInstalled(p)
    /\ publisher' = 0
    /\ peer' = Removed(p, peer)
    /\ UNCHANGED <<feedVars, endSent, endMsg, reports, androidLive, sync, restarts, raced>>

\* Mutant: an error only ends the reader.
ReaderJustReturns(p) ==
    /\ peer[p].reader = "reading" /\ peer[p].conn = "gone"
    /\ peer' = [peer EXCEPT ![p].reader = "returned"]
    /\ UNCHANGED <<publisher, feedVars, endSent, endMsg, reports, androidLive, sync,
                   restarts, raced>>

\* ReadRTP returns an error: the reader removes its publisher too.
ReaderFails(p) ==
    LET returned == [peer EXCEPT ![p].reader = "returned"]
    IN  /\ peer[p].reader = "reading" /\ peer[p].conn = "gone"
        /\ IF IsInstalled(p) THEN publisher' = 0 /\ peer' = Removed(p, returned)
           ELSE UNCHANGED publisher /\ peer' = returned
        /\ UNCHANGED <<feedVars, endSent, endMsg, reports, androidLive, sync,
                       restarts, raced>>

EndRemoved(p) ==
    /\ peer[p].ending
    /\ peer' = [peer EXCEPT ![p].ending = FALSE]
    /\ End
    /\ Report(FALSE)
    /\ UNCHANGED <<publisher, endMsg, androidLive, sync, restarts>>

\* The peer was replaced or removed, and the feed was ended for it.
Left(p) == /\ publisher # p /\ ~peer[p].ending
           /\ \A q \in Peers : ~(peer[q].set = "replacing" /\ peer[q].old = p)

\* Publish.  The first packet after an End() resets the feed, and so does one
\* that is ahead of the expected number; one behind it is dropped.  Numbers of
\* another peer may be either.  A reset after the comparison (an incomplete
\* unit, an overflow) forgets the number again.  A reader may still hold a
\* packet of a connection that is gone.
Packet(p) ==
    /\ peer[p].reader = "reading"
    /\ lastOf' \in {0, p} \cup (IF ended THEN {} ELSE {lastOf})
    /\ ended' = FALSE /\ endSent' = FALSE
    /\ strayed' = (strayed \/ Left(p))
    /\ UNCHANGED <<publisher, peer, endMsg, reports, androidLive, sync, restarts, raced>>

\* The backlog is drained and the client is told.
SendEnd ==
    /\ ended /\ ~endSent /\ ~endMsg
    /\ endSent' = TRUE /\ endMsg' = TRUE
    /\ UNCHANGED <<publisher, peer, feedVars, reports, androidLive, sync, restarts, raced>>

----------------------------------------------------------------------------
(* The vision service                                                      *)

\* POST /internal/android-live.  A report may overtake older ones, and arrive
\* while the answer of the relay is on its way.
ReportArrives(i) ==
    /\ i \in DOMAIN reports
    /\ androidLive' = reports[i]
    /\ reports' = RemoveAt(reports, i)
    /\ raced' = (raced \/ i # 1 \/ sync \in {"live", "not live"})
    /\ UNCHANGED <<publisher, peer, feedVars, endSent, endMsg, sync, restarts>>

\* notifyPython fails; it is not tried again.
ReportLost(i) ==
    /\ i \in DOMAIN reports
    /\ reports' = RemoveAt(reports, i)
    /\ raced' = TRUE
    /\ UNCHANGED <<publisher, peer, feedVars, endSent, endMsg, androidLive, sync, restarts>>

EndArrives ==
    /\ endMsg
    /\ endMsg' = FALSE
    /\ androidLive' = FALSE
    /\ raced' = (raced \/ IsLive)
    /\ UNCHANGED <<publisher, peer, feedVars, endSent, reports, sync, restarts>>

\* GET /internal/status (a failed one is repeated).
SyncAnswered ==
    /\ sync = "ask"
    /\ sync' = IF IsLive THEN "live" ELSE "not live"
    /\ UNCHANGED <<publisher, peer, feedVars, endSent, endMsg, reports, androidLive,
                   restarts, raced>>

\* Mutant: the answer is ignored.
SyncDropped ==
    /\ sync \in {"live", "not live"}
    /\ sync' = "done"
    /\ UNCHANGED <<publisher, peer, feedVars, endSent, endMsg, reports, androidLive,
                   restarts, raced>>

SyncApplied ==
    /\ sync \in {"live", "not live"}
    /\ androidLive' = (sync = "live")
    /\ sync' = "done"
    /\ UNCHANGED <<publisher, peer, feedVars, endSent, endMsg, reports, restarts, raced>>

\* What was on its way to the old process is lost with it.
RestartVision ==
    /\ restarts < MaxRestarts
    /\ restarts' = restarts + 1
    /\ androidLive' = FALSE /\ sync' = "ask" /\ endMsg' = FALSE
    /\ UNCHANGED <<publisher, peer, feedVars, endSent, reports, raced>>

----------------------------------------------------------------------------

PeerNext(p) ==
    \/ SetPublisher(p) \/ CloseOld(p) \/ StartReader(p) \/ Gone(p)
    \/ StateCallback(p) \/ ReaderFails(p) \/ EndRemoved(p) \/ Packet(p)

VisionNext ==
    \/ \E i \in DOMAIN reports : ReportArrives(i) \/ ReportLost(i)
    \/ SendEnd \/ EndArrives \/ SyncAnswered \/ SyncApplied \/ RestartVision

Next == (\E p \in Peers : PeerNext(p)) \/ VisionNext

\* Goroutines that can go on do; the callback of a connection is not counted on.
Fairness == \A p \in Peers : /\ WF_vars(CloseOld(p)) /\ WF_vars(StartReader(p))
                             /\ WF_vars(ReaderFails(p)) /\ WF_vars(EndRemoved(p))

Spec == Init /\ [][Next]_vars /\ Fairness

----------------------------------------------------------------------------
(* Properties                                                              *)

\* A done channel is closed by whoever took its publisher out, and by nobody
\* else: closing it twice would end the relay.
DoneClosedOnce == \A p \in Peers : peer[p].dones <= 1

\* The end of one connection, reported late, never takes out the publisher
\* that has replaced it.
OnlyGoneIsRemoved ==
    [][publisher # 0 /\ publisher' = 0 => peer[publisher].conn = "gone"]_vars

\* A publisher whose connection is gone does not stay installed, also when the
\* connection ended before its track was installed.
GoneIsRemoved ==
    \A p \in Peers : publisher = p /\ peer[p].conn = "gone" ~> publisher # p

Quiet ==
    /\ reports = <<>> /\ ~endMsg /\ sync = "done"
    /\ \A p \in Peers : ~peer[p].ending /\ peer[p].set \notin {"replacing", "starting"}

\* When nothing is under way android_live is right, unless one of these
\* happened: a report was already wrong when it was made, was lost, overtook
\* another or the startup answer, or an END was taken for the new publisher.
WrongHasCause == Quiet /\ androidLive # IsLive => raced

\* Once nobody is being installed or removed, the feed compares the packets of
\* the publisher with its own ones only (it might take them for late ones, and
\* drop them, for up to 2^15 packets), unless another reader handed over a
\* packet it still held after the feed had been ended for its peer.
FeedFollows ==
    (\A p \in Peers : ~peer[p].ending /\ peer[p].set \notin {"replacing", "starting"})
    => publisher = 0 \/ ended \/ lastOf \in {0, publisher} \/ strayed

=============================================================================
