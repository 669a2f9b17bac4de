------------------------------ MODULE Playback ------------------------------
(***************************************************************************)
(* The playback websocket of the vision service (playback.py, with the     *)
(* shared AppState of state.py) and the browser tabs that use it.          *)
(*                                                                         *)
(* Every connection has two asyncio tasks, the handler that sends results  *)
(* and the control task that reads the browser's messages.  All of them    *)
(* share one AppState: the only viewer slot, the results not yet painted,  *)
(* the newest acknowledgement and the resync generation.  Tasks switch     *)
(* only at an await, so each stretch between two awaits is one action.     *)
(* result_condition is never held over an await: its waiters are the       *)
(* handlers in "full", "item" and "faultWait", and a notify_all marks them.*)
(*                                                                         *)
(* The worker and the relay are an environment here: results are published *)
(* in any order (the worker overtakes a frame it is busy with when it      *)
(* skips later ones), and an epoch ends when the relay says so.  A tab paints what  *)
(* it receives in order of number; of its decoder there is whether it      *)
(* exists and which frame it has.  Two variables only record history, and  *)
(* no step depends on them: what was painted, and what never will be.      *)
(***************************************************************************)
EXTENDS Integers, Sequences, FiniteSets

CONSTANTS
    Tabs,         \* browser tabs
    Sockets,      \* websocket connections that can exist at a time
    Window,       \* frames that may be outstanding (120 in the code)
    MaxEpoch,     \* bound: newest epoch the relay starts
    MaxSeq,       \* bound: results per epoch
    Faults,       \* what may go wrong, or be clicked: see FaultKinds
    MaxFaults     \* bound: how often

FaultKinds == {"lost", "jump", "stop", "inference"}

ASSUME PlaybackAssumption ==
    /\ Faults \subseteq FaultKinds
    /\ IsFiniteSet(Tabs) /\ IsFiniteSet(Sockets)
    /\ {Window, MaxEpoch, MaxSeq, MaxFaults} \subseteq Nat

VARIABLES
    app,      \* AppState
    resync,   \* a resync command is on its way to the relay
    h,        \* the handler, and the control task, of each connection
    link,     \* how each connection stands
    up,       \* messages from the browser, not yet read by the server
    down,     \* messages to the browser
    tab,      \* the browser tabs
    painted,  \* history: numbers of this epoch's frames that some tab painted
    skipped,  \* history: and of those a viewer was moved past, see Open and Jump
    faults    \* how much of MaxFaults is spent

vars == <<app, resync, h, link, up, down, tab, painted, skipped, faults>>
-----------------------------------------------------------------------------

None == [epoch |-> 0, seq |-> -1]
NoSocket == "none"

Frames == [epoch : Nat, seq : Nat \cup {-1}]

\* done: the frames of the epoch that have a result; fault: the one that cannot get
\* one, or -1.
App == [epoch : Nat, store : SUBSET Nat, viewer : BOOLEAN, last : Frames,
        fault : Nat \cup {-1}, done : SUBSET Nat]

Waiting == {"full", "item", "faultWait"}

\* At an await: "greet" sends the session message, "moving" the epoch, "warn" the
\* fault, "sending" a frame.
HandlerStep == {"free", "accepted", "greet", "moving", "sending", "warn", "closing"}
               \cup Waiting

\* stale: resync_generation has moved on since the handler looked at it last.
Handler == [pc : HandlerStep, ref : Nat, next : Nat, new : BOOLEAN,
            sent : SUBSET Frames, stale : BOOLEAN, woken : BOOLEAN,
            reading : BOOLEAN, warned : BOOLEAN]

FreeHandler == [pc |-> "free", ref |-> 0, next |-> 0, new |-> FALSE, sent |-> {},
                stale |-> FALSE, woken |-> FALSE, reading |-> FALSE,
                warned |-> FALSE]

\* A handler that has left its loop needs nothing but its place.
Leaving == [FreeHandler EXCEPT !.pc = "closing"]

\* open carries what the tab has: its position, whether it has a session id from
\* an earlier connection, and whether its decoder is still alive.
Control == [type : {"open", "presented", "jump", "stop"}, epoch : Nat,
            seq : Nat \cup {-1}, session : BOOLEAN, decoder : BOOLEAN]

Message == [type : {"session", "unavailable", "epoch", "fault", "frame"},
            epoch : Nat, seq : Nat \cup {-1}]

\* known: the frames the player has, in its queue or its decoder; decoding: the one
\* in the decoder, or None.
Tab == [sock : Sockets \cup {NoSocket}, epoch : Nat, last : Nat \cup {-1},
        known : SUBSET Frames, decoding : Frames, session : BOOLEAN,
        decoder : BOOLEAN, stopped : BOOLEAN, jump : BOOLEAN]

Msg(type, epoch, seq) == [type |-> type, epoch |-> epoch, seq |-> seq]
Ctl(type, epoch, seq) == [type |-> type, epoch |-> epoch, seq |-> seq,
                          session |-> FALSE, decoder |-> FALSE]

\* notify_all(): every waiter runs again, at its turn.
NotifyAll(hs) == [s \in Sockets |->
                    [hs[s] EXCEPT !.woken = @ \/ hs[s].pc \in Waiting]]

\* What a resync clears, whichever task asks for it, and how the handlers see it.
Cleared(a) == [a EXCEPT !.store = {}, !.fault = -1, !.last = None]
Resynced(hs) == [s \in Sockets |-> [NotifyAll(hs)[s] EXCEPT
                       !.stale = hs[s].pc \in Waiting \cup {"moving", "sending", "warn"}]]

\* Mutant: the epoch of an acknowledgement is not compared.
AcknowledgeAnyEpoch(a, epoch, seq) ==
    [a EXCEPT !.store = {n \in @ : n > seq},
              !.last = IF @.epoch = epoch /\ @.seq > seq THEN @
                       ELSE [epoch |-> epoch, seq |-> seq]]

\* AppState.acknowledge(): cumulative within the current epoch.
Acknowledge(a, epoch, seq) ==
    IF epoch # a.epoch THEN a
    ELSE [a EXCEPT !.store = {n \in @ : n > seq},
                   !.last = IF @.epoch = epoch /\ @.seq > seq THEN @
                            ELSE [epoch |-> epoch, seq |-> seq]]

\* What an acknowledgement takes out of the window.
Outstanding(sent, last) ==
    {f \in sent : ~(f.epoch = last.epoch /\ f.seq <= last.seq)}
-----------------------------------------------------------------------------

Init ==
    /\ app = [epoch |-> 0, store |-> {}, viewer |-> FALSE, last |-> None,
              fault |-> -1, done |-> {}]
    /\ resync = FALSE
    /\ h = [s \in Sockets |-> FreeHandler]
    /\ link = [s \in Sockets |-> "free"]
    /\ up = [s \in Sockets |-> <<>>] /\ down = [s \in Sockets |-> <<>>]
    /\ tab = [t \in Tabs |-> [sock |-> NoSocket, epoch |-> 0, last |-> -1,
                              known |-> {}, decoding |-> None, session |-> FALSE,
                              decoder |-> FALSE, stopped |-> FALSE, jump |-> FALSE]]
    /\ painted = {} /\ skipped = {}
    /\ faults = 0

Fault(kind) == kind \in Faults /\ faults < MaxFaults /\ faults' = faults + 1
-----------------------------------------------------------------------------
(* The handler of connection s.                                            *)

\* A message to a browser that has left goes nowhere.
Emit(s, msgs) ==
    down' = [down EXCEPT ![s] = IF link[s] = "open" THEN @ \o msgs ELSE @]

\* Mutant: the last painted frame is requested again, also when there is none.
ResumeAtLast(m, lost) == IF lost THEN 0 ELSE m.seq

\* The first frame a viewer is sent, by its open message.
ResumeAt(m, lost) == IF lost THEN 0 ELSE m.seq + 1

\* What a viewer is resumed behind unseen: it names a position that nobody painted in
\* this epoch, since the session message moved its tab to the epoch and left it the
\* position of an earlier one.
MovedPast(m, lost) == IF lost \/ m.seq \in painted THEN {} ELSE (0..m.seq) \ painted

\* The handler reads the first message.  A second viewer is turned away; a viewer
\* that cannot resume, or has nothing to resume, starts anew.
Open(s) ==
    /\ h[s].pc = "accepted" /\ up[s] # <<>> /\ Head(up[s]).type = "open"
    /\ up' = [up EXCEPT ![s] = Tail(@)]
    /\ \/ /\ app.viewer
          /\ h' = [h EXCEPT ![s].pc = "closing"]
          /\ UNCHANGED <<app, down, skipped>>
       \/ /\ ~app.viewer
          /\ app' = [app EXCEPT !.viewer = TRUE]
          /\ LET m == Head(up[s])
                 lost == m.epoch # app.epoch \/ (m.session /\ ~m.decoder)
             IN  /\ h' = [h EXCEPT ![s] =
                            [FreeHandler EXCEPT
                               !.pc = "greet", !.ref = app.epoch,
                               !.next = ResumeAt(m, lost),
                               !.new = lost \/ ~m.session]]
                 /\ Emit(s, <<Msg("session", app.epoch, -1)>> \o
                            IF m.session /\ lost
                            THEN <<Msg("unavailable", app.epoch, -1)>> ELSE <<>>)
                 /\ skipped' = skipped \cup MovedPast(m, lost)
    /\ UNCHANGED <<resync, link, tab, painted, faults>>

\* Mutant: the sequence is not started again.
EnterEpochKeepsNext(x, epoch) ==
    [x EXCEPT !.pc = "moving", !.ref = epoch, !.warned = FALSE]

\* The handler follows the relay into a new epoch.
EnterEpoch(x, epoch) ==
    [x EXCEPT !.pc = "moving", !.ref = epoch, !.next = 0, !.warned = FALSE]

\* _wait_for_item(), and what the handler x does about the answer, up to its next
\* await: x as it is then, and the message it is sending.
Look(a, x) ==
    CASE ~a.viewer ->
           [x |-> Leaving, say |-> <<>>]
      [] a.viewer /\ a.epoch = x.ref /\ x.next \in a.store ->
           [x |-> [x EXCEPT !.pc = "sending"],
            say |-> <<Msg("frame", x.ref, x.next)>>]
      [] a.viewer /\ a.epoch = x.ref /\ x.next \notin a.store /\ a.fault = -1 ->
           [x |-> [x EXCEPT !.pc = "item"], say |-> <<>>]
      [] a.viewer /\ a.epoch # x.ref /\ a.fault = -1 ->
           [x |-> EnterEpoch(x, a.epoch), say |-> <<Msg("epoch", a.epoch, -1)>>]
      [] OTHER ->
           [x |-> [x EXCEPT !.pc = IF x.warned THEN "faultWait" ELSE "warn",
                            !.warned = TRUE],
            say |-> IF x.warned THEN <<>> ELSE <<Msg("fault", a.epoch, -1)>>]

\* The window: forget what was acknowledged, and wait if too much is outstanding.
\* Without a viewer the window does not hold anyone.
PassWindow(a, x) ==
    LET kept == IF a.viewer THEN Outstanding(x.sent, a.last) ELSE x.sent
    IN  IF a.viewer /\ Cardinality(kept) > Window
        THEN [x |-> [x EXCEPT !.pc = "full", !.sent = kept], say |-> <<>>]
        ELSE Look(a, [x EXCEPT !.sent = kept])

\* Once around the loop, from its top.
Loop(a, x) ==
    PassWindow(a, [x EXCEPT !.sent = IF a.epoch # x.ref \/ x.stale THEN {} ELSE @,
                            !.stale = FALSE])

\* The handler goes on as outcome says.
Continue(s, outcome) ==
    /\ h' = [h EXCEPT ![s] = outcome.x]
    /\ Emit(s, outcome.say)
    /\ UNCHANGED <<app, resync, link, up, tab, painted, skipped, faults>>

\* The greeting is sent.  A new viewer asks the relay to resync, so that it joins
\* live; then the control task starts, and the handler enters its loop.
Begin(s) ==
    LET a == IF h[s].new THEN Cleared(app) ELSE app
        hs == IF h[s].new THEN Resynced(h) ELSE h
        outcome == Loop(a, [hs[s] EXCEPT !.reading = TRUE, !.new = FALSE])
    IN  /\ h[s].pc = "greet"
        /\ app' = a
        /\ resync' = (resync \/ h[s].new)
        /\ h' = [hs EXCEPT ![s] = outcome.x]
        /\ Emit(s, outcome.say)
        /\ UNCHANGED <<link, up, tab, painted, skipped, faults>>

\* A waiter was notified: the window's waiter checks the window again, and only
\* that; the waiter for a result looks again; after a fault the loop starts over.
Wake(s) ==
    LET x == [h[s] EXCEPT !.woken = FALSE]
    IN  /\ h[s].pc \in Waiting /\ h[s].woken
        /\ Continue(s, CASE x.pc = "full" -> PassWindow(app, x)
                         [] x.pc = "item" -> Look(app, x)
                         [] x.pc = "faultWait" -> Loop(app, x))

\* send_bytes() returned.
Sent(s) ==
    LET frame == [epoch |-> h[s].ref, seq |-> h[s].next]
    IN  /\ h[s].pc = "sending"
        /\ Continue(s, Loop(app, [h[s] EXCEPT !.next = @ + 1,
                                              !.sent = @ \cup {frame}]))

\* The epoch message was sent.
Moved(s) == h[s].pc = "moving" /\ Continue(s, Loop(app, h[s]))

\* The fault was reported; wait for whatever happens next.
Warned(s) ==
    /\ h[s].pc = "warn"
    /\ Continue(s, [x |-> [h[s] EXCEPT !.pc = "faultWait"], say |-> <<>>])

\* Sending on a connection the browser has left may fail, and ends the handler.
Raise(s) ==
    /\ link[s] = "gone" /\ h[s].pc \in {"greet", "sending", "moving", "warn"}
    /\ Continue(s, [x |-> Leaving, say |-> <<>>])

\* Mutant: the handler does not give the slot back.
CloseKeepsSlot(s) ==
    /\ h[s].pc = "closing"
    /\ app' = app
    /\ h' = [h EXCEPT ![s] = FreeHandler]
    /\ link' = [link EXCEPT ![s] = IF @ = "open" THEN "closed" ELSE "free"]
    /\ up' = [up EXCEPT ![s] = <<>>]
    /\ UNCHANGED <<resync, down, tab, painted, skipped, faults>>

\* The finally clause, of a handler that was turned away as well.
Close(s) ==
    /\ h[s].pc = "closing"
    /\ app' = [app EXCEPT !.viewer = FALSE]
    /\ h' = [h EXCEPT ![s] = FreeHandler]
    /\ link' = [link EXCEPT ![s] = IF @ = "open" THEN "closed" ELSE "free"]
    /\ up' = [up EXCEPT ![s] = <<>>]
    /\ UNCHANGED <<resync, down, tab, painted, skipped, faults>>
-----------------------------------------------------------------------------
(* The control task of connection s.                                       *)

Take(s, type) ==
    /\ h[s].reading /\ up[s] # <<>> /\ Head(up[s]).type = type
    /\ up' = [up EXCEPT ![s] = Tail(@)]
    /\ UNCHANGED <<link, down, tab, painted, skipped, faults>>

Presented(s) ==
    /\ Take(s, "presented")
    /\ app' = Acknowledge(app, Head(up[s]).epoch, Head(up[s]).seq)
    /\ h' = NotifyAll(h)
    /\ UNCHANGED resync

JumpToLive(s) ==
    /\ Take(s, "jump")
    /\ app' = Cleared(app)
    /\ resync' = TRUE
    /\ h' = Resynced(h)

Stop(s) ==
    /\ Take(s, "stop")
    /\ app' = [app EXCEPT !.viewer = FALSE]
    /\ h' = [NotifyAll(h) EXCEPT ![s].reading = FALSE]
    /\ UNCHANGED resync

Lost(s) ==
    /\ h[s].reading /\ up[s] = <<>> /\ link[s] = "gone"
    /\ app' = [app EXCEPT !.viewer = FALSE]
    /\ h' = [NotifyAll(h) EXCEPT ![s].reading = FALSE]
    /\ UNCHANGED <<resync, link, up, down, tab, painted, skipped, faults>>

HandlerAct(s) ==
    Open(s) \/ Begin(s) \/ Wake(s) \/ Sent(s) \/ Moved(s) \/ Warned(s) \/ Raise(s)
    \/ Close(s)
ControlAct(s) == Presented(s) \/ JumpToLive(s) \/ Stop(s) \/ Lost(s)
-----------------------------------------------------------------------------
(* The worker and the relay.                                               *)

\* Mutant: the waiters are not told.
PublishSilently ==
    /\ app.epoch > 0
    /\ \E n \in 0..(MaxSeq - 1) \ (app.done \cup {app.fault}) :
          app' = [app EXCEPT !.store = @ \cup {n}, !.done = @ \cup {n}]
    /\ UNCHANGED <<resync, h, link, up, down, tab, painted, skipped, faults>>

\* A result of the epoch is stored.
Publish ==
    /\ app.epoch > 0
    /\ \E n \in 0..(MaxSeq - 1) \ (app.done \cup {app.fault}) :
          app' = [app EXCEPT !.store = @ \cup {n}, !.done = @ \cup {n}]
    /\ h' = NotifyAll(h)
    /\ UNCHANGED <<resync, link, up, down, tab, painted, skipped, faults>>

\* The worker gives a frame up; it tries again when the fault is cleared.
InferenceFault ==
    /\ app.epoch > 0 /\ app.fault = -1 /\ Fault("inference")
    /\ \E n \in 0..(MaxSeq - 1) \ app.done : app' = [app EXCEPT !.fault = n]
    /\ h' = NotifyAll(h)
    /\ UNCHANGED <<resync, link, up, down, tab, painted, skipped>>

\* START or RESET from the relay, asked for or not.  A resync does not end an epoch
\* of which nothing was sent yet.
Reset ==
    /\ \E e \in {app.epoch, app.epoch + 1} \cap 1..MaxEpoch :
          /\ e = app.epoch => resync /\ app.done = {}
          /\ app' = [Cleared(app) EXCEPT !.epoch = e, !.done = {}]
    /\ resync' \in {FALSE, resync /\ app'.epoch > app.epoch}
    /\ h' = NotifyAll(h)
    /\ painted' = IF app'.epoch = app.epoch THEN painted ELSE {}
    /\ skipped' = IF app'.epoch = app.epoch THEN skipped ELSE {}
    /\ UNCHANGED <<link, up, down, tab, faults>>
-----------------------------------------------------------------------------
(* The browser.                                                            *)

\* openSocket() and onopen.  A jump to live is repeated on the next connection,
\* whether or not it was sent.
OpenSocket(t, s) ==
    /\ ~tab[t].stopped /\ tab[t].sock = NoSocket /\ link[s] = "free"
    /\ tab' = [tab EXCEPT ![t].sock = s, ![t].jump = FALSE]
    /\ link' = [link EXCEPT ![s] = "open"]
    /\ up' = [up EXCEPT ![s] =
                <<[type |-> "open", epoch |-> tab[t].epoch, seq |-> tab[t].last,
                   session |-> tab[t].session, decoder |-> tab[t].decoder]>> \o
                IF tab[t].jump THEN <<Ctl("jump", 0, -1)>> ELSE <<>>]
    /\ down' = [down EXCEPT ![s] = <<>>]
    /\ h' = [h EXCEPT ![s].pc = "accepted"]
    /\ UNCHANGED <<app, resync, painted, skipped, faults>>

\* onmessage.  A frame already known or of another epoch is dropped, and an idle
\* decoder takes the frame at once; the first frame creates the decoder, and a new
\* epoch destroys it.
OnMessage(t) ==
    LET s == tab[t].sock
    IN  /\ s # NoSocket /\ down[s] # <<>>
        /\ down' = [down EXCEPT ![s] = Tail(@)]
        /\ LET m == Head(down[s])
               f == [epoch |-> m.epoch, seq |-> m.seq]
           IN  tab' = [tab EXCEPT ![t] =
                 CASE m.type = "session" ->
                        [@ EXCEPT !.session = TRUE, !.epoch = m.epoch]
                   [] m.type = "unavailable" ->
                        [@ EXCEPT !.known = {}, !.decoding = None]
                   [] m.type = "epoch" ->
                        [@ EXCEPT !.epoch = m.epoch, !.last = -1, !.known = {},
                                  !.decoding = None, !.decoder = FALSE]
                   [] m.type = "frame" /\ m.epoch = @.epoch /\ f \notin @.known ->
                        [@ EXCEPT !.known = tab[t].known \cup {f}, !.decoder = TRUE,
                                  !.decoding = IF tab[t].decoding = None THEN f
                                               ELSE tab[t].decoding]
                   [] OTHER -> @]
        /\ UNCHANGED <<app, resync, h, link, up, painted, skipped, faults>>

\* send(): nothing, without an open connection.
Say(t, m) ==
    up' = [s \in Sockets |-> IF s = tab[t].sock /\ link[s] = "open"
                             THEN Append(up[s], m) ELSE up[s]]

\* pump(): the decoder gets the head of the queue, which is sorted by number; of two
\* epochs the older came first.
HeadOf(frames) ==
    IF frames = {} THEN {None}
    ELSE {f \in frames : \A g \in frames :
             f.seq < g.seq \/ (f.seq = g.seq /\ f.epoch <= g.epoch)}

\* paint(), at the end of the decoder's and the timer's work on one frame.  The
\* player goes on with what it has while the connection is lost.
Paint(t) ==
    LET f == tab[t].decoding
        rest == tab[t].known \ {f}
    IN  /\ f # None /\ ~tab[t].stopped
        /\ \E g \in HeadOf(rest) :
              tab' = [tab EXCEPT ![t].known = rest, ![t].decoding = g,
                                 ![t].last = f.seq]
        /\ painted' = IF f.epoch = app.epoch THEN painted \cup {f.seq} ELSE painted
        /\ Say(t, Ctl("presented", f.epoch, f.seq))
        /\ UNCHANGED <<app, resync, h, link, down, skipped, faults>>

\* jumpLive(): the player throws away what it has.
Jump(t) ==
    /\ ~tab[t].stopped
    /\ Fault("jump")
    /\ tab' = [tab EXCEPT ![t].known = {}, ![t].decoding = None, ![t].last = -1,
                          ![t].jump = TRUE]
    /\ skipped' = skipped \cup
           ({f.seq : f \in {g \in tab[t].known : g.epoch = app.epoch}} \ painted)
    /\ Say(t, Ctl("jump", 0, -1))
    /\ UNCHANGED <<app, resync, h, link, down, painted>>

\* stop(): say so, then leave.
StopTab(t) ==
    LET s == tab[t].sock
    IN  /\ s # NoSocket
        /\ Fault("stop")
        /\ tab' = [tab EXCEPT ![t].sock = NoSocket, ![t].known = {},
                              ![t].decoding = None, ![t].decoder = FALSE,
                              ![t].stopped = TRUE]
        /\ Say(t, Ctl("stop", 0, -1))
        /\ link' = [link EXCEPT ![s] = IF @ = "open" THEN "gone" ELSE "free"]
        /\ down' = [down EXCEPT ![s] = <<>>]
        /\ UNCHANGED <<app, resync, h, painted, skipped>>

StartTab(t) ==
    /\ tab[t].stopped
    /\ tab' = [tab EXCEPT ![t].stopped = FALSE]
    /\ UNCHANGED <<app, resync, h, link, up, down, painted, skipped, faults>>

\* The connection breaks: the tab knows at once, the server when it looks.
Disconnect(t) ==
    LET s == tab[t].sock
    IN  /\ s # NoSocket /\ link[s] = "open"
        /\ Fault("lost")
        /\ tab' = [tab EXCEPT ![t].sock = NoSocket]
        /\ link' = [link EXCEPT ![s] = "gone"]
        /\ down' = [down EXCEPT ![s] = <<>>]
        /\ UNCHANGED <<app, resync, h, up, painted, skipped>>

\* onclose, when the server closed the connection.
OnClose(t) ==
    LET s == tab[t].sock
    IN  /\ s # NoSocket /\ link[s] = "closed" /\ down[s] = <<>>
        /\ tab' = [tab EXCEPT ![t].sock = NoSocket]
        /\ link' = [link EXCEPT ![s] = "free"]
        /\ UNCHANGED <<app, resync, h, up, down, painted, skipped, faults>>

Connecting(t) == \E s \in Sockets : OpenSocket(t, s)

Browser(t) ==
    Connecting(t) \/ OnMessage(t) \/ Paint(t) \/ Jump(t) \/ StopTab(t)
    \/ StartTab(t) \/ Disconnect(t) \/ OnClose(t)
-----------------------------------------------------------------------------

Next ==
    \/ \E s \in Sockets : HandlerAct(s) \/ ControlAct(s)
    \/ Publish \/ InferenceFault \/ Reset
    \/ \E t \in Tabs : Browser(t)

\* Every task of the event loop runs when it can; the worker goes on and the relay
\* answers a resync; the browser reads, paints, reconnects and starts again.  Lost
\* connections, faults and the viewer's clicks are free.
Fairness ==
    /\ \A s \in Sockets : WF_vars(HandlerAct(s)) /\ WF_vars(ControlAct(s))
    /\ WF_vars(Publish) /\ WF_vars((resync \/ app.epoch = 0) /\ Reset)
    /\ \A t \in Tabs : WF_vars(Connecting(t)) /\ WF_vars(OnMessage(t))
                       /\ WF_vars(Paint(t)) /\ WF_vars(OnClose(t))
                       /\ WF_vars(StartTab(t))

Spec == Init /\ [][Next]_vars

FairSpec == Spec /\ Fairness
-----------------------------------------------------------------------------
(* Properties                                                              *)

TypeOK ==
    /\ app \in App /\ resync \in BOOLEAN
    /\ h \in [Sockets -> Handler]
    /\ link \in [Sockets -> {"free", "open", "gone", "closed"}]
    /\ up \in [Sockets -> Seq(Control)] /\ down \in [Sockets -> Seq(Message)]
    /\ tab \in [Tabs -> Tab] /\ painted \subseteq Int /\ skipped \subseteq Int
    /\ faults \in 0..MaxFaults

\* What the browser reads on one connection is in order, whatever fault messages are
\* between: a frame continues the one before it, and a new epoch starts at its first.
StreamInOrder ==
    \A s \in Sockets : \A i, j \in 1..Len(down[s]) :
        LET a == down[s][i]
            b == down[s][j]
            next == i < j /\ \A k \in (i + 1)..(j - 1) : down[s][k].type = "fault"
        IN  next /\ b.type = "frame" =>
              /\ a.type = "epoch" => b.epoch = a.epoch /\ b.seq = 0
              /\ a.type = "frame" => b.epoch = a.epoch /\ b.seq = a.seq + 1

\* A taken slot has a handler that will give it back.
SlotHasOwner ==
    app.viewer => \E s \in Sockets : h[s].pc \notin {"free", "accepted"}

\* "Without deleting any unseen result" (playback.py:209-210): unless a resync clears
\* the store or the epoch ends, every stored result that is deleted was painted
\* itself, or is one a viewer was moved past.  The code breaks that comment in the one
\* case MovedPast names; what a jump to live throws away is the viewer's wish.
UnseenKept ==
    [][\/ Reset
       \/ \E s \in Sockets : (h[s].new /\ Begin(s)) \/ JumpToLive(s)
       \/ app.store \ app'.store \subseteq painted \cup skipped]_vars

\* "A live viewer owns the single playback slot": while a browser is connected,
\* and neither stopped nor ended by its own handler, the slot is taken.
SlotHeld ==
    \A s \in Sockets : h[s].reading /\ link[s] = "open" => app.viewer

\* "ACKs release this window": while its browser stays connected, a handler does
\* not wait on its window for ever.
WindowReleased ==
    \A s \in Sockets :
        h[s].pc = "full" /\ link[s] = "open" ~> h[s].pc # "full" \/ link[s] # "open"

\* Once nothing fails any more, the viewer catches up with the newest result.  Two
\* cases are excepted.  In the last epoch of the model the relay cannot answer a
\* resync any more.  And a handler that reported a fault waits for the next
\* notification: one that came while it was reporting is lost to it.
CaughtUp ==
    \/ app.fault # -1
    \/ resync /\ app.epoch = MaxEpoch
    \/ \E s \in Sockets : h[s].pc = "faultWait"
    \/ MaxSeq - 1 \in painted

EventuallyPainted == []<>CaughtUp
=============================================================================
