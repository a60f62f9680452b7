------------------------------ MODULE ConnMux -------------------------------
(***************************************************************************)
(* One multiplexed EDX connection (crates/epix-edx/src/conn.rs) between a  *)
(* client, whose request side is modelled, and a server, whose reply side  *)
(* is (the FrameSink of server.rs).  Both ends run the same code: a writer *)
(* task over two bounded lanes, a reader task that routes frames by stream *)
(* id, a map of waiters and a closed flag shared with the handles.         *)
(*                                                                         *)
(* The tasks and the callers run on different threads: each lock, atomic   *)
(* access and await is a step of its own.  Deadlines are nondeterministic. *)
(***************************************************************************)
EXTENDS Integers, Sequences, FiniteSets

CONSTANTS
    Streams,    \* the streams the client opens (alloc_stream never repeats)
    PingChoices,\* the sets of streams that Conn::ping may be the opener of
    Bulk,       \* the ones served on the bulk lane
    NFrames,    \* NFrames[s]: Data frames of a reply, the terminal one included
    LaneCap,    \* capacity of a lane (256)
    ChanCap,    \* capacity of a waiter's channel (64)
    WireCap,    \* bound: frames in flight in one direction
    Budget      \* inbound requests the server holds (INBOUND_QUEUE_UNITS)

ASSUME MuxAssumption ==
    /\ IsFiniteSet(Streams) /\ Bulk \subseteq Streams
    /\ PingChoices \subseteq SUBSET Streams
    /\ NFrames \in [Streams -> Nat \ {0}]
    /\ LaneCap \in Nat \ {0} /\ ChanCap \in Nat \ {0}
    /\ WireCap \in Nat \ {0} /\ Budget \in Nat \ {0}

NoFrame == [kind |-> "none"]
Frame(k, s, i) == [kind |-> k, stream |-> s, n |-> i]
Down == [kind : {"data", "last", "err", "pong"}, stream : Streams,
         n : Nat]
Up   == [kind : {"req", "ping", "cancel"}, stream : Streams, n : {0}]
Terminal(f) == f.kind # "data"

VARIABLES
    pings,      \* the streams that are pings
    \* --- the client ---
    call,       \* call[s]: where the caller of stream s is
    got,        \* got[s]: numbers of the Data frames it received
    errs,       \* streams whose caller was handed an error reply
    waiters,    \* Shared.waiters
    chan,       \* chan[s]: frames in the waiter's channel
    closed,     \* Shared.closed
    notified,   \* the permit of Shared.shutdown
    handles,    \* some Conn handle is alive
    lane,       \* the priority lane (the client sends no bulk)
    writer, reader,
    parked,     \* the frame the reader is delivering
    \* --- the socket ---
    sock, wireUp, wireDown,
    \* --- the server ---
    serve,      \* serve[s]: "none", "open" or "ended"
    sent,       \* sent[s]: Data frames queued
    cancelled,  \* Shared.cancelled of the server
    hi, lo      \* the lanes of the server

callVars   == <<call, got, errs>>
clientVars == <<closed, notified, handles, writer, reader, parked>>
wires      == <<sock, wireUp, wireDown>>
serverVars == <<serve, sent, cancelled, hi, lo>>
vars == <<pings, callVars, waiters, chan, lane, clientVars, wires, serverVars>>

\* The caller still holds the receiving end of its channel.
Listening(s) == call[s] \in {"sending", "recheck", "recv"}
\* A sender of the channel is alive: in the map, or cloned by the reader.
Sendable(s)  == s \in waiters \/ (parked # NoFrame /\ parked.stream = s)
LaneOpen     == writer # "gone"

\* The socket goes, and with it the server's half of the connection.  What has
\* arrived can still be read.
Cut ==
    /\ sock' = "down" /\ wireUp' = <<>>
    /\ serve' = [s \in Streams |-> IF serve[s] = "open" THEN "ended"
                                   ELSE serve[s]]
    /\ cancelled' = {} /\ hi' = <<>> /\ lo' = <<>>
    /\ UNCHANGED <<wireDown, sent>>

-----------------------------------------------------------------------------
(* Callers: request_stream, ping and the StreamRx they return.             *)

To(s, pc) == call' = [call EXCEPT ![s] = pc]

\* The closed check on entry.
Check(s) ==
    /\ call[s] = "new" /\ handles
    /\ To(s, IF closed THEN "failed" ELSE "checked")
    /\ UNCHANGED <<pings, got, errs, waiters, chan, lane, clientVars, wires,
                   serverVars>>

Register(s) ==
    /\ call[s] = "checked"
    /\ waiters' = waiters \cup {s}
    /\ To(s, "sending")
    /\ UNCHANGED <<pings, got, errs, chan, lane, clientVars, wires,
                   serverVars>>

\* The awaited send: it needs room, and fails once the writer is gone.
Send(s) ==
    /\ call[s] = "sending"
    /\ \/ /\ LaneOpen /\ Len(lane) < LaneCap
          /\ lane' = Append(lane, Frame(IF s \in pings THEN "ping" ELSE "req",
                                        s, 0))
          /\ To(s, "recheck")
          /\ UNCHANGED waiters
       \/ /\ ~LaneOpen
          /\ waiters' = waiters \ {s}
          /\ To(s, "failed")
          /\ UNCHANGED lane
    /\ UNCHANGED <<pings, got, errs, chan, clientVars, wires, serverVars>>

\* Mutation: a send that went through is enough.
NoRecheck(s) ==
    /\ call[s] = "recheck"
    /\ To(s, "recv")
    /\ UNCHANGED <<pings, got, errs, waiters, chan, lane, clientVars, wires,
                   serverVars>>

\* The closed check after the insert.
Recheck(s) ==
    /\ call[s] = "recheck"
    /\ To(s, IF closed THEN "failed" ELSE "recv")
    /\ waiters' = IF closed THEN waiters \ {s} ELSE waiters
    /\ UNCHANGED <<pings, got, errs, chan, lane, clientVars, wires,
                   serverVars>>

\* StreamRx::recv, and its drop on the terminal frame.
Recv(s) ==
    /\ call[s] = "recv" /\ chan[s] # <<>>
    /\ LET f == Head(chan[s]) IN
       /\ chan' = [chan EXCEPT ![s] = Tail(@)]
       /\ got' = IF f.kind \in {"data", "last"}
                 THEN [got EXCEPT ![s] = Append(@, f.n)] ELSE got
       /\ errs' = IF f.kind = "err" THEN errs \cup {s} ELSE errs
       /\ IF Terminal(f) THEN To(s, "done") /\ waiters' = waiters \ {s}
                         ELSE UNCHANGED <<call, waiters>>
    /\ UNCHANGED <<pings, lane, clientVars, wires, serverVars>>

\* The last sender is gone: the connection closed.
RecvClosed(s) ==
    /\ call[s] = "recv" /\ chan[s] = <<>> /\ ~Sendable(s)
    /\ To(s, "failed")
    /\ UNCHANGED <<pings, got, errs, waiters, chan, lane, clientVars, wires,
                   serverVars>>

\* The caller gives up.  A StreamRx unregisters its waiter and the fetch guard
\* tries to send a Cancel.  A future dropped while the send waits for room has
\* a StreamRx yet only in ping.
Abandon(s) ==
    /\ \/ /\ call[s] = "sending" /\ LaneOpen /\ Len(lane) = LaneCap
          /\ waiters' = IF s \in pings THEN waiters \ {s} ELSE waiters
          /\ UNCHANGED lane
       \/ /\ call[s] = "recv"
          /\ waiters' = waiters \ {s}
          /\ lane' = IF s \notin pings /\ LaneOpen /\ Len(lane) < LaneCap
                     THEN Append(lane, Frame("cancel", s, 0)) ELSE lane
    /\ To(s, "left")
    /\ chan' = [chan EXCEPT ![s] = <<>>]
    /\ UNCHANGED <<pings, got, errs, clientVars, wires, serverVars>>

\* Conn::shutdown, from any thread: the flag first, then the wake-up.
Shutdown ==
    /\ handles /\ ~closed
    /\ closed' = TRUE /\ notified' = TRUE
    /\ UNCHANGED <<pings, callVars, waiters, chan, lane, handles, writer,
                   reader, parked, wires, serverVars>>

\* The last Conn clone drops.  A caller inside a call borrows one.
DropHandles ==
    /\ handles
    /\ \A s \in Streams : call[s] \notin {"checked", "sending", "recheck"}
    /\ handles' = FALSE
    /\ UNCHANGED <<pings, callVars, waiters, chan, lane, closed, notified,
                   writer, reader, parked, wires, serverVars>>

-----------------------------------------------------------------------------
(* The client's writer and reader tasks.                                   *)

WriterWrite ==
    /\ writer = "run" /\ ~notified /\ sock = "up"
    /\ lane # <<>> /\ Len(wireUp) < WireCap
    /\ wireUp' = Append(wireUp, Head(lane))
    /\ lane' = Tail(lane)
    /\ UNCHANGED <<pings, callVars, waiters, chan, clientVars, sock, wireDown,
                   serverVars>>

\* A shutdown, a failed write, or every handle gone and the lane drained.
WriterMustStop ==
    notified \/ (lane # <<>> /\ sock = "down") \/ (lane = <<>> /\ ~handles)

\* WRITE_STALL_TIMEOUT: the peer does not read.
WriterStalled == lane # <<>> /\ Len(wireUp) = WireCap

WriterStops ==
    /\ writer = "run" /\ (WriterMustStop \/ WriterStalled)
    /\ writer' = "closing" /\ closed' = TRUE
    /\ UNCHANGED <<pings, callVars, waiters, chan, lane, notified, handles,
                   reader, parked, wires, serverVars>>

\* Mutation: leave the waiters to the reader.
WriterOnlySignals ==
    /\ writer = "closing"
    /\ writer' = "cleared"
    /\ UNCHANGED <<pings, callVars, waiters, chan, lane, closed, notified,
                   handles, reader, parked, wires, serverVars>>

\* Every waiter is woken, and the reader is told.
WriterClears ==
    /\ writer = "closing"
    /\ waiters' = {}
    /\ writer' = "cleared"
    /\ UNCHANGED <<pings, callVars, chan, lane, closed, notified, handles,
                   reader, parked, wires, serverVars>>

\* The lanes close when the task's locals drop, the socket with its second half.
WriterLeaves ==
    /\ writer = "cleared"
    /\ writer' = "gone" /\ lane' = <<>>
    /\ IF reader = "gone" THEN Cut ELSE UNCHANGED <<wires, serverVars>>
    /\ UNCHANGED <<pings, callVars, waiters, chan, closed, notified, handles,
                   reader, parked>>

\* route_frame looks the waiter up and clones its sender.
ReaderTakes ==
    /\ reader = "run" /\ parked = NoFrame /\ wireDown # <<>>
    /\ wireDown' = Tail(wireDown)
    /\ parked' = IF Head(wireDown).stream \in waiters THEN Head(wireDown)
                                                      ELSE NoFrame
    /\ UNCHANGED <<pings, callVars, waiters, chan, lane, closed, notified,
                   handles, writer, reader, sock, wireUp, serverVars>>

\* deliver_response and deliver_pong: the awaited send into the channel (an
\* error at once when nobody listens), then the end of the waiter.
ReaderDelivers ==
    /\ reader = "run" /\ parked # NoFrame
    /\ LET s == parked.stream IN
       /\ IF Listening(s) THEN /\ Len(chan[s]) < ChanCap
                               /\ chan' = [chan EXCEPT ![s] = Append(@, parked)]
                          ELSE UNCHANGED chan
       /\ waiters' = IF Terminal(parked) THEN waiters \ {s} ELSE waiters
    /\ parked' = NoFrame
    /\ UNCHANGED <<pings, callVars, lane, closed, notified, handles, writer,
                   reader, wires, serverVars>>

\* The socket died, or the writer is gone.  Only a reader between frames sees.
ReaderStops ==
    /\ reader = "run" /\ parked = NoFrame
    /\ sock = "down" \/ writer \in {"cleared", "gone"}
    /\ reader' = "closing" /\ closed' = TRUE
    /\ UNCHANGED <<pings, callVars, waiters, chan, lane, notified, handles,
                   writer, parked, wires, serverVars>>

ReaderLeaves ==
    /\ reader = "closing"
    /\ waiters' = {}
    /\ reader' = "gone"
    /\ IF writer = "gone" THEN Cut ELSE UNCHANGED <<wires, serverVars>>
    /\ UNCHANGED <<pings, callVars, chan, lane, closed, notified, handles,
                   writer, parked>>

-----------------------------------------------------------------------------
(* The socket and the server.                                              *)

\* The link fails, or the server tears it down.
SocketDies ==
    /\ sock = "up"
    /\ Cut
    /\ UNCHANGED <<pings, callVars, waiters, chan, lane, clientVars>>

\* The server's reader: a request waits for budget, a Ping is answered on the
\* priority lane, which may make the reader wait for room.
ServerReads ==
    /\ sock = "up" /\ wireUp # <<>>
    /\ wireUp' = Tail(wireUp)
    /\ LET f == Head(wireUp)  s == f.stream IN
       \/ /\ f.kind = "req"
          /\ Cardinality({t \in Streams : serve[t] = "open"}) < Budget
          /\ serve' = [serve EXCEPT ![s] = "open"]
          /\ UNCHANGED <<cancelled, hi>>
       \/ /\ f.kind = "cancel"
          /\ cancelled' = cancelled \cup {s}
          /\ UNCHANGED <<serve, hi>>
       \/ /\ f.kind = "ping" /\ Len(hi) < LaneCap
          /\ hi' = Append(hi, Frame("pong", s, 0))
          /\ UNCHANGED <<serve, cancelled>>
    /\ UNCHANGED <<pings, callVars, waiters, chan, lane, clientVars, sock,
                   wireDown, sent, lo>>

\* The lane a frame of stream s goes out on.
OnLane(s, f) ==
    IF s \in Bulk THEN Len(lo) < LaneCap /\ lo' = Append(lo, f) /\ UNCHANGED hi
                  ELSE Len(hi) < LaneCap /\ hi' = Append(hi, f) /\ UNCHANGED lo

\* Mutation: the terminal frame is a control frame.
TerminalOnPriority(s) ==
    /\ serve[s] = "open" /\ s \notin cancelled /\ sock = "up"
    /\ LET n == sent[s] + 1 IN
       /\ sent' = [sent EXCEPT ![s] = n]
       /\ IF n = NFrames[s]
          THEN /\ Len(hi) < LaneCap /\ hi' = Append(hi, Frame("last", s, n))
               /\ UNCHANGED lo
          ELSE OnLane(s, Frame("data", s, n))
       /\ serve' = IF n = NFrames[s] THEN [serve EXCEPT ![s] = "ended"] ELSE serve
    /\ UNCHANGED <<pings, callVars, waiters, chan, lane, clientVars, wires,
                   cancelled>>

\* FrameSink::send: one Data frame, the terminal one on the same lane.
ServeFrame(s) ==
    /\ serve[s] = "open" /\ s \notin cancelled /\ sock = "up"
    /\ LET n == sent[s] + 1 IN
       /\ sent' = [sent EXCEPT ![s] = n]
       /\ OnLane(s, Frame(IF n = NFrames[s] THEN "last" ELSE "data", s, n))
       /\ serve' = IF n = NFrames[s] THEN [serve EXCEPT ![s] = "ended"] ELSE serve
    /\ UNCHANGED <<pings, callVars, waiters, chan, lane, clientVars, wires,
                   cancelled>>

\* The flag is polled between frames and consumed.
ServeCancelled(s) ==
    /\ serve[s] = "open" /\ s \in cancelled
    /\ cancelled' = cancelled \ {s}
    /\ serve' = [serve EXCEPT ![s] = "ended"]
    /\ UNCHANGED <<pings, callVars, waiters, chan, lane, clientVars, wires,
                   sent, hi, lo>>

\* The encode fails part way: Conn::respond sends the error reply.
ServeError(s) ==
    /\ serve[s] = "open" /\ sock = "up"
    /\ Len(hi) < LaneCap
    /\ hi' = Append(hi, Frame("err", s, 0))
    /\ serve' = [serve EXCEPT ![s] = "ended"]
    /\ UNCHANGED <<pings, callVars, waiters, chan, lane, clientVars, wires,
                   sent, cancelled, lo>>

\* The lane stays full for SEND_STALL_TIMEOUT: stalled_teardown.
ServeStalled(s) ==
    /\ serve[s] = "open" /\ sock = "up"
    /\ IF s \in Bulk THEN Len(lo) = LaneCap ELSE Len(hi) = LaneCap
    /\ Cut
    /\ UNCHANGED <<pings, callVars, waiters, chan, lane, clientVars>>

\* The server's writer: the priority lane first.
ServerWrites ==
    /\ sock = "up" /\ Len(wireDown) < WireCap
    /\ \/ /\ hi # <<>>
          /\ wireDown' = Append(wireDown, Head(hi)) /\ hi' = Tail(hi)
          /\ UNCHANGED lo
       \/ /\ hi = <<>> /\ lo # <<>>
          /\ wireDown' = Append(wireDown, Head(lo)) /\ lo' = Tail(lo)
          /\ UNCHANGED hi
    /\ UNCHANGED <<pings, callVars, waiters, chan, lane, clientVars, sock,
                   wireUp, serve, sent, cancelled>>

-----------------------------------------------------------------------------
Init ==
    /\ pings \in PingChoices
    /\ call = [s \in Streams |-> "new"]
    /\ got = [s \in Streams |-> <<>>] /\ errs = {}
    /\ waiters = {} /\ chan = [s \in Streams |-> <<>>]
    /\ closed = FALSE /\ notified = FALSE /\ handles = TRUE
    /\ lane = <<>> /\ writer = "run" /\ reader = "run" /\ parked = NoFrame
    /\ sock = "up" /\ wireUp = <<>> /\ wireDown = <<>>
    /\ serve = [s \in Streams |-> "none"] /\ sent = [s \in Streams |-> 0]
    /\ cancelled = {} /\ hi = <<>> /\ lo = <<>>

CallStep(s) ==
    Register(s) \/ Send(s) \/ Recheck(s) \/ Recv(s) \/ RecvClosed(s)

WriterStep == WriterWrite \/ (WriterMustStop /\ WriterStops)
              \/ WriterClears \/ WriterLeaves

ReaderStep == ReaderTakes \/ ReaderDelivers \/ ReaderStops \/ ReaderLeaves

ServeStep(s) == ServeFrame(s) \/ ServeCancelled(s)

Next ==
    \/ \E s \in Streams :
          \/ Check(s) \/ CallStep(s) \/ Abandon(s)
          \/ ServeStep(s) \/ ServeError(s) \/ ServeStalled(s)
    \/ Shutdown \/ DropHandles
    \/ WriterStep \/ WriterStops \/ ReaderStep
    \/ SocketDies \/ ServerReads \/ ServerWrites

Spec == Init /\ [][Next]_vars

\* Tasks that can run are polled and callers poll what they wait for.  Nothing
\* is assumed of deadlines, errors, shutdowns or of who gives up.
FairSpec ==
    /\ Spec
    /\ \A s \in Streams : WF_vars(CallStep(s)) /\ WF_vars(ServeStep(s))
    /\ WF_vars(WriterStep) /\ WF_vars(ReaderStep)
    /\ WF_vars(ServerReads) /\ WF_vars(ServerWrites)

-----------------------------------------------------------------------------
Ended == {"done", "failed", "left"}

\* Every variable stays in its range and no bounded queue passes its bound.
TypeOK ==
    /\ pings \subseteq Streams
    /\ call \in [Streams -> {"new", "checked", "sending", "recheck", "recv"}
                            \cup Ended]
    /\ got \in [Streams -> Seq(Nat)] /\ errs \subseteq Streams
    /\ waiters \subseteq Streams
    /\ chan \in [Streams -> Seq(Down)]
    /\ \A s \in Streams : Len(chan[s]) <= ChanCap
    /\ closed \in BOOLEAN /\ notified \in BOOLEAN /\ handles \in BOOLEAN
    /\ lane \in Seq(Up) /\ Len(lane) <= LaneCap
    /\ writer \in {"run", "closing", "cleared", "gone"}
    /\ reader \in {"run", "closing", "gone"}
    /\ parked \in Down \cup {NoFrame}
    /\ sock \in {"up", "down"}
    /\ wireUp \in Seq(Up) /\ Len(wireUp) <= WireCap
    /\ wireDown \in Seq(Down) /\ Len(wireDown) <= WireCap
    /\ serve \in [Streams -> {"none", "open", "ended"}]
    /\ sent \in [Streams -> Nat]
    /\ cancelled \subseteq Streams
    /\ hi \in Seq(Down) /\ Len(hi) <= LaneCap
    /\ lo \in Seq(Down) /\ Len(lo) <= LaneCap

\* Once either task has left no caller is left waiting on a registered waiter:
\* nobody would ever wake it.
NobodyStranded ==
    writer \in {"cleared", "gone"} \/ reader = "gone" =>
        \A s \in Streams : call[s] = "recv" => s \notin waiters

\* Data arrives in the order it was sent, and a caller handed the terminal
\* frame has been handed every frame before it.
StreamComplete ==
    \A s \in Streams :
        /\ \A i \in 1 .. Len(got[s]) : got[s][i] = i
        /\ call[s] = "done" /\ s \notin errs \cup pings
              => Len(got[s]) = NFrames[s]

\* A call comes to an end, on a live link and through every teardown.
CallsEnd == \A s \in Streams : call[s] = "checked" ~> call[s] \in Ended
=============================================================================
