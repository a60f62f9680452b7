--------------------------- MODULE ConnMuxProofs ----------------------------
(***************************************************************************)
(* Proofs about ConnMux: nobody waits on a connection that has been torn   *)
(* down, and a reply that ended without an error was received whole, for   *)
(* every set of streams, every length of the replies and every capacity of *)
(* the lanes, the channels and the wire.                                   *)
(***************************************************************************)
EXTENDS ConnMux, TLAPS

(***************************************************************************)
(* The inductive invariant.                                                *)
(***************************************************************************)

\* A task that has begun to stop has raised the flag before.
FlagRaised == writer # "run" \/ reader # "run" => closed

Requests(f, s) == f.stream = s /\ f.kind = "req"

\* q holds no request of stream s.
NoRequest(q, s) == \A i \in 1 .. Len(q) : ~Requests(q[i], s)

OneRequest(q, s) ==
    \A i, j \in 1 .. Len(q) : Requests(q[i], s) /\ Requests(q[j], s) => i = j

\* A stream is requested once: until its caller has sent it nothing of it is
\* under way, and until the server has read it there is one copy.
RequestedOnce ==
    \A s \in Streams :
        /\ OneRequest(lane, s) /\ OneRequest(wireUp, s)
        /\ ~NoRequest(lane, s) => NoRequest(wireUp, s)
        /\ ~NoRequest(lane, s) \/ ~NoRequest(wireUp, s) => serve[s] = "none"
        /\ call[s] \in {"new", "checked", "sending"} =>
              NoRequest(lane, s) /\ NoRequest(wireUp, s) /\ serve[s] = "none"
        /\ serve[s] = "none" => sent[s] = 0

PingsAsked(q) == \A i \in 1 .. Len(q) : q[i].kind = "ping" => q[i].stream \in pings

Data(f) == f.kind \in {"data", "last"}

\* The last frame of a reply is marked, and only a ping is ponged.
Honest(f) ==
    /\ Data(f) => (f.kind = "last" <=> f.n = NFrames[f.stream])
    /\ f.kind = "pong" => f.stream \in pings

AllHonest(q) == \A i \in 1 .. Len(q) : Honest(q[i])

FramesHonest ==
    /\ PingsAsked(lane) /\ PingsAsked(wireUp)
    /\ AllHonest(hi) /\ AllHonest(lo) /\ AllHonest(wireDown)
    /\ \A s \in Streams : AllHonest(chan[s])
    /\ parked # NoFrame => Honest(parked)
    /\ \A i \in 1 .. Len(hi) : Data(hi[i]) => hi[i].stream \notin Bulk
    /\ \A i \in 1 .. Len(lo) : Data(lo[i]) => lo[i].stream \in Bulk

ParkedFor(s) == parked # NoFrame /\ parked.stream = s

Unasked(s) == call[s] \in {"new", "checked"}

\* What a caller holds before it has registered, and what a channel holds: the
\* frames that follow the received ones, a terminal frame at the very end.
ChannelExact ==
    \A s \in Streams :
        /\ Unasked(s) => /\ s \notin waiters /\ ~ParkedFor(s)
                         /\ chan[s] = <<>> /\ got[s] = <<>>
        /\ \A i \in 1 .. Len(chan[s]) :
              Data(chan[s][i]) => chan[s][i].n = Len(got[s]) + i
        /\ \A i \in 1 .. Len(chan[s]) :
              Terminal(chan[s][i]) /\ Listening(s) =>
                 i = Len(chan[s]) /\ s \notin waiters /\ ~ParkedFor(s)
        /\ ParkedFor(s) /\ Data(parked) /\ Listening(s) =>
              parked.n = Len(got[s]) + Len(chan[s]) + 1

\* A channel holds frames of its own stream.
ChannelStreams ==
    \A s \in Streams : \A i \in 1 .. Len(chan[s]) : chan[s][i].stream = s

\* The Data frames of stream s in q are the ones numbered from b to e, in order.
Holds(q, s, b, e) ==
    /\ \A i \in 1 .. Len(q) :
          q[i].stream = s /\ Data(q[i]) => b <= q[i].n /\ q[i].n <= e
    /\ \A i, j \in 1 .. Len(q) :
          i < j /\ q[i].stream = s /\ Data(q[i]) /\ q[j].stream = s /\ Data(q[j])
             => q[i].n < q[j].n
    /\ \A k \in Nat : b <= k /\ k <= e =>
          \E i \in 1 .. Len(q) : q[i].stream = s /\ Data(q[i]) /\ q[i].n = k

\* The number of the next Data frame of s the reader has not yet taken.
NextToTake(s) ==
    Len(got[s]) + Len(chan[s]) + 1 + (IF ParkedFor(s) /\ Data(parked) THEN 1 ELSE 0)

LaneOf(s) == IF s \in Bulk THEN lo ELSE hi

Expecting(s) == Unasked(s) \/ (Listening(s) /\ s \in waiters)

\* While a caller expects frames none is missing between what the reader took
\* and what the server queued: first the wire, then the lane of the stream.
PipeExact ==
    \A s \in Streams : Expecting(s) =>
        \E m \in Nat :
            /\ m + 1 >= NextToTake(s) /\ m <= sent[s]
            /\ Holds(wireDown, s, NextToTake(s), m)
            /\ sock = "up" => Holds(LaneOf(s), s, m + 1, sent[s])

IInv ==
    /\ TypeOK
    /\ FlagRaised
    /\ NobodyStranded
    /\ RequestedOnce
    /\ FramesHonest
    /\ ChannelExact
    /\ ChannelStreams
    /\ PipeExact
    /\ StreamComplete

-----------------------------------------------------------------------------
(***************************************************************************)
(* Sequences of frames.                                                    *)
(***************************************************************************)

\* Indexing into a sequence after a frame is appended or the first one taken.
LEMMA SeqFacts ==
    ASSUME NEW S, NEW q \in Seq(S), NEW f \in S
    PROVE  /\ Append(q, f) \in Seq(S)
           /\ Len(Append(q, f)) = Len(q) + 1
           /\ \A i \in 1 .. Len(q) : Append(q, f)[i] = q[i]
           /\ Append(q, f)[Len(q) + 1] = f
           /\ q # <<>> => /\ Head(q) = q[1] /\ Head(q) \in S
                         /\ Tail(q) \in Seq(S) /\ Len(Tail(q)) = Len(q) - 1
                         /\ Len(q) >= 1
                         /\ \A i \in 1 .. Len(q) - 1 : Tail(q)[i] = q[i + 1]
  OBVIOUS

\* The frames of a sequence of replies.
LEMMA FrameAt ==
    ASSUME NEW q \in Seq(Down), NEW i \in 1 .. Len(q)
    PROVE  /\ q[i] \in Down /\ q[i].n \in Nat /\ q[i].stream \in Streams
           /\ q[i].kind \in {"data", "last", "err", "pong"}
  <1>1. q[i] \in Down
    OBVIOUS
  <1> QED BY <1>1 DEF Down

\* A lane whose stream is not concerned by the frame taken off.
LEMMA HoldsTailOther ==
    ASSUME NEW q \in Seq(Down), q # <<>>, NEW s \in Streams, NEW b \in Nat, NEW e \in Nat,
           Holds(q, s, b, e), ~(q[1].stream = s /\ Data(q[1]))
    PROVE  Holds(Tail(q), s, b, e)
  <1>1. /\ Len(Tail(q)) = Len(q) - 1 /\ Len(q) \in Nat /\ Len(q) >= 1
        /\ \A i \in 1 .. Len(q) - 1 : Tail(q)[i] = q[i + 1]
    OBVIOUS
  <1> HIDE DEF Data
  <1>2. \A k \in Nat : b <= k /\ k <= e =>
          \E i \in 1 .. Len(Tail(q)) : /\ Tail(q)[i].stream = s /\ Data(Tail(q)[i])
                                      /\ Tail(q)[i].n = k
    <2> SUFFICES ASSUME NEW k \in Nat, b <= k, k <= e
                 PROVE  \E i \in 1 .. Len(Tail(q)) :
                            /\ Tail(q)[i].stream = s /\ Data(Tail(q)[i])
                            /\ Tail(q)[i].n = k
      OBVIOUS
    <2>1. PICK i \in 1 .. Len(q) : q[i].stream = s /\ Data(q[i]) /\ q[i].n = k
      BY DEF Holds
    <2>2. i - 1 \in 1 .. Len(Tail(q)) /\ Tail(q)[i - 1] = q[i]
      BY <1>1, <2>1
    <2> QED BY <2>1, <2>2
  <1>3. \A i \in 1 .. Len(Tail(q)) : i + 1 \in 1 .. Len(q) /\ Tail(q)[i] = q[i + 1]
    BY <1>1
  <1>4. \A i, j \in 1 .. Len(Tail(q)) : i < j <=> i + 1 < j + 1
    BY <1>1
  <1> QED BY <1>2, <1>3, <1>4 DEF Holds

\* The first Data frame of a stream is the lowest; the rest follow it.
LEMMA HoldsTail ==
    ASSUME NEW q \in Seq(Down), q # <<>>, NEW s \in Streams, NEW b \in Nat, NEW e \in Nat,
           Holds(q, s, b, e), q[1].stream = s, Data(q[1])
    PROVE  q[1].n = b /\ b <= e /\ Holds(Tail(q), s, b + 1, e)
  <1>1. /\ Len(Tail(q)) = Len(q) - 1 /\ Len(q) \in Nat /\ Len(q) >= 1
        /\ \A i \in 1 .. Len(q) - 1 : Tail(q)[i] = q[i + 1]
    OBVIOUS
  <1>0. \A i \in 1 .. Len(q) : q[i].n \in Nat
    BY FrameAt
  <1> HIDE DEF Data
  <1>2. b <= q[1].n /\ q[1].n <= e /\ b <= e
    BY <1>0, <1>1 DEF Holds
  <1>3. q[1].n = b
    <2>1. PICK i \in 1 .. Len(q) : q[i].stream = s /\ Data(q[i]) /\ q[i].n = b
      BY <1>2, <1>0 DEF Holds
    <2>2. i = 1 \/ q[1].n < q[i].n
      BY <1>1, <2>1 DEF Holds
    <2> QED BY <1>0, <1>1, <1>2, <2>1, <2>2
  <1>4. \A i \in 1 .. Len(Tail(q)) : i + 1 \in 1 .. Len(q) /\ Tail(q)[i] = q[i + 1]
    BY <1>1
  <1>5. \A i, j \in 1 .. Len(Tail(q)) : i < j <=> i + 1 < j + 1
    BY <1>1
  <1>6. \A k \in Nat : b + 1 <= k /\ k <= e =>
          \E i \in 1 .. Len(Tail(q)) : /\ Tail(q)[i].stream = s /\ Data(Tail(q)[i])
                                      /\ Tail(q)[i].n = k
    <2> SUFFICES ASSUME NEW k \in Nat, b + 1 <= k, k <= e
                 PROVE  \E i \in 1 .. Len(Tail(q)) :
                            /\ Tail(q)[i].stream = s /\ Data(Tail(q)[i])
                            /\ Tail(q)[i].n = k
      OBVIOUS
    <2>1. PICK i \in 1 .. Len(q) : q[i].stream = s /\ Data(q[i]) /\ q[i].n = k
      BY DEF Holds
    <2>2. i # 1
      BY <1>3, <2>1
    <2>3. i - 1 \in 1 .. Len(Tail(q)) /\ Tail(q)[i - 1] = q[i]
      BY <1>1, <2>1, <2>2
    <2> QED BY <2>1, <2>3
  <1>7. \A i \in 1 .. Len(Tail(q)) :
          Tail(q)[i].stream = s /\ Data(Tail(q)[i]) => b + 1 <= Tail(q)[i].n /\ Tail(q)[i].n <= e
    <2> SUFFICES ASSUME NEW i \in 1 .. Len(Tail(q)), Tail(q)[i].stream = s, Data(Tail(q)[i])
                 PROVE  b + 1 <= Tail(q)[i].n /\ Tail(q)[i].n <= e
      OBVIOUS
    <2>1. q[1].n < q[i + 1].n /\ q[i + 1].n <= e
      BY <1>1, <1>4 DEF Holds
    <2> QED BY <1>0, <1>3, <1>4, <2>1
  <1> QED BY <1>2, <1>3, <1>4, <1>5, <1>6, <1>7 DEF Holds

\* The next Data frame goes to the end.
LEMMA HoldsAppend ==
    ASSUME NEW q \in Seq(Down), NEW f \in Down, NEW s \in Streams, NEW b \in Nat, NEW e \in Nat,
           Holds(q, s, b, e), f.stream = s, Data(f), f.n = e + 1, b <= e + 1
    PROVE  Holds(Append(q, f), s, b, e + 1)
  <1> DEFINE r == Append(q, f)
  <1>1. /\ Len(r) = Len(q) + 1 /\ Len(q) \in Nat
        /\ \A i \in 1 .. Len(q) : r[i] = q[i]
        /\ r[Len(q) + 1] = f
    OBVIOUS
  <1>0. \A i \in 1 .. Len(q) : q[i].n \in Nat
    BY FrameAt
  <1> HIDE DEF r, Data
  <1>2. \A i \in 1 .. Len(r) : (r[i] = f /\ i = Len(q) + 1) \/ (i \in 1 .. Len(q) /\ r[i] = q[i])
    <2> TAKE i \in 1 .. Len(r)
    <2>1. i = Len(q) + 1 \/ i \in 1 .. Len(q)
      BY <1>1
    <2>2. CASE i = Len(q) + 1
      BY <1>1, <2>2
    <2>3. CASE i \in 1 .. Len(q)
      BY <1>1, <2>3
    <2> QED BY <2>1, <2>2, <2>3
  <1>3. \A i \in 1 .. Len(q) : i \in 1 .. Len(r) /\ i < Len(q) + 1
    BY <1>1
  <1>4. Len(q) + 1 \in 1 .. Len(r) /\ r[Len(q) + 1] = f
    BY <1>1
  <1>5. \A i \in 1 .. Len(r) : r[i].stream = s /\ Data(r[i]) => b <= r[i].n /\ r[i].n <= e + 1
    BY <1>2, <1>0 DEF Holds
  <1>6. \A i, j \in 1 .. Len(r) :
          i < j /\ r[i].stream = s /\ Data(r[i]) /\ r[j].stream = s /\ Data(r[j])
             => r[i].n < r[j].n
    <2> SUFFICES ASSUME NEW i \in 1 .. Len(r), NEW j \in 1 .. Len(r), i < j,
                        r[i].stream = s, Data(r[i]), r[j].stream = s, Data(r[j])
                 PROVE  r[i].n < r[j].n
      OBVIOUS
    <2>1. i \in 1 .. Len(q) /\ r[i] = q[i]
      BY <1>1, <1>2
    <2>2. CASE j = Len(q) + 1
      BY <2>1, <2>2, <1>0, <1>4 DEF Holds
    <2>3. CASE j \in 1 .. Len(q) /\ r[j] = q[j]
      BY <2>1, <2>3 DEF Holds
    <2> QED BY <1>2, <2>2, <2>3
  <1>7. \A k \in Nat : b <= k /\ k <= e + 1 =>
          \E i \in 1 .. Len(r) : r[i].stream = s /\ Data(r[i]) /\ r[i].n = k
    <2> SUFFICES ASSUME NEW k \in Nat, b <= k, k <= e + 1
                 PROVE  \E i \in 1 .. Len(r) : r[i].stream = s /\ Data(r[i]) /\ r[i].n = k
      OBVIOUS
    <2>1. CASE k = e + 1
      BY <2>1, <1>4
    <2>2. CASE k <= e
      <3>1. PICK i \in 1 .. Len(q) : q[i].stream = s /\ Data(q[i]) /\ q[i].n = k
        BY <2>2 DEF Holds
      <3> QED BY <3>1, <1>2, <1>3, <1>1
    <2> QED BY <2>1, <2>2
  <1> QED BY <1>5, <1>6, <1>7 DEF Holds, r

\* A frame of another stream, or one without data, goes to the end.
LEMMA HoldsAppendOther ==
    ASSUME NEW q \in Seq(Down), NEW f \in Down, NEW s \in Streams, NEW b \in Nat, NEW e \in Nat,
           Holds(q, s, b, e), ~(f.stream = s /\ Data(f))
    PROVE  Holds(Append(q, f), s, b, e)
  <1>1. /\ Len(Append(q, f)) = Len(q) + 1 /\ Len(q) \in Nat
        /\ \A i \in 1 .. Len(q) : Append(q, f)[i] = q[i]
        /\ Append(q, f)[Len(q) + 1] = f
    OBVIOUS
  <1> DEFINE r == Append(q, f)
  <1>2. \A i \in 1 .. Len(r) : r[i].stream = s /\ Data(r[i]) => i \in 1 .. Len(q) /\ r[i] = q[i]
    BY <1>1
  <1>3. \A i \in 1 .. Len(q) : i \in 1 .. Len(r) /\ r[i] = q[i]
    BY <1>1
  <1> HIDE DEF r, Data
  <1> QED BY <1>2, <1>3 DEF Holds, r

\* An empty queue holds the empty range.
LEMMA HoldsNone ==
    ASSUME NEW s, NEW b \in Nat, NEW e \in Nat, e < b
    PROVE  Holds(<<>>, s, b, e)
  BY DEF Holds

\* What holds an empty range holds nothing, whatever the empty range.
LEMMA HoldsEmptyRange ==
    ASSUME NEW q \in Seq(Down), NEW s, NEW b \in Nat, NEW e \in Nat, Holds(q, s, b, e), e < b,
           NEW c \in Nat, NEW d \in Nat, d < c
    PROVE  Holds(q, s, c, d)
  <1>1. \A i \in 1 .. Len(q) : q[i].n \in Nat
    BY FrameAt
  <1> QED BY <1>1 DEF Holds

-----------------------------------------------------------------------------
(***************************************************************************)
(* Every step keeps each part of the invariant.                            *)
(***************************************************************************)

\* The frames the two sides make are frames.
LEMMA FrameTypes ==
    ASSUME NEW s \in Streams, NEW i \in Nat
    PROVE  /\ \A k \in {"req", "ping", "cancel"} : Frame(k, s, 0) \in Up
           /\ \A k \in {"data", "last", "err", "pong"} : Frame(k, s, i) \in Down
  BY DEF Frame, Up, Down

\* A cut and a queue: capacities.
LEMMA Caps == LaneCap \in Nat /\ ChanCap \in Nat /\ WireCap \in Nat
  BY MuxAssumption

\* A frame that finds room fits.
LEMMA Pushed ==
    ASSUME NEW S, NEW q \in Seq(S), NEW f \in S, NEW c \in Nat, Len(q) < c
    PROVE  Append(q, f) \in Seq(S) /\ Len(Append(q, f)) <= c
  OBVIOUS

\* What is left of a queue fits.
LEMMA Popped ==
    ASSUME NEW S, NEW q \in Seq(S), q # <<>>, NEW c \in Nat, Len(q) <= c
    PROVE  Head(q) \in S /\ Tail(q) \in Seq(S) /\ Len(Tail(q)) <= c
  OBVIOUS

\* A cut leaves a socket that is down and a server with nothing queued.
LEMMA CutTypes ==
    ASSUME TypeOK, Cut
    PROVE  /\ sock' \in {"up", "down"}
           /\ wireUp' \in Seq(Up) /\ Len(wireUp') <= WireCap
           /\ wireDown' \in Seq(Down) /\ Len(wireDown') <= WireCap
           /\ serve' \in [Streams -> {"none", "open", "ended"}]
           /\ sent' \in [Streams -> Nat] /\ cancelled' \subseteq Streams
           /\ hi' \in Seq(Down) /\ Len(hi') <= LaneCap
           /\ lo' \in Seq(Down) /\ Len(lo') <= LaneCap
  <1>1. /\ sock' = "down" /\ wireUp' = <<>> /\ hi' = <<>> /\ lo' = <<>>
        /\ cancelled' = {} /\ wireDown' = wireDown /\ sent' = sent
        /\ serve' = [s \in Streams |-> IF serve[s] = "open" THEN "ended" ELSE serve[s]]
    BY DEF Cut
  <1>2. serve' \in [Streams -> {"none", "open", "ended"}]
    BY <1>1 DEF TypeOK
  <1>3. \A S : <<>> \in Seq(S) /\ Len(<<>>) = 0
    OBVIOUS
  <1> QED BY <1>1, <1>2, <1>3, MuxAssumption DEF TypeOK

\* Types are kept.
LEMMA TypeStep ==
    ASSUME TypeOK, [Next]_vars
    PROVE  TypeOK'
  <1>1. ASSUME NEW s \in Streams, Check(s) PROVE TypeOK'
    BY <1>1 DEF Check, TypeOK, To, Ended, callVars, clientVars, wires, serverVars
  <1>2. ASSUME NEW s \in Streams, Register(s) PROVE TypeOK'
    BY <1>2 DEF Register, TypeOK, To, Ended, callVars, clientVars, wires, serverVars
  <1>3. ASSUME NEW s \in Streams, Send(s) PROVE TypeOK'
    <2>1. CASE Len(lane) < LaneCap /\ LaneOpen
      <3>1. lane' = Append(lane, Frame(IF s \in pings THEN "ping" ELSE "req", s, 0))
        BY <1>3, <2>1 DEF Send
      <3>2. lane' \in Seq(Up) /\ Len(lane') <= LaneCap
        BY <2>1, <3>1, FrameTypes, Pushed, Caps DEF TypeOK
      <3> QED BY <1>3, <2>1, <3>2 DEF Send, TypeOK, To, callVars, clientVars, wires, serverVars
    <2>2. CASE ~LaneOpen
      BY <1>3, <2>2 DEF Send, TypeOK, To, Ended, callVars, clientVars, wires, serverVars
    <2> QED BY <1>3, <2>1, <2>2 DEF Send
  <1>4. ASSUME NEW s \in Streams, Recheck(s) PROVE TypeOK'
    BY <1>4 DEF Recheck, TypeOK, To, Ended, callVars, clientVars, wires, serverVars
  <1>5. ASSUME NEW s \in Streams, Recv(s) PROVE TypeOK'
    <2> DEFINE f == Head(chan[s])
    <2>1. chan[s] \in Seq(Down) /\ chan[s] # <<>>
      BY <1>5 DEF Recv, TypeOK
    <2>2. f \in Down /\ f.n \in Nat /\ Tail(chan[s]) \in Seq(Down)
          /\ Len(Tail(chan[s])) = Len(chan[s]) - 1
      <3>1. f \in Down /\ Tail(chan[s]) \in Seq(Down) /\ Len(Tail(chan[s])) = Len(chan[s]) - 1
        BY <2>1, SeqFacts
      <3> QED BY <3>1 DEF Down
    <2>3. chan' = [chan EXCEPT ![s] = Tail(@)]
      BY <1>5 DEF Recv
    <2>4. chan' \in [Streams -> Seq(Down)] /\ \A t \in Streams : Len(chan'[t]) <= ChanCap
      BY <2>1, <2>2, <2>3, MuxAssumption DEF TypeOK
    <2>5. got' = got \/ got' = [got EXCEPT ![s] = Append(@, f.n)]
      BY <1>5 DEF Recv
    <2>6. got' \in [Streams -> Seq(Nat)]
      <3>1. got[s] \in Seq(Nat) /\ got \in [Streams -> Seq(Nat)]
        BY DEF TypeOK
      <3>2. Append(got[s], f.n) \in Seq(Nat)
        BY <2>2, <3>1
      <3> QED BY <2>5, <3>1, <3>2
    <2> QED BY <1>5, <2>4, <2>6 DEF Recv, TypeOK, To, Ended, callVars, clientVars, wires, serverVars
  <1>6. ASSUME NEW s \in Streams, RecvClosed(s) PROVE TypeOK'
    BY <1>6 DEF RecvClosed, TypeOK, To, Ended, callVars, clientVars, wires, serverVars
  <1>7. ASSUME NEW s \in Streams, Abandon(s) PROVE TypeOK'
    <2>1. lane' = lane \/ (Len(lane) < LaneCap /\ lane' = Append(lane, Frame("cancel", s, 0)))
      BY <1>7 DEF Abandon
    <2>2. lane' \in Seq(Up) /\ Len(lane') <= LaneCap
      <3>1. CASE lane' = lane
        BY <3>1 DEF TypeOK
      <3>2. CASE Len(lane) < LaneCap /\ lane' = Append(lane, Frame("cancel", s, 0))
        BY <3>2, FrameTypes, Pushed, Caps DEF TypeOK
      <3> QED BY <2>1, <3>1, <3>2
    <2>3. chan' = [chan EXCEPT ![s] = <<>>]
      BY <1>7 DEF Abandon
    <2>4. <<>> \in Seq(Down) /\ Len(<<>>) = 0
      OBVIOUS
    <2>5. chan' \in [Streams -> Seq(Down)] /\ \A t \in Streams : Len(chan'[t]) <= ChanCap
      BY <2>3, <2>4, MuxAssumption DEF TypeOK
    <2> QED BY <1>7, <2>2, <2>5 DEF Abandon, TypeOK, To, Ended, callVars, clientVars, wires, serverVars
  <1>8. ASSUME NEW s \in Streams, ServeFrame(s) PROVE TypeOK'
    <2> DEFINE n == sent[s] + 1
               f == Frame(IF n = NFrames[s] THEN "last" ELSE "data", s, n)
    <2>1. n \in Nat /\ f \in Down
      BY FrameTypes DEF TypeOK
    <2> HIDE DEF f
    <2>2. /\ sent' = [sent EXCEPT ![s] = n]
          /\ OnLane(s, f)
          /\ serve' = IF n = NFrames[s] THEN [serve EXCEPT ![s] = "ended"] ELSE serve
      BY <1>8 DEF ServeFrame, f
    <2>3. /\ hi' \in Seq(Down) /\ Len(hi') <= LaneCap
          /\ lo' \in Seq(Down) /\ Len(lo') <= LaneCap
      <3>1. CASE Len(lo) < LaneCap /\ lo' = Append(lo, f) /\ hi' = hi
        BY <2>1, <3>1, Pushed, Caps DEF TypeOK
      <3>2. CASE Len(hi) < LaneCap /\ hi' = Append(hi, f) /\ lo' = lo
        BY <2>1, <3>2, Pushed, Caps DEF TypeOK
      <3> QED BY <2>2, <3>1, <3>2 DEF OnLane
    <2>4. sent' \in [Streams -> Nat] /\ serve' \in [Streams -> {"none", "open", "ended"}]
      BY <2>1, <2>2 DEF TypeOK
    <2> QED BY <1>8, <2>3, <2>4 DEF ServeFrame, TypeOK, callVars, clientVars, wires, serverVars
  <1>9. ASSUME NEW s \in Streams, ServeCancelled(s) PROVE TypeOK'
    BY <1>9 DEF ServeCancelled, TypeOK, To, Ended, callVars, clientVars, wires, serverVars
  <1>10. ASSUME NEW s \in Streams, ServeError(s) PROVE TypeOK'
    <2>1. hi' = Append(hi, Frame("err", s, 0)) /\ Len(hi) < LaneCap
      BY <1>10 DEF ServeError
    <2>2. hi' \in Seq(Down) /\ Len(hi') <= LaneCap
      BY <2>1, FrameTypes, SeqFacts, MuxAssumption DEF TypeOK
    <2> QED BY <1>10, <2>2 DEF ServeError, TypeOK, callVars, clientVars, wires, serverVars
  <1>11. ASSUME NEW s \in Streams, ServeStalled(s) PROVE TypeOK'
    <2>1. Cut
      BY <1>11 DEF ServeStalled
    <2> QED BY <1>11, <2>1, CutTypes DEF ServeStalled, TypeOK, callVars, clientVars
  <1>12. CASE Shutdown
    BY <1>12 DEF Shutdown, TypeOK, To, Ended, callVars, clientVars, wires, serverVars
  <1>13. CASE DropHandles
    BY <1>13 DEF DropHandles, TypeOK, To, Ended, callVars, clientVars, wires, serverVars
  <1>14. CASE WriterWrite
    <2>1. Head(lane) \in Up /\ Tail(lane) \in Seq(Up) /\ Len(Tail(lane)) <= LaneCap
      BY <1>14, Popped, Caps DEF WriterWrite, TypeOK
    <2>2. Append(wireUp, Head(lane)) \in Seq(Up) /\ Len(Append(wireUp, Head(lane))) <= WireCap
      BY <1>14, <2>1, Pushed, Caps DEF WriterWrite, TypeOK
    <2> QED BY <1>14, <2>1, <2>2 DEF WriterWrite, TypeOK, callVars, clientVars, serverVars
  <1>15. CASE WriterStops
    BY <1>15 DEF WriterStops, TypeOK, To, Ended, callVars, clientVars, wires, serverVars
  <1>16. CASE WriterClears
    BY <1>16 DEF WriterClears, TypeOK, To, Ended, callVars, clientVars, wires, serverVars
  <1>17. CASE WriterLeaves
    <2>1. CASE reader = "gone"
      <3>1. Cut
        BY <1>17, <2>1 DEF WriterLeaves
      <3> QED BY <1>17, <3>1, CutTypes, MuxAssumption DEF WriterLeaves, TypeOK, callVars
    <2>2. CASE reader # "gone"
      BY <1>17, <2>2, MuxAssumption DEF WriterLeaves, TypeOK, callVars, clientVars, wires, serverVars
    <2> QED BY <2>1, <2>2
  <1>18. CASE ReaderTakes
    <2>1. /\ Head(wireDown) \in Down /\ Tail(wireDown) \in Seq(Down)
          /\ Len(Tail(wireDown)) <= WireCap
      BY <1>18, Popped, Caps DEF ReaderTakes, TypeOK
    <2> QED BY <1>18, <2>1 DEF ReaderTakes, TypeOK, callVars, serverVars
  <1>19. CASE ReaderDelivers
    <2>1. parked \in Down /\ parked.stream \in Streams
      BY <1>19 DEF ReaderDelivers, TypeOK, Down
    <2>2. chan' = chan \/ (/\ Len(chan[parked.stream]) < ChanCap
                           /\ chan' = [chan EXCEPT ![parked.stream] = Append(@, parked)])
      BY <1>19 DEF ReaderDelivers
    <2>3. Len(chan[parked.stream]) < ChanCap =>
             /\ Append(chan[parked.stream], parked) \in Seq(Down)
             /\ Len(Append(chan[parked.stream], parked)) <= ChanCap
      BY <2>1, Pushed, Caps DEF TypeOK
    <2>4. chan' \in [Streams -> Seq(Down)] /\ \A t \in Streams : Len(chan'[t]) <= ChanCap
      BY <2>1, <2>2, <2>3, Caps DEF TypeOK
    <2> QED BY <1>19, <2>4 DEF ReaderDelivers, TypeOK, callVars, clientVars, wires, serverVars
  <1>20. CASE ReaderStops
    BY <1>20 DEF ReaderStops, TypeOK, To, Ended, callVars, clientVars, wires, serverVars
  <1>21. CASE ReaderLeaves
    <2>1. CASE writer = "gone"
      <3>1. Cut
        BY <1>21, <2>1 DEF ReaderLeaves
      <3> QED BY <1>21, <3>1, CutTypes, MuxAssumption DEF ReaderLeaves, TypeOK, callVars
    <2>2. CASE writer # "gone"
      BY <1>21, <2>2, MuxAssumption DEF ReaderLeaves, TypeOK, callVars, clientVars, wires, serverVars
    <2> QED BY <2>1, <2>2
  <1>22. CASE SocketDies
    <2>1. Cut
      BY <1>22 DEF SocketDies
    <2> QED BY <1>22, <2>1, CutTypes DEF SocketDies, TypeOK, callVars, clientVars
  <1>23. CASE ServerReads
    <2>1. /\ Head(wireUp) \in Up /\ Tail(wireUp) \in Seq(Up)
          /\ Len(Tail(wireUp)) <= WireCap
      BY <1>23, Popped, Caps DEF ServerReads, TypeOK
    <2>2. Head(wireUp).stream \in Streams
      BY <2>1 DEF Up
    <2>3. hi' = hi \/ (Len(hi) < LaneCap /\ hi' = Append(hi, Frame("pong", Head(wireUp).stream, 0)))
      BY <1>23 DEF ServerReads
    <2>4. hi' \in Seq(Down) /\ Len(hi') <= LaneCap
      <3>1. CASE hi' = hi
        BY <3>1 DEF TypeOK
      <3>2. CASE Len(hi) < LaneCap /\ hi' = Append(hi, Frame("pong", Head(wireUp).stream, 0))
        BY <2>2, <3>2, FrameTypes, Pushed, Caps DEF TypeOK
      <3> QED BY <2>3, <3>1, <3>2
    <2>5. serve' = serve \/ serve' = [serve EXCEPT ![Head(wireUp).stream] = "open"]
      BY <1>23 DEF ServerReads
    <2>6. cancelled' = cancelled \/ cancelled' = cancelled \cup {Head(wireUp).stream}
      BY <1>23 DEF ServerReads
    <2>7. /\ serve' \in [Streams -> {"none", "open", "ended"}]
          /\ cancelled' \subseteq Streams
      BY <2>2, <2>5, <2>6 DEF TypeOK
    <2>8. wireUp' \in Seq(Up) /\ Len(wireUp') <= WireCap
      BY <1>23, <2>1 DEF ServerReads, TypeOK
    <2> QED BY <1>23, <2>4, <2>7, <2>8 DEF ServerReads, TypeOK, callVars, clientVars
  <1>24. CASE ServerWrites
    <2>1. CASE hi # <<>> /\ wireDown' = Append(wireDown, Head(hi)) /\ hi' = Tail(hi) /\ lo' = lo
      BY <1>24, <2>1, SeqFacts, MuxAssumption DEF ServerWrites, TypeOK, callVars, clientVars
    <2>2. CASE lo # <<>> /\ wireDown' = Append(wireDown, Head(lo)) /\ lo' = Tail(lo) /\ hi' = hi
      BY <1>24, <2>2, SeqFacts, MuxAssumption DEF ServerWrites, TypeOK, callVars, clientVars
    <2> QED BY <1>24, <2>1, <2>2 DEF ServerWrites
  <1>25. CASE UNCHANGED vars
    BY <1>25 DEF TypeOK, vars, callVars, clientVars, wires, serverVars
    <1> QED BY <1>1, <1>2, <1>3, <1>4, <1>5, <1>6, <1>7, <1>8, <1>9, <1>10,
            <1>11, <1>12, <1>13, <1>14, <1>15, <1>16, <1>17, <1>18, <1>19,
            <1>20, <1>21, <1>22, <1>23, <1>24, <1>25 DEF Next, CallStep,
            ServeStep, WriterStep, ReaderStep

\* The flag goes up before a task stops and never comes down.
LEMMA FlagStep ==
    ASSUME TypeOK, FlagRaised, [Next]_vars
    PROVE  FlagRaised'
  <1>1. ASSUME NEW s \in Streams, Check(s) PROVE FlagRaised'
    BY <1>1 DEF Check, FlagRaised, TypeOK, callVars, clientVars, wires, serverVars
  <1>2. ASSUME NEW s \in Streams, Register(s) PROVE FlagRaised'
    BY <1>2 DEF Register, FlagRaised, TypeOK, callVars, clientVars, wires, serverVars
  <1>3. ASSUME NEW s \in Streams, Send(s) PROVE FlagRaised'
    BY <1>3 DEF Send, FlagRaised, TypeOK, callVars, clientVars, wires, serverVars
  <1>4. ASSUME NEW s \in Streams, Recheck(s) PROVE FlagRaised'
    BY <1>4 DEF Recheck, FlagRaised, TypeOK, callVars, clientVars, wires, serverVars
  <1>5. ASSUME NEW s \in Streams, Recv(s) PROVE FlagRaised'
    BY <1>5 DEF Recv, FlagRaised, TypeOK, callVars, clientVars, wires, serverVars
  <1>6. ASSUME NEW s \in Streams, RecvClosed(s) PROVE FlagRaised'
    BY <1>6 DEF RecvClosed, FlagRaised, TypeOK, callVars, clientVars, wires, serverVars
  <1>7. ASSUME NEW s \in Streams, Abandon(s) PROVE FlagRaised'
    BY <1>7 DEF Abandon, FlagRaised, TypeOK, callVars, clientVars, wires, serverVars
  <1>8. ASSUME NEW s \in Streams, ServeFrame(s) PROVE FlagRaised'
    BY <1>8 DEF ServeFrame, FlagRaised, TypeOK, callVars, clientVars, wires, serverVars
  <1>9. ASSUME NEW s \in Streams, ServeCancelled(s) PROVE FlagRaised'
    BY <1>9 DEF ServeCancelled, FlagRaised, TypeOK, callVars, clientVars, wires, serverVars
  <1>10. ASSUME NEW s \in Streams, ServeError(s) PROVE FlagRaised'
    BY <1>10 DEF ServeError, FlagRaised, TypeOK, callVars, clientVars, wires, serverVars
  <1>11. ASSUME NEW s \in Streams, ServeStalled(s) PROVE FlagRaised'
    BY <1>11 DEF ServeStalled, FlagRaised, TypeOK, callVars, clientVars, wires, serverVars
  <1>12. CASE Shutdown
    BY <1>12 DEF Shutdown, FlagRaised, TypeOK, callVars, clientVars, wires, serverVars
  <1>13. CASE DropHandles
    BY <1>13 DEF DropHandles, FlagRaised, TypeOK, callVars, clientVars, wires, serverVars
  <1>14. CASE WriterWrite
    BY <1>14 DEF WriterWrite, FlagRaised, TypeOK, callVars, clientVars, wires, serverVars
  <1>15. CASE WriterStops
    BY <1>15 DEF WriterStops, FlagRaised, TypeOK, callVars, clientVars, wires, serverVars
  <1>16. CASE WriterClears
    BY <1>16 DEF WriterClears, FlagRaised, TypeOK, callVars, clientVars, wires, serverVars
  <1>17. CASE WriterLeaves
    BY <1>17 DEF WriterLeaves, FlagRaised, TypeOK, callVars, clientVars, wires, serverVars
  <1>18. CASE ReaderTakes
    BY <1>18 DEF ReaderTakes, FlagRaised, TypeOK, callVars, clientVars, wires, serverVars
  <1>19. CASE ReaderDelivers
    BY <1>19 DEF ReaderDelivers, FlagRaised, TypeOK, callVars, clientVars, wires, serverVars
  <1>20. CASE ReaderStops
    BY <1>20 DEF ReaderStops, FlagRaised, TypeOK, callVars, clientVars, wires, serverVars
  <1>21. CASE ReaderLeaves
    BY <1>21 DEF ReaderLeaves, FlagRaised, TypeOK, callVars, clientVars, wires, serverVars
  <1>22. CASE SocketDies
    BY <1>22 DEF SocketDies, FlagRaised, TypeOK, callVars, clientVars, wires, serverVars
  <1>23. CASE ServerReads
    BY <1>23 DEF ServerReads, FlagRaised, TypeOK, callVars, clientVars, wires, serverVars
  <1>24. CASE ServerWrites
    BY <1>24 DEF ServerWrites, FlagRaised, TypeOK, callVars, clientVars, wires, serverVars
  <1>25. CASE UNCHANGED vars
    BY <1>25 DEF FlagRaised, vars, callVars, clientVars, wires, serverVars
    <1> QED BY <1>1, <1>2, <1>3, <1>4, <1>5, <1>6, <1>7, <1>8, <1>9, <1>10,
            <1>11, <1>12, <1>13, <1>14, <1>15, <1>16, <1>17, <1>18, <1>19,
            <1>20, <1>21, <1>22, <1>23, <1>24, <1>25 DEF Next, CallStep,
            ServeStep, WriterStep, ReaderStep

\* A caller that finds the flag down is woken by the task that clears the map.
LEMMA StrandedStep ==
    ASSUME TypeOK, FlagRaised, NobodyStranded, [Next]_vars
    PROVE  NobodyStranded'
  <1>1. ASSUME NEW s \in Streams, Check(s) PROVE NobodyStranded'
    BY <1>1 DEF Check, FlagRaised, NobodyStranded, TypeOK, To, callVars, clientVars, wires, serverVars
  <1>2. ASSUME NEW s \in Streams, Register(s) PROVE NobodyStranded'
    BY <1>2 DEF Register, FlagRaised, NobodyStranded, TypeOK, To, callVars, clientVars, wires, serverVars
  <1>3. ASSUME NEW s \in Streams, Send(s) PROVE NobodyStranded'
    BY <1>3 DEF Send, FlagRaised, NobodyStranded, TypeOK, To, callVars, clientVars, wires, serverVars
  <1>4. ASSUME NEW s \in Streams, Recheck(s) PROVE NobodyStranded'
    BY <1>4 DEF Recheck, FlagRaised, NobodyStranded, TypeOK, To, callVars, clientVars, wires, serverVars
  <1>5. ASSUME NEW s \in Streams, Recv(s) PROVE NobodyStranded'
    BY <1>5 DEF Recv, FlagRaised, NobodyStranded, TypeOK, To, callVars, clientVars, wires, serverVars
  <1>6. ASSUME NEW s \in Streams, RecvClosed(s) PROVE NobodyStranded'
    BY <1>6 DEF RecvClosed, FlagRaised, NobodyStranded, TypeOK, To, callVars, clientVars, wires, serverVars
  <1>7. ASSUME NEW s \in Streams, Abandon(s) PROVE NobodyStranded'
    BY <1>7 DEF Abandon, FlagRaised, NobodyStranded, TypeOK, To, callVars, clientVars, wires, serverVars
  <1>8. ASSUME NEW s \in Streams, ServeFrame(s) PROVE NobodyStranded'
    BY <1>8 DEF ServeFrame, FlagRaised, NobodyStranded, TypeOK, To, callVars, clientVars, wires, serverVars
  <1>9. ASSUME NEW s \in Streams, ServeCancelled(s) PROVE NobodyStranded'
    BY <1>9 DEF ServeCancelled, FlagRaised, NobodyStranded, TypeOK, To, callVars, clientVars, wires, serverVars
  <1>10. ASSUME NEW s \in Streams, ServeError(s) PROVE NobodyStranded'
    BY <1>10 DEF ServeError, FlagRaised, NobodyStranded, TypeOK, To, callVars, clientVars, wires, serverVars
  <1>11. ASSUME NEW s \in Streams, ServeStalled(s) PROVE NobodyStranded'
    BY <1>11 DEF ServeStalled, FlagRaised, NobodyStranded, TypeOK, To, callVars, clientVars, wires, serverVars
  <1>12. CASE Shutdown
    BY <1>12 DEF Shutdown, FlagRaised, NobodyStranded, TypeOK, To, callVars, clientVars, wires, serverVars
  <1>13. CASE DropHandles
    BY <1>13 DEF DropHandles, FlagRaised, NobodyStranded, TypeOK, To, callVars, clientVars, wires, serverVars
  <1>14. CASE WriterWrite
    BY <1>14 DEF WriterWrite, FlagRaised, NobodyStranded, TypeOK, To, callVars, clientVars, wires, serverVars
  <1>15. CASE WriterStops
    BY <1>15 DEF WriterStops, FlagRaised, NobodyStranded, TypeOK, To, callVars, clientVars, wires, serverVars
  <1>16. CASE WriterClears
    BY <1>16 DEF WriterClears, FlagRaised, NobodyStranded, TypeOK, To, callVars, clientVars, wires, serverVars
  <1>17. CASE WriterLeaves
    BY <1>17 DEF WriterLeaves, FlagRaised, NobodyStranded, TypeOK, To, callVars, clientVars, wires, serverVars
  <1>18. CASE ReaderTakes
    BY <1>18 DEF ReaderTakes, FlagRaised, NobodyStranded, TypeOK, To, callVars, clientVars, wires, serverVars
  <1>19. CASE ReaderDelivers
    BY <1>19 DEF ReaderDelivers, FlagRaised, NobodyStranded, TypeOK, To, callVars, clientVars, wires, serverVars
  <1>20. CASE ReaderStops
    BY <1>20 DEF ReaderStops, FlagRaised, NobodyStranded, TypeOK, To, callVars, clientVars, wires, serverVars
  <1>21. CASE ReaderLeaves
    BY <1>21 DEF ReaderLeaves, FlagRaised, NobodyStranded, TypeOK, To, callVars, clientVars, wires, serverVars
  <1>22. CASE SocketDies
    BY <1>22 DEF SocketDies, FlagRaised, NobodyStranded, TypeOK, To, callVars, clientVars, wires, serverVars
  <1>23. CASE ServerReads
    BY <1>23 DEF ServerReads, FlagRaised, NobodyStranded, TypeOK, To, callVars, clientVars, wires, serverVars
  <1>24. CASE ServerWrites
    BY <1>24 DEF ServerWrites, FlagRaised, NobodyStranded, TypeOK, To, callVars, clientVars, wires, serverVars
  <1>25. CASE UNCHANGED vars
    BY <1>25 DEF NobodyStranded, vars, callVars, clientVars, wires, serverVars
    <1> QED BY <1>1, <1>2, <1>3, <1>4, <1>5, <1>6, <1>7, <1>8, <1>9, <1>10,
            <1>11, <1>12, <1>13, <1>14, <1>15, <1>16, <1>17, <1>18, <1>19,
            <1>20, <1>21, <1>22, <1>23, <1>24, <1>25 DEF Next, CallStep,
            ServeStep, WriterStep, ReaderStep

\* Requests in a queue a frame is appended to.
LEMMA PushRequest ==
    ASSUME NEW q \in Seq(Up), NEW f \in Up, NEW s
    PROVE  /\ NoRequest(Append(q, f), s) <=> NoRequest(q, s) /\ ~Requests(f, s)
           /\ OneRequest(q, s) /\ (NoRequest(q, s) \/ ~Requests(f, s))
                 => OneRequest(Append(q, f), s)
  <1> DEFINE r == Append(q, f)
  <1>1. /\ Len(r) = Len(q) + 1 /\ Len(q) \in Nat
        /\ \A i \in 1 .. Len(q) : r[i] = q[i]
        /\ r[Len(q) + 1] = f
    OBVIOUS
  <1> HIDE DEF r, Requests
  <1>2. \A i \in 1 .. Len(r) : (i = Len(q) + 1 /\ r[i] = f) \/ (i \in 1 .. Len(q) /\ r[i] = q[i])
    <2> TAKE i \in 1 .. Len(r)
    <2>1. i = Len(q) + 1 \/ i \in 1 .. Len(q)
      BY <1>1
    <2> QED BY <1>1, <2>1
  <1>3. Len(q) + 1 \in 1 .. Len(r) /\ \A i \in 1 .. Len(q) : i \in 1 .. Len(r)
    BY <1>1
  <1>4. NoRequest(r, s) <=> NoRequest(q, s) /\ ~Requests(f, s)
    BY <1>1, <1>2, <1>3 DEF NoRequest
  <1>5. OneRequest(q, s) /\ (NoRequest(q, s) \/ ~Requests(f, s)) => OneRequest(r, s)
    BY <1>1, <1>2, <1>3 DEF NoRequest, OneRequest
  <1> QED BY <1>4, <1>5 DEF r

\* Requests in a queue whose first frame is taken.
LEMMA PopRequest ==
    ASSUME NEW q \in Seq(Up), q # <<>>, NEW s
    PROVE  /\ NoRequest(q, s) <=> NoRequest(Tail(q), s) /\ ~Requests(Head(q), s)
           /\ OneRequest(q, s) => OneRequest(Tail(q), s)
           /\ OneRequest(q, s) /\ Requests(Head(q), s) => NoRequest(Tail(q), s)
  <1> DEFINE r == Tail(q)
  <1>1. /\ Len(r) = Len(q) - 1 /\ Len(q) \in Nat /\ Len(q) >= 1 /\ Head(q) = q[1]
        /\ \A i \in 1 .. Len(q) - 1 : r[i] = q[i + 1]
    OBVIOUS
  <1> HIDE DEF r, Requests
  <1>2. \A i \in 1 .. Len(r) : i + 1 \in 1 .. Len(q) /\ r[i] = q[i + 1] /\ i + 1 # 1
    BY <1>1
  <1>3. \A i \in 1 .. Len(q) : i = 1 \/ (i - 1 \in 1 .. Len(r) /\ r[i - 1] = q[i])
    BY <1>1
  <1>4. 1 \in 1 .. Len(q) /\ Head(q) = q[1]
    BY <1>1
  <1>5. NoRequest(q, s) <=> NoRequest(r, s) /\ ~Requests(Head(q), s)
    BY <1>2, <1>3, <1>4 DEF NoRequest
  <1>6. OneRequest(q, s) => OneRequest(r, s)
    <2> SUFFICES ASSUME OneRequest(q, s), NEW i \in 1 .. Len(r), NEW j \in 1 .. Len(r),
                        Requests(r[i], s), Requests(r[j], s)
                 PROVE  i = j
      BY DEF OneRequest
    <2>1. i + 1 = j + 1
      BY <1>2 DEF OneRequest
    <2> QED BY <1>1, <2>1
  <1>7. OneRequest(q, s) /\ Requests(Head(q), s) => NoRequest(r, s)
    BY <1>2, <1>4 DEF OneRequest, NoRequest
  <1> QED BY <1>5, <1>6, <1>7 DEF r

\* An empty queue holds no request.
LEMMA NoRequestEmpty ==
    ASSUME NEW s
    PROVE  NoRequest(<<>>, s) /\ OneRequest(<<>>, s)
  BY DEF NoRequest, OneRequest

\* A frame of the client is a request of its own stream or of none.
LEMMA RequestFrames ==
    ASSUME NEW s \in Streams, NEW t \in Streams
    PROVE  /\ Requests(Frame("req", s, 0), t) <=> s = t
           /\ ~Requests(Frame("ping", s, 0), t)
           /\ ~Requests(Frame("cancel", s, 0), t)
  BY DEF Requests, Frame

\* A cut forgets what was under way to the server.
LEMMA CutRequests ==
    ASSUME TypeOK, RequestedOnce, Cut, call' = call, lane' = lane \/ lane' = <<>>
    PROVE  RequestedOnce'
  <1>1. /\ wireUp' = <<>> /\ sent' = sent
        /\ \A t \in Streams : serve'[t] = IF serve[t] = "open" THEN "ended" ELSE serve[t]
    BY DEF Cut
  <1>2. \A t \in Streams : serve'[t] = "none" <=> serve[t] = "none"
    BY <1>1
  <1>3. \A t \in Streams :
          /\ NoRequest(lane, t) => NoRequest(lane', t)
          /\ OneRequest(lane', t) /\ OneRequest(wireUp', t) /\ NoRequest(wireUp', t)
    BY <1>1, NoRequestEmpty DEF RequestedOnce
  <1> QED BY <1>1, <1>2, <1>3 DEF RequestedOnce

\* A stream is requested at most once.
LEMMA RequestStep ==
    ASSUME TypeOK, RequestedOnce, [Next]_vars
    PROVE  RequestedOnce'
  <1>1. ASSUME NEW s \in Streams, Check(s) PROVE RequestedOnce'
    <2>1. /\ \A t \in Streams : call'[t] \in {"new", "checked", "sending"}
                                   => call[t] \in {"new", "checked", "sending"}
          /\ UNCHANGED <<lane, wireUp, serve, sent>>
      BY <1>1 DEF Check, To, TypeOK, callVars, clientVars, wires, serverVars
    <2> QED BY <2>1 DEF RequestedOnce
  <1>2. ASSUME NEW s \in Streams, Register(s) PROVE RequestedOnce'
    <2>1. /\ \A t \in Streams : call'[t] \in {"new", "checked", "sending"}
                                   => call[t] \in {"new", "checked", "sending"}
          /\ UNCHANGED <<lane, wireUp, serve, sent>>
      BY <1>2 DEF Register, To, TypeOK, callVars, clientVars, wires, serverVars
    <2> QED BY <2>1 DEF RequestedOnce
  <1>3. ASSUME NEW s \in Streams, Send(s) PROVE RequestedOnce'
    <2>1. CASE LaneOpen /\ lane' = Append(lane, Frame(IF s \in pings THEN "ping" ELSE "req", s, 0))
      <3>1. \A t \in Streams :
              /\ OneRequest(lane', t)
              /\ t # s => (NoRequest(lane', t) <=> NoRequest(lane, t))
        BY <1>3, <2>1, PushRequest, FrameTypes, RequestFrames DEF TypeOK, RequestedOnce, Send
      <3>2. call'[s] = "recheck" /\ \A t \in Streams \ {s} : call'[t] = call[t]
        BY <1>3, <2>1 DEF Send, To, TypeOK
      <3>3. wireUp' = wireUp /\ serve' = serve /\ sent' = sent /\ call[s] = "sending"
        BY <1>3 DEF Send, callVars, clientVars, wires, serverVars
      <3> QED BY <3>1, <3>2, <3>3 DEF RequestedOnce
    <2>2. CASE lane' = lane
      <3>1. call'[s] # "new" /\ \A t \in Streams \ {s} : call'[t] = call[t]
        BY <1>3 DEF Send, To, TypeOK
      <3> QED BY <1>3, <2>2, <3>1 DEF Send, RequestedOnce, callVars, clientVars, wires, serverVars
    <2> QED BY <1>3, <2>1, <2>2 DEF Send
  <1>4. ASSUME NEW s \in Streams, Recheck(s) PROVE RequestedOnce'
    <2>1. /\ \A t \in Streams : call'[t] \in {"new", "checked", "sending"}
                                   => call[t] \in {"new", "checked", "sending"}
          /\ UNCHANGED <<lane, wireUp, serve, sent>>
      BY <1>4 DEF Recheck, To, TypeOK, callVars, clientVars, wires, serverVars
    <2> QED BY <2>1 DEF RequestedOnce
  <1>5. ASSUME NEW s \in Streams, Recv(s) PROVE RequestedOnce'
    <2>1. /\ \A t \in Streams : call'[t] \in {"new", "checked", "sending"}
                                   => call[t] \in {"new", "checked", "sending"}
          /\ UNCHANGED <<lane, wireUp, serve, sent>>
      BY <1>5 DEF Recv, To, TypeOK, callVars, clientVars, wires, serverVars
    <2> QED BY <2>1 DEF RequestedOnce
  <1>6. ASSUME NEW s \in Streams, RecvClosed(s) PROVE RequestedOnce'
    <2>1. /\ \A t \in Streams : call'[t] \in {"new", "checked", "sending"}
                                   => call[t] \in {"new", "checked", "sending"}
          /\ UNCHANGED <<lane, wireUp, serve, sent>>
      BY <1>6 DEF RecvClosed, To, TypeOK, callVars, clientVars, wires, serverVars
    <2> QED BY <2>1 DEF RequestedOnce
  <1>7. ASSUME NEW s \in Streams, Abandon(s) PROVE RequestedOnce'
    <2>1. lane' = lane \/ lane' = Append(lane, Frame("cancel", s, 0))
      BY <1>7 DEF Abandon
    <2>2. \A t \in Streams : OneRequest(lane', t) /\ (NoRequest(lane', t) <=> NoRequest(lane, t))
      <3>1. CASE lane' = lane
        BY <3>1 DEF RequestedOnce
      <3>2. CASE lane' = Append(lane, Frame("cancel", s, 0))
        BY <3>2, PushRequest, FrameTypes, RequestFrames DEF TypeOK, RequestedOnce
      <3> QED BY <2>1, <3>1, <3>2
    <2>3. call'[s] = "left" /\ \A t \in Streams \ {s} : call'[t] = call[t]
      BY <1>7 DEF Abandon, To, TypeOK
    <2> QED BY <1>7, <2>2, <2>3 DEF Abandon, RequestedOnce, callVars, clientVars, wires, serverVars
  <1>8. ASSUME NEW s \in Streams, ServeFrame(s) PROVE RequestedOnce'
    <2>1. /\ serve[s] = "open" /\ serve'[s] # "none" /\ UNCHANGED <<lane, wireUp, call>>
          /\ \A t \in Streams \ {s} : serve'[t] = serve[t] /\ sent'[t] = sent[t]
      BY <1>8 DEF ServeFrame, TypeOK, callVars, clientVars, wires, serverVars
    <2> QED BY <2>1 DEF RequestedOnce
  <1>9. ASSUME NEW s \in Streams, ServeCancelled(s) PROVE RequestedOnce'
    <2>1. /\ serve[s] = "open" /\ serve'[s] # "none" /\ UNCHANGED <<lane, wireUp, call>>
          /\ \A t \in Streams \ {s} : serve'[t] = serve[t] /\ sent'[t] = sent[t]
      BY <1>9 DEF ServeCancelled, TypeOK, callVars, clientVars, wires, serverVars
    <2> QED BY <2>1 DEF RequestedOnce
  <1>10. ASSUME NEW s \in Streams, ServeError(s) PROVE RequestedOnce'
    <2>1. /\ serve[s] = "open" /\ serve'[s] # "none" /\ UNCHANGED <<lane, wireUp, call>>
          /\ \A t \in Streams \ {s} : serve'[t] = serve[t] /\ sent'[t] = sent[t]
      BY <1>10 DEF ServeError, TypeOK, callVars, clientVars, wires, serverVars
    <2> QED BY <2>1 DEF RequestedOnce
  <1>11. ASSUME NEW s \in Streams, ServeStalled(s) PROVE RequestedOnce'
    <2>1. Cut /\ call' = call /\ lane' = lane
      BY <1>11 DEF ServeStalled, callVars
    <2> QED BY <2>1, CutRequests
  <1>12. CASE Shutdown
    BY <1>12 DEF Shutdown, RequestedOnce, callVars, clientVars, wires, serverVars
  <1>13. CASE DropHandles
    BY <1>13 DEF DropHandles, RequestedOnce, callVars, clientVars, wires, serverVars
  <1>14. CASE WriterWrite
    <2>1. /\ wireUp' = Append(wireUp, Head(lane)) /\ lane' = Tail(lane) /\ lane # <<>>
          /\ UNCHANGED <<call, serve, sent>>
      BY <1>14 DEF WriterWrite, callVars, serverVars
    <2>2. Head(lane) \in Up
      BY <2>1, SeqFacts DEF TypeOK
    <2>3. \A t \in Streams :
            /\ OneRequest(lane', t) /\ OneRequest(wireUp', t)
            /\ NoRequest(lane, t) => NoRequest(lane', t) /\ (NoRequest(wireUp', t) <=> NoRequest(wireUp, t))
            /\ ~NoRequest(wireUp', t) => ~NoRequest(lane, t) \/ ~NoRequest(wireUp, t)
            /\ ~NoRequest(lane', t) => ~NoRequest(lane, t) /\ NoRequest(wireUp', t)
      <3> TAKE t \in Streams
      <3>1. /\ NoRequest(wireUp', t) <=> NoRequest(wireUp, t) /\ ~Requests(Head(lane), t)
            /\ OneRequest(wireUp, t) /\ (NoRequest(wireUp, t) \/ ~Requests(Head(lane), t))
                  => OneRequest(wireUp', t)
        BY <2>1, <2>2, PushRequest DEF TypeOK
      <3>2. /\ NoRequest(lane, t) <=> NoRequest(lane', t) /\ ~Requests(Head(lane), t)
            /\ OneRequest(lane, t) => OneRequest(lane', t)
            /\ OneRequest(lane, t) /\ Requests(Head(lane), t) => NoRequest(lane', t)
        BY <2>1, PopRequest DEF TypeOK
      <3> QED BY <3>1, <3>2 DEF RequestedOnce
    <2> QED BY <2>1, <2>3 DEF RequestedOnce
  <1>15. CASE WriterStops
    BY <1>15 DEF WriterStops, RequestedOnce, callVars, clientVars, wires, serverVars
  <1>16. CASE WriterClears
    BY <1>16 DEF WriterClears, RequestedOnce, callVars, clientVars, wires, serverVars
  <1>17. CASE WriterLeaves
    <2>1. CASE reader = "gone"
      <3>1. Cut /\ call' = call /\ (lane' = lane \/ lane' = <<>>)
        BY <1>17, <2>1 DEF WriterLeaves, callVars
      <3> QED BY <3>1, CutRequests
    <2>2. CASE reader # "gone"
      <3>1. UNCHANGED <<call, wireUp, serve, sent>> /\ (lane' = lane \/ lane' = <<>>)
        BY <1>17, <2>2 DEF WriterLeaves, callVars, clientVars, wires, serverVars
      <3> QED BY <3>1, NoRequestEmpty DEF RequestedOnce
    <2> QED BY <2>1, <2>2
  <1>18. CASE ReaderTakes
    BY <1>18 DEF ReaderTakes, RequestedOnce, callVars, clientVars, wires, serverVars
  <1>19. CASE ReaderDelivers
    BY <1>19 DEF ReaderDelivers, RequestedOnce, callVars, clientVars, wires, serverVars
  <1>20. CASE ReaderStops
    BY <1>20 DEF ReaderStops, RequestedOnce, callVars, clientVars, wires, serverVars
  <1>21. CASE ReaderLeaves
    <2>1. CASE writer = "gone"
      <3>1. Cut /\ call' = call /\ (lane' = lane \/ lane' = <<>>)
        BY <1>21, <2>1 DEF ReaderLeaves, callVars
      <3> QED BY <3>1, CutRequests
    <2>2. CASE writer # "gone"
      <3>1. UNCHANGED <<call, wireUp, serve, sent>> /\ (lane' = lane \/ lane' = <<>>)
        BY <1>21, <2>2 DEF ReaderLeaves, callVars, clientVars, wires, serverVars
      <3> QED BY <3>1, NoRequestEmpty DEF RequestedOnce
    <2> QED BY <2>1, <2>2
  <1>22. CASE SocketDies
    <2>1. Cut /\ call' = call /\ lane' = lane
      BY <1>22 DEF SocketDies, callVars
    <2> QED BY <2>1, CutRequests
  <1>23. CASE ServerReads
    <2> DEFINE f == Head(wireUp)
    <2>1. /\ wireUp # <<>> /\ wireUp' = Tail(wireUp) /\ f \in Up /\ f.stream \in Streams
          /\ UNCHANGED <<call, lane, sent>>
      <3>1. wireUp # <<>> /\ wireUp' = Tail(wireUp) /\ UNCHANGED <<call, lane, sent>>
        BY <1>23 DEF ServerReads, callVars
      <3>2. f \in Up
        BY <3>1, SeqFacts DEF TypeOK
      <3> QED BY <3>1, <3>2 DEF Up
    <2>2. \A t \in Streams :
            /\ NoRequest(wireUp, t) <=> NoRequest(wireUp', t) /\ ~Requests(f, t)
            /\ OneRequest(wireUp, t) => OneRequest(wireUp', t)
            /\ OneRequest(wireUp, t) /\ Requests(f, t) => NoRequest(wireUp', t)
      BY <2>1, PopRequest DEF TypeOK
    <2>3. CASE f.kind = "req" /\ serve' = [serve EXCEPT ![f.stream] = "open"]
      <3>1. serve'[f.stream] = "open" /\ \A t \in Streams \ {f.stream} : serve'[t] = serve[t]
        BY <2>1, <2>3 DEF TypeOK
      <3>2. \A t \in Streams : Requests(f, t) <=> t = f.stream
        BY <2>3 DEF Requests
      <3> HIDE DEF f
      <3> QED BY <2>1, <2>2, <3>1, <3>2 DEF RequestedOnce
    <2>4. CASE serve' = serve
      BY <2>1, <2>2, <2>4 DEF RequestedOnce
    <2> QED BY <1>23, <2>3, <2>4 DEF ServerReads
  <1>24. CASE ServerWrites
    BY <1>24 DEF ServerWrites, RequestedOnce, callVars, clientVars, wires, serverVars
  <1>25. CASE UNCHANGED vars
    BY <1>25 DEF RequestedOnce, vars, callVars, clientVars, wires, serverVars
    <1> QED BY <1>1, <1>2, <1>3, <1>4, <1>5, <1>6, <1>7, <1>8, <1>9, <1>10,
            <1>11, <1>12, <1>13, <1>14, <1>15, <1>16, <1>17, <1>18, <1>19,
            <1>20, <1>21, <1>22, <1>23, <1>24, <1>25 DEF Next, CallStep,
            ServeStep, WriterStep, ReaderStep

\* Honest frames in a queue: one is appended, the first is taken, none is left.
LEMMA HonestQueue ==
    ASSUME NEW q \in Seq(Down)
    PROVE  /\ \A f \in Down : AllHonest(q) /\ Honest(f) => AllHonest(Append(q, f))
           /\ q # <<>> /\ AllHonest(q) => AllHonest(Tail(q)) /\ Honest(Head(q))
           /\ AllHonest(<<>>)
  <1> HIDE DEF Honest
  <1>1. ASSUME NEW f \in Down, AllHonest(q), Honest(f) PROVE AllHonest(Append(q, f))
    <2> SUFFICES ASSUME NEW i \in 1 .. Len(Append(q, f)) PROVE Honest(Append(q, f)[i])
      BY DEF AllHonest
    <2>1. CASE i = Len(q) + 1
      BY <1>1, <2>1
    <2>2. CASE i \in 1 .. Len(q)
      BY <1>1, <2>2 DEF AllHonest
    <2> QED BY <2>1, <2>2
  <1>2. ASSUME q # <<>>, AllHonest(q) PROVE AllHonest(Tail(q)) /\ Honest(Head(q))
    <2>1. Head(q) = q[1] /\ 1 \in 1 .. Len(q)
      BY <1>2
    <2>2. \A i \in 1 .. Len(Tail(q)) : i + 1 \in 1 .. Len(q) /\ Tail(q)[i] = q[i + 1]
      BY <1>2
    <2> QED BY <1>2, <2>1, <2>2 DEF AllHonest
  <1>3. AllHonest(<<>>)
    BY DEF AllHonest
  <1> QED BY <1>1, <1>2, <1>3

\* The same of the pings asked for.
LEMMA PingQueue ==
    ASSUME NEW q \in Seq(Up)
    PROVE  /\ \A f \in Up : PingsAsked(q) /\ (f.kind = "ping" => f.stream \in pings)
                                => PingsAsked(Append(q, f))
           /\ q # <<>> /\ PingsAsked(q) =>
                 PingsAsked(Tail(q)) /\ (Head(q).kind = "ping" => Head(q).stream \in pings)
           /\ PingsAsked(<<>>)
  <1>1. ASSUME NEW f \in Up, PingsAsked(q), f.kind = "ping" => f.stream \in pings
        PROVE  PingsAsked(Append(q, f))
    <2> SUFFICES ASSUME NEW i \in 1 .. Len(Append(q, f)), Append(q, f)[i].kind = "ping"
                 PROVE  Append(q, f)[i].stream \in pings
      BY DEF PingsAsked
    <2>1. CASE i = Len(q) + 1
      BY <1>1, <2>1
    <2>2. CASE i \in 1 .. Len(q)
      BY <1>1, <2>2 DEF PingsAsked
    <2> QED BY <2>1, <2>2
  <1>2. ASSUME q # <<>>, PingsAsked(q)
        PROVE  PingsAsked(Tail(q)) /\ (Head(q).kind = "ping" => Head(q).stream \in pings)
    <2>1. Head(q) = q[1] /\ 1 \in 1 .. Len(q)
      BY <1>2
    <2>2. \A i \in 1 .. Len(Tail(q)) : i + 1 \in 1 .. Len(q) /\ Tail(q)[i] = q[i + 1]
      BY <1>2
    <2> QED BY <1>2, <2>1, <2>2 DEF PingsAsked
  <1>3. PingsAsked(<<>>)
    BY DEF PingsAsked
  <1> QED BY <1>1, <1>2, <1>3

NoneBulk(q) == \A i \in 1 .. Len(q) : Data(q[i]) => q[i].stream \notin Bulk
AllBulk(q)  == \A i \in 1 .. Len(q) : Data(q[i]) => q[i].stream \in Bulk

\* The same of the lane a frame is on.
LEMMA LanePush ==
    ASSUME NEW q \in Seq(Down), NEW f \in Down
    PROVE  /\ NoneBulk(q) /\ (Data(f) => f.stream \notin Bulk) => NoneBulk(Append(q, f))
           /\ AllBulk(q) /\ (Data(f) => f.stream \in Bulk) => AllBulk(Append(q, f))
           /\ NoneBulk(<<>>) /\ AllBulk(<<>>)
  <1> HIDE DEF Data
  <1>1. \A i \in 1 .. Len(Append(q, f)) :
            Append(q, f)[i] = f \/ (i \in 1 .. Len(q) /\ Append(q, f)[i] = q[i])
    <2> TAKE i \in 1 .. Len(Append(q, f))
    <2>1. CASE i = Len(q) + 1
      BY <2>1
    <2>2. CASE i \in 1 .. Len(q)
      BY <2>2
    <2> QED BY <2>1, <2>2
  <1> QED BY <1>1 DEF NoneBulk, AllBulk

\* ... and of the lane after its first frame is taken.
LEMMA LanePop ==
    ASSUME NEW q \in Seq(Down), q # <<>>
    PROVE  /\ NoneBulk(q) => NoneBulk(Tail(q)) /\ (Data(Head(q)) => Head(q).stream \notin Bulk)
           /\ AllBulk(q) => AllBulk(Tail(q)) /\ (Data(Head(q)) => Head(q).stream \in Bulk)
  <1> HIDE DEF Data
  <1>1. Head(q) = q[1] /\ 1 \in 1 .. Len(q)
    OBVIOUS
  <1>2. \A i \in 1 .. Len(Tail(q)) : i + 1 \in 1 .. Len(q) /\ Tail(q)[i] = q[i + 1]
    OBVIOUS
  <1> QED BY <1>1, <1>2 DEF NoneBulk, AllBulk

\* The parts of FramesHonest in the next state, for the pings stay the same.
LEMMA HonestParts ==
    ASSUME pings' = pings,
           PingsAsked(lane'), PingsAsked(wireUp'),
           AllHonest(hi'), AllHonest(lo'), AllHonest(wireDown'),
           \A s \in Streams : AllHonest(chan'[s]),
           parked' # NoFrame => Honest(parked'),
           NoneBulk(hi'), AllBulk(lo')
    PROVE  FramesHonest'
  <1>1. PingsAsked(lane)' /\ PingsAsked(wireUp)'
    BY DEF PingsAsked
  <1>3. AllHonest(hi)' /\ AllHonest(lo)' /\ AllHonest(wireDown)'
    BY DEF AllHonest, Honest
  <1>4. \A s \in Streams : AllHonest(chan[s])'
    BY DEF AllHonest, Honest
  <1>5. (parked # NoFrame => Honest(parked))'
    BY DEF Honest
  <1> QED BY <1>1, <1>3, <1>4, <1>5 DEF FramesHonest, NoneBulk, AllBulk

\* ... and in this one.
LEMMA HonestNow ==
    ASSUME FramesHonest
    PROVE  /\ PingsAsked(lane) /\ PingsAsked(wireUp)
           /\ AllHonest(hi) /\ AllHonest(lo) /\ AllHonest(wireDown)
           /\ \A s \in Streams : AllHonest(chan[s])
           /\ parked # NoFrame => Honest(parked)
           /\ NoneBulk(hi) /\ AllBulk(lo)
  BY DEF FramesHonest, NoneBulk, AllBulk

\* A cut leaves only what had arrived.
LEMMA CutHonest ==
    ASSUME TypeOK, FramesHonest, Cut, UNCHANGED <<pings, chan, parked>>,
           lane' = lane \/ lane' = <<>>
    PROVE  FramesHonest'
  <1>1. wireUp' = <<>> /\ hi' = <<>> /\ lo' = <<>> /\ wireDown' = wireDown
    BY DEF Cut
  <1>2. PingsAsked(lane') /\ PingsAsked(wireUp')
    BY <1>1, HonestNow, PingQueue DEF TypeOK
  <1>3. AllHonest(hi') /\ AllHonest(lo') /\ NoneBulk(hi') /\ AllBulk(lo')
    BY <1>1, HonestQueue DEF TypeOK, NoneBulk, AllBulk
  <1> QED BY <1>1, <1>2, <1>3, HonestNow, HonestParts

\* Every frame stays what it was made as.
LEMMA HonestStep ==
    ASSUME TypeOK, FramesHonest, [Next]_vars
    PROVE  FramesHonest'
  <1>1. ASSUME NEW s \in Streams, Check(s) PROVE FramesHonest'
    BY <1>1, HonestNow, HonestParts DEF Check, callVars, clientVars, wires, serverVars
  <1>2. ASSUME NEW s \in Streams, Register(s) PROVE FramesHonest'
    BY <1>2, HonestNow, HonestParts DEF Register, callVars, clientVars, wires, serverVars
  <1>3. ASSUME NEW s \in Streams, Send(s) PROVE FramesHonest'
    <2>1. lane' = lane \/ lane' = Append(lane, Frame(IF s \in pings THEN "ping" ELSE "req", s, 0))
      BY <1>3 DEF Send
    <2>2. PingsAsked(lane')
      <3> DEFINE f == Frame(IF s \in pings THEN "ping" ELSE "req", s, 0)
      <3>1. f \in Up /\ (f.kind = "ping" => f.stream \in pings)
        BY FrameTypes DEF Frame
      <3> HIDE DEF f
      <3>2. CASE lane' = lane
        BY <3>2, HonestNow
      <3>3. CASE lane' = Append(lane, f)
        BY <3>1, <3>3, PingQueue, HonestNow DEF TypeOK
      <3> QED BY <2>1, <3>2, <3>3 DEF f
    <2> QED BY <1>3, <2>2, HonestNow, HonestParts DEF Send, callVars, clientVars, wires, serverVars
  <1>4. ASSUME NEW s \in Streams, Recheck(s) PROVE FramesHonest'
    BY <1>4, HonestNow, HonestParts DEF Recheck, callVars, clientVars, wires, serverVars
  <1>5. ASSUME NEW s \in Streams, Recv(s) PROVE FramesHonest'
    <2>1. chan' = [chan EXCEPT ![s] = Tail(@)] /\ chan[s] # <<>>
      BY <1>5 DEF Recv
    <2>2. \A t \in Streams : chan'[t] = chan[t] \/ (t = s /\ chan'[t] = Tail(chan[t]))
      BY <2>1 DEF TypeOK
    <2>3. \A t \in Streams : AllHonest(chan'[t])
      BY <2>1, <2>2, HonestNow, HonestQueue DEF TypeOK
    <2> QED BY <1>5, <2>3, HonestNow, HonestParts DEF Recv, callVars, clientVars, wires, serverVars
  <1>6. ASSUME NEW s \in Streams, RecvClosed(s) PROVE FramesHonest'
    BY <1>6, HonestNow, HonestParts DEF RecvClosed, callVars, clientVars, wires, serverVars
  <1>7. ASSUME NEW s \in Streams, Abandon(s) PROVE FramesHonest'
    <2>1. lane' = lane \/ lane' = Append(lane, Frame("cancel", s, 0))
      BY <1>7 DEF Abandon
    <2>2. PingsAsked(lane')
      <3>1. Frame("cancel", s, 0) \in Up /\ Frame("cancel", s, 0).kind # "ping"
        BY FrameTypes DEF Frame
      <3>2. CASE lane' = lane
        BY <3>2, HonestNow
      <3>3. CASE lane' = Append(lane, Frame("cancel", s, 0))
        BY <3>1, <3>3, PingQueue, HonestNow DEF TypeOK
      <3> QED BY <2>1, <3>2, <3>3
    <2>3. \A t \in Streams : chan'[t] = chan[t] \/ chan'[t] = <<>>
      BY <1>7 DEF Abandon, TypeOK
    <2>4. \A t \in Streams : AllHonest(chan'[t])
      BY <2>3, HonestNow, HonestQueue DEF TypeOK
    <2> QED BY <1>7, <2>2, <2>4, HonestNow, HonestParts DEF Abandon, callVars, clientVars, wires, serverVars
  <1>8. ASSUME NEW s \in Streams, ServeFrame(s) PROVE FramesHonest'
    <2> DEFINE n == sent[s] + 1
               f == Frame(IF n = NFrames[s] THEN "last" ELSE "data", s, n)
    <2>1. f \in Down /\ Honest(f) /\ f.stream = s
      <3>1. n \in Nat /\ f \in Down
        BY FrameTypes DEF TypeOK
      <3>2. /\ f.kind = (IF n = NFrames[s] THEN "last" ELSE "data")
            /\ f.stream = s /\ f.n = n
        BY DEF Frame
      <3> HIDE DEF f, n
      <3> QED BY <3>1, <3>2 DEF Honest, Data
    <2>2. OnLane(s, f)
      BY <1>8 DEF ServeFrame
    <2> HIDE DEF f
    <2>3. CASE s \in Bulk /\ lo' = Append(lo, f) /\ hi' = hi
      <3>1. AllHonest(lo') /\ AllBulk(lo')
        BY <2>1, <2>3, HonestNow, HonestQueue, LanePush DEF TypeOK
      <3> QED BY <1>8, <2>3, <3>1, HonestNow, HonestParts DEF ServeFrame, callVars, clientVars, wires, serverVars
    <2>4. CASE s \notin Bulk /\ hi' = Append(hi, f) /\ lo' = lo
      <3>1. AllHonest(hi') /\ NoneBulk(hi')
        BY <2>1, <2>4, HonestNow, HonestQueue, LanePush DEF TypeOK
      <3> QED BY <1>8, <2>4, <3>1, HonestNow, HonestParts DEF ServeFrame, callVars, clientVars, wires, serverVars
    <2> QED BY <2>2, <2>3, <2>4 DEF OnLane
  <1>9. ASSUME NEW s \in Streams, ServeCancelled(s) PROVE FramesHonest'
    BY <1>9, HonestNow, HonestParts DEF ServeCancelled, callVars, clientVars, wires, serverVars
  <1>10. ASSUME NEW s \in Streams, ServeError(s) PROVE FramesHonest'
    <2>1. LET f == Frame("err", s, 0) IN f \in Down /\ Honest(f) /\ ~Data(f)
      BY FrameTypes DEF Frame, Honest, Data
    <2>2. AllHonest(hi') /\ NoneBulk(hi')
      BY <1>10, <2>1, HonestNow, HonestQueue, LanePush DEF TypeOK, ServeError
    <2> QED BY <1>10, <2>2, HonestNow, HonestParts DEF ServeError, callVars, clientVars, wires, serverVars
  <1>11. ASSUME NEW s \in Streams, ServeStalled(s) PROVE FramesHonest'
    <2>1. Cut /\ UNCHANGED <<pings, chan, parked, lane>>
      BY <1>11 DEF ServeStalled, clientVars
    <2> QED BY <2>1, CutHonest
  <1>12. CASE Shutdown
    BY <1>12, HonestNow, HonestParts DEF Shutdown, callVars, clientVars, wires, serverVars
  <1>13. CASE DropHandles
    BY <1>13, HonestNow, HonestParts DEF DropHandles, callVars, clientVars, wires, serverVars
  <1>14. CASE WriterWrite
    <2>1. PingsAsked(lane') /\ PingsAsked(wireUp')
      <3>1. /\ Head(lane) \in Up /\ PingsAsked(Tail(lane))
            /\ Head(lane).kind = "ping" => Head(lane).stream \in pings
        BY <1>14, HonestNow, PingQueue, SeqFacts DEF WriterWrite, TypeOK
      <3> QED BY <1>14, <3>1, HonestNow, PingQueue DEF WriterWrite, TypeOK
    <2> QED BY <1>14, <2>1, HonestNow, HonestParts DEF WriterWrite, callVars, clientVars, wires, serverVars
  <1>15. CASE WriterStops
    BY <1>15, HonestNow, HonestParts DEF WriterStops, callVars, clientVars, wires, serverVars
  <1>16. CASE WriterClears
    BY <1>16, HonestNow, HonestParts DEF WriterClears, callVars, clientVars, wires, serverVars
  <1>17. CASE WriterLeaves
    <2>1. UNCHANGED <<pings, chan, parked>> /\ (lane' = lane \/ lane' = <<>>)
      BY <1>17 DEF WriterLeaves
    <2>2. CASE reader = "gone"
      BY <1>17, <2>1, <2>2, CutHonest DEF WriterLeaves
    <2>3. CASE reader # "gone"
      <3>1. UNCHANGED <<wires, serverVars>>
        BY <1>17, <2>3 DEF WriterLeaves
      <3>2. PingsAsked(lane')
        BY <2>1, HonestNow, PingQueue DEF TypeOK
      <3> QED BY <2>1, <3>1, <3>2, HonestNow, HonestParts DEF wires, serverVars
    <2> QED BY <2>2, <2>3
  <1>18. CASE ReaderTakes
    <2>1. AllHonest(wireDown') /\ Honest(Head(wireDown))
      BY <1>18, HonestNow, HonestQueue DEF ReaderTakes, TypeOK
    <2> QED BY <1>18, <2>1, HonestNow, HonestParts DEF ReaderTakes, callVars, clientVars, wires, serverVars
  <1>19. CASE ReaderDelivers
    <2>1. parked \in Down /\ parked.stream \in Streams /\ Honest(parked)
      BY <1>19, HonestNow DEF ReaderDelivers, TypeOK, Down
    <2>2. chan' = chan \/ chan' = [chan EXCEPT ![parked.stream] = Append(@, parked)]
      BY <1>19 DEF ReaderDelivers
    <2>3. \A t \in Streams : chan'[t] = chan[t] \/ chan'[t] = Append(chan[t], parked)
      BY <2>1, <2>2 DEF TypeOK
    <2>4. \A t \in Streams : AllHonest(chan'[t])
      BY <2>1, <2>3, HonestNow, HonestQueue DEF TypeOK
    <2> QED BY <1>19, <2>4, HonestNow, HonestParts DEF ReaderDelivers, callVars, clientVars, wires, serverVars
  <1>20. CASE ReaderStops
    BY <1>20, HonestNow, HonestParts DEF ReaderStops, callVars, clientVars, wires, serverVars
  <1>21. CASE ReaderLeaves
    <2>1. UNCHANGED <<pings, chan, parked>> /\ (lane' = lane \/ lane' = <<>>)
      BY <1>21 DEF ReaderLeaves
    <2>2. CASE writer = "gone"
      BY <1>21, <2>1, <2>2, CutHonest DEF ReaderLeaves
    <2>3. CASE writer # "gone"
      <3>1. UNCHANGED <<wires, serverVars>>
        BY <1>21, <2>3 DEF ReaderLeaves
      <3>2. PingsAsked(lane')
        BY <2>1, HonestNow, PingQueue DEF TypeOK
      <3> QED BY <2>1, <3>1, <3>2, HonestNow, HonestParts DEF wires, serverVars
    <2> QED BY <2>2, <2>3
  <1>22. CASE SocketDies
    <2>1. Cut /\ UNCHANGED <<pings, chan, parked, lane>>
      BY <1>22 DEF SocketDies, clientVars
    <2> QED BY <2>1, CutHonest
  <1>23. CASE ServerReads
    <2> DEFINE f == Head(wireUp)
    <2>1. wireUp # <<>> /\ wireUp' = Tail(wireUp)
      BY <1>23 DEF ServerReads
    <2>2. PingsAsked(wireUp') /\ f \in Up /\ (f.kind = "ping" => f.stream \in pings)
      BY <2>1, HonestNow, PingQueue, SeqFacts DEF TypeOK
    <2>3. f.stream \in Streams
      BY <2>2 DEF Up
    <2>4. hi' = hi \/ (f.kind = "ping" /\ hi' = Append(hi, Frame("pong", f.stream, 0)))
      BY <1>23 DEF ServerReads
    <2>5. AllHonest(hi') /\ NoneBulk(hi')
      <3>1. CASE hi' = hi
        BY <3>1, HonestNow
      <3>2. CASE f.kind = "ping" /\ hi' = Append(hi, Frame("pong", f.stream, 0))
        <4>1. LET g == Frame("pong", f.stream, 0) IN g \in Down /\ Honest(g) /\ ~Data(g)
          BY <2>2, <2>3, <3>2, FrameTypes DEF Frame, Honest, Data
        <4> QED BY <3>2, <4>1, HonestNow, HonestQueue, LanePush DEF TypeOK
      <3> QED BY <2>4, <3>1, <3>2
    <2> QED BY <1>23, <2>2, <2>5, HonestNow, HonestParts DEF ServerReads, callVars, clientVars, wires, serverVars
  <1>24. CASE ServerWrites
    <2>1. CASE hi # <<>> /\ wireDown' = Append(wireDown, Head(hi)) /\ hi' = Tail(hi) /\ lo' = lo
      <3>1. Head(hi) \in Down /\ Honest(Head(hi)) /\ AllHonest(hi') /\ NoneBulk(hi')
        <4>1. hi \in Seq(Down) /\ AllHonest(hi) /\ NoneBulk(hi)
          BY HonestNow DEF TypeOK
        <4>2. Head(hi) \in Down
          BY <2>1, <4>1
        <4>3. Honest(Head(hi)) /\ AllHonest(hi')
          BY <2>1, <4>1, HonestQueue
        <4>4. NoneBulk(hi')
          BY <2>1, <4>1, LanePop
        <4> QED BY <4>2, <4>3, <4>4
      <3>2. AllHonest(wireDown')
        BY <2>1, <3>1, HonestNow, HonestQueue DEF TypeOK
      <3> QED BY <1>24, <2>1, <3>1, <3>2, HonestNow, HonestParts DEF ServerWrites, callVars, clientVars, wires, serverVars
    <2>2. CASE lo # <<>> /\ wireDown' = Append(wireDown, Head(lo)) /\ lo' = Tail(lo) /\ hi' = hi
      <3>1. Head(lo) \in Down /\ Honest(Head(lo)) /\ AllHonest(lo') /\ AllBulk(lo')
        <4>1. lo \in Seq(Down) /\ AllHonest(lo) /\ AllBulk(lo)
          BY HonestNow DEF TypeOK
        <4>2. Head(lo) \in Down
          BY <2>2, <4>1
        <4>3. Honest(Head(lo)) /\ AllHonest(lo')
          BY <2>2, <4>1, HonestQueue
        <4>4. AllBulk(lo')
          BY <2>2, <4>1, LanePop
        <4> QED BY <4>2, <4>3, <4>4
      <3>2. AllHonest(wireDown')
        BY <2>2, <3>1, HonestNow, HonestQueue DEF TypeOK
      <3> QED BY <1>24, <2>2, <3>1, <3>2, HonestNow, HonestParts DEF ServerWrites, callVars, clientVars, wires, serverVars
    <2> QED BY <1>24, <2>1, <2>2 DEF ServerWrites
  <1>25. CASE UNCHANGED vars
    BY <1>25, HonestNow, HonestParts DEF vars, callVars, clientVars, wires, serverVars
    <1> QED BY <1>1, <1>2, <1>3, <1>4, <1>5, <1>6, <1>7, <1>8, <1>9, <1>10,
            <1>11, <1>12, <1>13, <1>14, <1>15, <1>16, <1>17, <1>18, <1>19,
            <1>20, <1>21, <1>22, <1>23, <1>24, <1>25 DEF Next, CallStep,
            ServeStep, WriterStep, ReaderStep

\* The frame the reader takes and the next: sums of lengths.
LEMMA Sums ==
    ASSUME NEW a \in Nat, NEW b \in Int
    PROVE  /\ a + (b + 1) = (a + 1) + b
           /\ (a + 1) + (b - 1) + 1 = a + b + 1
           /\ a + b + 1 = a + (b + 1)
  OBVIOUS

\* The frame the reader takes off the wire, if somebody expects its stream, is
\* the next one.  One for a caller that has not asked yet is not there.
LEMMA TakesNext ==
    ASSUME TypeOK, RequestedOnce, PipeExact, NEW t \in Streams, Expecting(t), wireDown # <<>>,
           Head(wireDown).stream = t, Data(Head(wireDown))
    PROVE  /\ ~Unasked(t)
           /\ Head(wireDown).n = NextToTake(t)
           /\ NextToTake(t) \in Nat
  <1>1. Head(wireDown) = wireDown[1] /\ wireDown \in Seq(Down)
    BY DEF TypeOK
  <1>2. NextToTake(t) \in Nat
    BY DEF TypeOK, NextToTake
  <1>3. PICK m \in Nat : m <= sent[t] /\ Holds(wireDown, t, NextToTake(t), m)
    BY DEF PipeExact
  <1>4. wireDown[1].n = NextToTake(t) /\ NextToTake(t) <= m
    BY <1>1, <1>2, <1>3, HoldsTail
  <1>5. NextToTake(t) >= 1
    BY DEF TypeOK, NextToTake
  <1>6. Unasked(t) => sent[t] = 0
    BY DEF RequestedOnce, Unasked
  <1> HIDE DEF NextToTake, Unasked
  <1> QED BY <1>1, <1>2, <1>3, <1>4, <1>5, <1>6

\* What a caller at t gets is in place as soon as one of its queues has moved
\* on as the invariant asks.
ChannelOf(t) ==
    /\ Unasked(t) => /\ t \notin waiters /\ ~ParkedFor(t)
                     /\ chan[t] = <<>> /\ got[t] = <<>>
    /\ \A i \in 1 .. Len(chan[t]) :
          Data(chan[t][i]) => chan[t][i].n = Len(got[t]) + i
    /\ \A i \in 1 .. Len(chan[t]) :
          Terminal(chan[t][i]) /\ Listening(t) =>
             i = Len(chan[t]) /\ t \notin waiters /\ ~ParkedFor(t)
    /\ ParkedFor(t) /\ Data(parked) /\ Listening(t) =>
          parked.n = Len(got[t]) + Len(chan[t]) + 1

\* ChannelExact is about one stream at a time.
LEMMA ChannelParts ==
    /\ ChannelExact <=> \A t \in Streams : ChannelOf(t)
    /\ ChannelExact' <=> \A t \in Streams : ChannelOf(t)'
  BY DEF ChannelExact, ChannelOf

\* A step that leaves the frames of t alone, with fewer waiters and a caller that
\* has moved on.
LEMMA ChannelKept ==
    ASSUME NEW t \in Streams, ChannelOf(t), chan'[t] = chan[t], got'[t] = got[t],
           Unasked(t)' => Unasked(t), Listening(t)' => Listening(t),
           t \in waiters' => t \in waiters, ParkedFor(t)' => ParkedFor(t) /\ parked' = parked
    PROVE  ChannelOf(t)'
  BY DEF ChannelOf

\* A step that touches neither callers nor frames, and at most clears waiters.
LEMMA ChannelUntouched ==
    ASSUME ChannelExact, call' = call, got' = got, chan' = chan, parked' = parked,
           waiters' \subseteq waiters
    PROVE  ChannelExact'
  <1> SUFFICES ASSUME NEW t \in Streams PROVE ChannelOf(t)'
    BY ChannelParts
  <1>1. /\ Unasked(t)' => Unasked(t)
        /\ Listening(t)' => Listening(t)
        /\ ParkedFor(t)' => ParkedFor(t)
    BY DEF Unasked, Listening, ParkedFor
  <1>2. ChannelOf(t) /\ chan'[t] = chan[t] /\ got'[t] = got[t]
    BY ChannelParts
  <1> QED BY <1>1, <1>2, ChannelKept

\* The channels stay exact.
LEMMA ChannelStep ==
    ASSUME TypeOK, RequestedOnce, ChannelExact, PipeExact, [Next]_vars
    PROVE  ChannelExact'
  <1>1. ASSUME NEW s \in Streams, Check(s) PROVE ChannelExact'
    <2>1. \A t \in Streams :
            /\ chan'[t] = chan[t] /\ got'[t] = got[t] /\ parked' = parked
            /\ Unasked(t)' => Unasked(t)
            /\ Listening(t)' => Listening(t)
            /\ t \in waiters' => t \in waiters
      BY <1>1 DEF Check, To, TypeOK, Unasked, Listening, callVars, clientVars, wires, serverVars
    <2>2. \A t \in Streams : ParkedFor(t)' => ParkedFor(t)
      BY <2>1 DEF ParkedFor
    <2> QED BY <2>1, <2>2, ChannelParts, ChannelKept
  <1>2. ASSUME NEW s \in Streams, Register(s) PROVE ChannelExact'
    <2>1. \A t \in Streams :
            /\ chan'[t] = chan[t] /\ got'[t] = got[t] /\ parked' = parked
            /\ Unasked(t)' => Unasked(t) /\ t # s
            /\ t # s => /\ Listening(t)' => Listening(t)
                        /\ t \in waiters' => t \in waiters
      BY <1>2 DEF Register, To, TypeOK, Unasked, Listening, callVars, clientVars, wires, serverVars
    <2>2. \A t \in Streams : ParkedFor(t)' <=> ParkedFor(t)
      BY <2>1 DEF ParkedFor
    <2>3. \A t \in Streams \ {s} : ChannelOf(t)'
      BY <2>1, <2>2, ChannelParts, ChannelKept
    <2>4. chan[s] = <<>> /\ ~ParkedFor(s)
      BY <1>2, ChannelParts DEF Register, Unasked, ChannelOf
    <2>5. ChannelOf(s)'
      <3>1. chan'[s] = <<>> /\ ~ParkedFor(s)' /\ ~Unasked(s)'
        BY <2>1, <2>2, <2>4
      <3>2. 1 .. Len(chan'[s]) = {}
        BY <3>1
      <3> QED BY <3>1, <3>2 DEF ChannelOf
    <2> QED BY <2>3, <2>5, ChannelParts
  <1>3. ASSUME NEW s \in Streams, Send(s) PROVE ChannelExact'
    <2>1. \A t \in Streams :
            /\ chan'[t] = chan[t] /\ got'[t] = got[t] /\ parked' = parked
            /\ Unasked(t)' => Unasked(t)
            /\ Listening(t)' => Listening(t)
            /\ t \in waiters' => t \in waiters
      BY <1>3 DEF Send, To, TypeOK, Unasked, Listening, callVars, clientVars, wires, serverVars
    <2>2. \A t \in Streams : ParkedFor(t)' => ParkedFor(t)
      BY <2>1 DEF ParkedFor
    <2> QED BY <2>1, <2>2, ChannelParts, ChannelKept
  <1>4. ASSUME NEW s \in Streams, Recheck(s) PROVE ChannelExact'
    <2>1. \A t \in Streams :
            /\ chan'[t] = chan[t] /\ got'[t] = got[t] /\ parked' = parked
            /\ Unasked(t)' => Unasked(t)
            /\ Listening(t)' => Listening(t)
            /\ t \in waiters' => t \in waiters
      BY <1>4 DEF Recheck, To, TypeOK, Unasked, Listening, callVars, clientVars, wires, serverVars
    <2>2. \A t \in Streams : ParkedFor(t)' => ParkedFor(t)
      BY <2>1 DEF ParkedFor
    <2> QED BY <2>1, <2>2, ChannelParts, ChannelKept
  <1>5. ASSUME NEW s \in Streams, Recv(s) PROVE ChannelExact'
    <2> DEFINE f == Head(chan[s])
    <2>1. /\ chan' = [chan EXCEPT ![s] = Tail(@)] /\ chan[s] # <<>> /\ call[s] = "recv"
          /\ UNCHANGED parked
      BY <1>5 DEF Recv, clientVars
    <2>0. chan[s] \in Seq(Down) /\ got[s] \in Seq(Nat) /\ chan'[s] = Tail(chan[s])
      BY <2>1 DEF TypeOK
    <2>2. /\ Len(chan[s]) \in Nat /\ Len(chan[s]) >= 1 /\ Len(got[s]) \in Nat
          /\ Len(chan'[s]) = Len(chan[s]) - 1
      BY <2>0, <2>1
    <2>8. f = chan[s][1] /\ \A i \in 1 .. Len(chan[s]) - 1 : chan'[s][i] = chan[s][i + 1]
      BY <2>0, <2>1
    <2>9. f.n \in Nat
      BY <2>2, <2>8, <2>0, FrameAt
    <2> HIDE DEF f
    <2>3. \A t \in Streams \ {s} : /\ chan'[t] = chan[t] /\ got'[t] = got[t]
                                   /\ call'[t] = call[t] /\ (t \in waiters' <=> t \in waiters)
      BY <1>5 DEF Recv, To, TypeOK
    <2>4. \A t \in Streams : ParkedFor(t)' <=> ParkedFor(t)
      BY <2>1 DEF ParkedFor
    <2>5. \A t \in Streams \ {s} : ChannelOf(t)'
      <3> TAKE t \in Streams \ {s}
      <3>1. /\ Unasked(t)' => Unasked(t)
            /\ Listening(t)' => Listening(t)
        BY <2>3 DEF Unasked, Listening
      <3> QED BY <2>1, <2>3, <2>4, <3>1, ChannelParts, ChannelKept
    <2>6. Listening(s) /\ ~Unasked(s)
      BY <2>1 DEF Listening, Unasked
    <2>7. ChannelOf(s)'
      <3>1. CASE f.kind = "data"
        <4>1. got'[s] = Append(got[s], f.n) /\ call' = call /\ waiters' = waiters
          BY <1>5, <2>1, <3>1 DEF Recv, Terminal, TypeOK, f
        <4>2. Len(got'[s]) = Len(got[s]) + 1
          BY <2>0, <2>9, <4>1
        <4>3. (Listening(s)' <=> Listening(s)) /\ ~Unasked(s)'
          BY <2>6, <4>1 DEF Listening, Unasked
        <4>4. \A i \in 1 .. Len(chan'[s]) : /\ i + 1 \in 1 .. Len(chan[s])
                                           /\ chan'[s][i] = chan[s][i + 1]
          BY <2>2, <2>8
        <4>5. \A i \in 1 .. Len(chan'[s]) :
                Data(chan'[s][i]) => chan'[s][i].n = Len(got'[s]) + i
          <5> TAKE i \in 1 .. Len(chan'[s])
          <5> HAVE Data(chan'[s][i])
          <5>1. chan[s][i + 1].n = Len(got[s]) + (i + 1)
            BY <4>4, ChannelParts DEF ChannelOf
          <5>2. i \in Int
            BY <2>2
          <5>3. Len(got[s]) + (i + 1) = (Len(got[s]) + 1) + i
            BY <2>2, <5>2, Sums
          <5> QED BY <5>1, <5>3, <4>2, <4>4, Zenon
        <4>6. \A i \in 1 .. Len(chan'[s]) :
                Terminal(chan'[s][i]) => i = Len(chan'[s]) /\ s \notin waiters' /\ ~ParkedFor(s)'
          <5> TAKE i \in 1 .. Len(chan'[s])
          <5> HAVE Terminal(chan'[s][i])
          <5>1. i + 1 = Len(chan[s]) /\ s \notin waiters /\ ~ParkedFor(s)
            BY <2>6, <4>4, ChannelParts DEF ChannelOf
          <5> QED BY <5>1, <4>1, <2>2, <2>4
        <4>7. ParkedFor(s) /\ Data(parked) => parked.n = Len(got'[s]) + Len(chan'[s]) + 1
          <5>1. ParkedFor(s) /\ Data(parked) => parked.n = Len(got[s]) + Len(chan[s]) + 1
            BY <2>6, ChannelParts DEF ChannelOf
          <5>2. (Len(got[s]) + 1) + (Len(chan[s]) - 1) + 1 = Len(got[s]) + Len(chan[s]) + 1
            <6>1. Len(chan[s]) \in Int
              BY <2>2
            <6> QED BY <2>2, <6>1, Sums, Zenon
          <5>3. Len(got'[s]) + Len(chan'[s]) + 1 = Len(got[s]) + Len(chan[s]) + 1
            BY <2>2, <4>2, <5>2, Zenon
          <5> QED BY <5>1, <5>3
        <4> QED BY <2>1, <2>4, <4>3, <4>5, <4>6, <4>7 DEF ChannelOf
      <3>2. CASE f.kind # "data"
        <4>1. call'[s] = "done"
          BY <1>5, <3>2 DEF Recv, Terminal, To, TypeOK, f
        <4>2. ~Listening(s)' /\ ~Unasked(s)'
          BY <4>1 DEF Listening, Unasked
        <4>3. Len(chan[s]) = 1
          <5>1. Terminal(chan[s][1]) /\ 1 \in 1 .. Len(chan[s])
            BY <2>2, <2>8, <3>2 DEF Terminal
          <5> QED BY <2>6, <5>1, ChannelParts DEF ChannelOf
        <4>4. 1 .. Len(chan'[s]) = {}
          BY <2>2, <4>3
        <4> QED BY <4>2, <4>4 DEF ChannelOf
      <3> QED BY <3>1, <3>2
    <2> QED BY <2>5, <2>7, ChannelParts
  <1>6. ASSUME NEW s \in Streams, RecvClosed(s) PROVE ChannelExact'
    <2>1. \A t \in Streams :
            /\ chan'[t] = chan[t] /\ got'[t] = got[t] /\ parked' = parked
            /\ Unasked(t)' => Unasked(t)
            /\ Listening(t)' => Listening(t)
            /\ t \in waiters' => t \in waiters
      BY <1>6 DEF RecvClosed, To, TypeOK, Unasked, Listening, callVars, clientVars, wires, serverVars
    <2>2. \A t \in Streams : ParkedFor(t)' => ParkedFor(t)
      BY <2>1 DEF ParkedFor
    <2> QED BY <2>1, <2>2, ChannelParts, ChannelKept
  <1>7. ASSUME NEW s \in Streams, Abandon(s) PROVE ChannelExact'
    <2>1. /\ \A t \in Streams \ {s} :
                /\ chan'[t] = chan[t] /\ call'[t] = call[t] /\ (t \in waiters' => t \in waiters)
          /\ chan'[s] = <<>> /\ call'[s] = "left" /\ got' = got /\ parked' = parked
      BY <1>7 DEF Abandon, To, TypeOK, clientVars
    <2>2. \A t \in Streams \ {s} : ChannelOf(t)'
      <3> TAKE t \in Streams \ {s}
      <3>1. /\ Unasked(t)' => Unasked(t)
            /\ Listening(t)' => Listening(t)
            /\ ParkedFor(t)' => ParkedFor(t)
        BY <2>1 DEF Unasked, Listening, ParkedFor
      <3> QED BY <2>1, <3>1, ChannelParts, ChannelKept
    <2>3. ChannelOf(s)'
      BY <2>1 DEF ChannelOf, Unasked, Listening
    <2> QED BY <2>2, <2>3, ChannelParts
  <1>8. ASSUME NEW s \in Streams, ServeFrame(s) PROVE ChannelExact'
    BY <1>8, ChannelUntouched DEF ServeFrame, callVars, clientVars, wires, serverVars
  <1>9. ASSUME NEW s \in Streams, ServeCancelled(s) PROVE ChannelExact'
    BY <1>9, ChannelUntouched DEF ServeCancelled, callVars, clientVars, wires, serverVars
  <1>10. ASSUME NEW s \in Streams, ServeError(s) PROVE ChannelExact'
    BY <1>10, ChannelUntouched DEF ServeError, callVars, clientVars, wires, serverVars
  <1>11. ASSUME NEW s \in Streams, ServeStalled(s) PROVE ChannelExact'
    BY <1>11, ChannelUntouched DEF ServeStalled, callVars, clientVars, wires, serverVars
  <1>12. CASE Shutdown
    BY <1>12, ChannelUntouched DEF Shutdown, callVars, clientVars, wires, serverVars
  <1>13. CASE DropHandles
    BY <1>13, ChannelUntouched DEF DropHandles, callVars, clientVars, wires, serverVars
  <1>14. CASE WriterWrite
    BY <1>14, ChannelUntouched DEF WriterWrite, callVars, clientVars, wires, serverVars
  <1>15. CASE WriterStops
    BY <1>15, ChannelUntouched DEF WriterStops, callVars, clientVars, wires, serverVars
  <1>16. CASE WriterClears
    BY <1>16, ChannelUntouched DEF WriterClears, callVars, clientVars, wires, serverVars
  <1>17. CASE WriterLeaves
    BY <1>17, ChannelUntouched DEF WriterLeaves, callVars, clientVars, wires, serverVars
  <1>18. CASE ReaderTakes
    <2> DEFINE f == Head(wireDown)
    <2>1. /\ parked = NoFrame /\ wireDown # <<>>
          /\ parked' = IF f.stream \in waiters THEN f ELSE NoFrame
          /\ UNCHANGED <<call, got, chan, waiters>>
      BY <1>18 DEF ReaderTakes, callVars
    <2>2. f \in Down /\ f.stream \in Streams /\ f # NoFrame
      <3>1. f \in Down
        BY <2>1 DEF TypeOK
      <3> QED BY <3>1 DEF Down, NoFrame
    <2> HIDE DEF f
    <2>3. \A t \in Streams : (Listening(t)' <=> Listening(t)) /\ (Unasked(t)' <=> Unasked(t))
      BY <2>1 DEF Listening, Unasked
    <2> SUFFICES ASSUME NEW t \in Streams PROVE ChannelOf(t)'
      BY ChannelParts
    <2>4. ChannelOf(t) /\ ~ParkedFor(t)
      BY <2>1, ChannelParts DEF ParkedFor
    <2>5. CASE ~(f.stream = t /\ t \in waiters)
      <3>1. ~ParkedFor(t)'
        BY <2>1, <2>2, <2>5 DEF ParkedFor
      <3> QED BY <2>1, <2>3, <2>4, <3>1, ChannelKept
    <2>6. CASE f.stream = t /\ t \in waiters
      <3>1. parked' = f /\ ParkedFor(t)' /\ ~Unasked(t)
        BY <2>1, <2>2, <2>4, <2>6 DEF ParkedFor, ChannelOf
      <3>2. Listening(t) /\ Data(f) => f.n = Len(got[t]) + Len(chan[t]) + 1
        <4> HAVE Listening(t) /\ Data(f)
        <4>1. f.n = NextToTake(t)
          BY <2>1, <2>6, TakesNext DEF Expecting, f
        <4>2. NextToTake(t) = Len(got[t]) + Len(chan[t]) + 1
          BY <2>4 DEF NextToTake, TypeOK
        <4> QED BY <4>1, <4>2
      <3> QED BY <2>1, <2>3, <2>4, <2>6, <3>1, <3>2 DEF ChannelOf
    <2> QED BY <2>5, <2>6
  <1>19. CASE ReaderDelivers
    <2> DEFINE u == parked.stream
    <2>1. /\ parked \in Down /\ u \in Streams /\ ParkedFor(u) /\ parked' = NoFrame
          /\ UNCHANGED <<call, got>>
      BY <1>19 DEF ReaderDelivers, TypeOK, Down, ParkedFor, callVars
    <2>2. \A t \in Streams : /\ (Listening(t)' <=> Listening(t))
                            /\ (Unasked(t)' <=> Unasked(t)) /\ ~ParkedFor(t)'
      BY <2>1 DEF Listening, Unasked, ParkedFor
    <2>3. /\ waiters' = IF Terminal(parked) THEN waiters \ {u} ELSE waiters
          /\ IF Listening(u) THEN chan' = [chan EXCEPT ![u] = Append(@, parked)] ELSE chan' = chan
      BY <1>19 DEF ReaderDelivers
    <2> HIDE DEF u
    <2> SUFFICES ASSUME NEW t \in Streams PROVE ChannelOf(t)'
      BY ChannelParts
    <2>4. ChannelOf(t)
      BY ChannelParts
    <2>5. CASE t # u \/ ~Listening(u)
      <3>1. chan'[t] = chan[t]
        BY <2>1, <2>3, <2>5 DEF TypeOK
      <3> QED BY <2>1, <2>2, <2>3, <2>4, <3>1, ChannelKept
    <2>6. CASE t = u /\ Listening(u)
      <3>1. chan'[t] = Append(chan[t], parked) /\ chan[t] \in Seq(Down) /\ Len(got[t]) \in Nat
        BY <2>1, <2>3, <2>6 DEF TypeOK
      <3>2. /\ Len(chan'[t]) = Len(chan[t]) + 1 /\ Len(chan[t]) \in Nat
            /\ \A i \in 1 .. Len(chan[t]) : chan'[t][i] = chan[t][i]
            /\ chan'[t][Len(chan[t]) + 1] = parked
        BY <2>1, <3>1, SeqFacts
      <3>3. ParkedFor(t)
        BY <2>1, <2>6
      <3>4. ~Unasked(t)
        BY <2>4, <3>3 DEF ChannelOf
      <3>5. \A i \in 1 .. Len(chan[t]) : ~Terminal(chan[t][i])
        BY <2>4, <2>6, <3>3 DEF ChannelOf
      <3>6. \A i \in 1 .. Len(chan'[t]) :
              (i \in 1 .. Len(chan[t]) /\ chan'[t][i] = chan[t][i])
              \/ (i = Len(chan[t]) + 1 /\ chan'[t][i] = parked)
        <4> TAKE i \in 1 .. Len(chan'[t])
        <4>1. i \in 1 .. Len(chan[t]) \/ i = Len(chan[t]) + 1
          BY <3>2
        <4> QED BY <3>2, <4>1
      <3>7. \A i \in 1 .. Len(chan'[t]) :
              Data(chan'[t][i]) => chan'[t][i].n = Len(got[t]) + i
        <4> TAKE i \in 1 .. Len(chan'[t])
        <4> HAVE Data(chan'[t][i])
        <4>1. CASE i \in 1 .. Len(chan[t]) /\ chan'[t][i] = chan[t][i]
          BY <4>1, <2>4 DEF ChannelOf
        <4>2. CASE i = Len(chan[t]) + 1 /\ chan'[t][i] = parked
          <5>1. parked.n = Len(got[t]) + Len(chan[t]) + 1
            BY <4>2, <2>4, <2>6, <3>3 DEF ChannelOf
          <5>2. Len(got[t]) + Len(chan[t]) + 1 = Len(got[t]) + i
            <6>1. Len(chan[t]) \in Int
              BY <3>2
            <6>2. Len(got[t]) + Len(chan[t]) + 1 = Len(got[t]) + (Len(chan[t]) + 1)
              BY <3>1, <6>1, Sums, Zenon
            <6> QED BY <4>2, <6>2, Zenon
          <5> QED BY <4>2, <5>1, <5>2
        <4> QED BY <3>6, <4>1, <4>2
      <3>8. \A i \in 1 .. Len(chan'[t]) :
              Terminal(chan'[t][i]) => i = Len(chan'[t]) /\ t \notin waiters'
        BY <2>3, <2>6, <3>2, <3>5, <3>6
      <3> QED BY <2>1, <2>2, <3>4, <3>7, <3>8 DEF ChannelOf
    <2> QED BY <2>5, <2>6
  <1>20. CASE ReaderStops
    BY <1>20, ChannelUntouched DEF ReaderStops, callVars, clientVars, wires, serverVars
  <1>21. CASE ReaderLeaves
    BY <1>21, ChannelUntouched DEF ReaderLeaves, callVars, clientVars, wires, serverVars
  <1>22. CASE SocketDies
    BY <1>22, ChannelUntouched DEF SocketDies, callVars, clientVars, wires, serverVars
  <1>23. CASE ServerReads
    BY <1>23, ChannelUntouched DEF ServerReads, callVars, clientVars, wires, serverVars
  <1>24. CASE ServerWrites
    BY <1>24, ChannelUntouched DEF ServerWrites, callVars, clientVars, wires, serverVars
  <1>25. CASE UNCHANGED vars
    BY <1>25, ChannelUntouched DEF vars, callVars, clientVars, wires, serverVars, callVars, clientVars, wires, serverVars
    <1> QED BY <1>1, <1>2, <1>3, <1>4, <1>5, <1>6, <1>7, <1>8, <1>9, <1>10,
            <1>11, <1>12, <1>13, <1>14, <1>15, <1>16, <1>17, <1>18, <1>19,
            <1>20, <1>21, <1>22, <1>23, <1>24, <1>25 DEF Next, CallStep,
            ServeStep, WriterStep, ReaderStep

\* The Data frames of t on their way: from b up on the wire w, then, while the
\* socket is up, on to the n-th in the lane l.
InPipe(t, b, w, up, l, n) ==
    \E m \in Nat :
        /\ m + 1 >= b /\ m <= n
        /\ Holds(w, t, b, m)
        /\ up => Holds(l, t, m + 1, n)

PipeOf(t) ==
    Expecting(t) => InPipe(t, NextToTake(t), wireDown, sock = "up", LaneOf(t), sent[t])

\* PipeExact is about one stream at a time.
LEMMA PipeParts ==
    /\ PipeExact <=> \A t \in Streams : PipeOf(t)
    /\ PipeExact' <=> \A t \in Streams : PipeOf(t)'
    /\ \A t : PipeOf(t)' <=>
          (Expecting(t)' => InPipe(t, NextToTake(t)', wireDown', sock' = "up", LaneOf(t)', sent'[t]))
  BY DEF PipeExact, PipeOf, InPipe

\* A step that leaves the frames of t alone.
LEMMA PipeKept ==
    ASSUME NEW t \in Streams, PipeOf(t), wireDown' = wireDown, sent'[t] = sent[t],
           Expecting(t)' => Expecting(t) /\ NextToTake(t)' = NextToTake(t),
           sock' = "up" => sock = "up" /\ LaneOf(t)' = LaneOf(t)
    PROVE  PipeOf(t)'
  <1> SUFFICES ASSUME Expecting(t)'
               PROVE  InPipe(t, NextToTake(t), wireDown, sock' = "up", LaneOf(t)', sent[t])
    BY PipeParts
  <1> HIDE DEF NextToTake, LaneOf, Holds, Expecting
  <1>1. PICK m \in Nat : /\ m + 1 >= NextToTake(t) /\ m <= sent[t]
                         /\ Holds(wireDown, t, NextToTake(t), m)
                         /\ sock = "up" => Holds(LaneOf(t), t, m + 1, sent[t])
    BY DEF PipeOf, InPipe
  <1>2. sock' = "up" => Holds(LaneOf(t)', t, m + 1, sent[t])
    BY <1>1
  <1> QED BY <1>1, <1>2 DEF InPipe

\* The numbers of the invariant are natural.
LEMMA PipeTypes ==
    ASSUME TypeOK, NEW t \in Streams
    PROVE  /\ NextToTake(t) \in Nat /\ NextToTake(t) >= 1 /\ sent[t] \in Nat
           /\ LaneOf(t) \in Seq(Down) /\ wireDown \in Seq(Down)
  BY DEF TypeOK, NextToTake, LaneOf

\* A step of the callers, the writer or the socket: no frame moves.
LEMMA PipeUntouched ==
    ASSUME PipeExact, wireDown' = wireDown, UNCHANGED <<sent, hi, lo>>, sock' = sock,
           \A t \in Streams : Expecting(t)' => Expecting(t) /\ NextToTake(t)' = NextToTake(t)
    PROVE  PipeExact'
  <1> SUFFICES ASSUME NEW t \in Streams PROVE PipeOf(t)'
    BY PipeParts
  <1>1. LaneOf(t)' = LaneOf(t) /\ sent'[t] = sent[t]
    BY DEF LaneOf
  <1> QED BY <1>1, PipeParts, PipeKept

\* A cut drops the lanes; the wire stays.
LEMMA PipeCut ==
    ASSUME PipeExact, Cut,
           \A t \in Streams : Expecting(t)' => Expecting(t) /\ NextToTake(t)' = NextToTake(t)
    PROVE  PipeExact'
  <1> SUFFICES ASSUME NEW t \in Streams PROVE PipeOf(t)'
    BY PipeParts
  <1>1. wireDown' = wireDown /\ sent'[t] = sent[t] /\ sock' # "up"
    BY DEF Cut
  <1> QED BY <1>1, PipeParts, PipeKept

\* A caller whose frames stay, and which expects no more than before.
LEMMA NextKept ==
    ASSUME NEW t \in Streams, chan'[t] = chan[t], got'[t] = got[t], parked' = parked
    PROVE  NextToTake(t)' = NextToTake(t)
  BY DEF NextToTake, ParkedFor

\* The lane of the stream moves on: a frame is queued behind the others.
LEMMA PipePush ==
    ASSUME TypeOK, NEW t \in Streams, NEW f \in Down, NEW n \in Nat,
           InPipe(t, NextToTake(t), wireDown, sock = "up", LaneOf(t), sent[t]),
           \/ n = sent[t] /\ ~(f.stream = t /\ Data(f))
           \/ n = sent[t] + 1 /\ f.stream = t /\ Data(f) /\ f.n = n
    PROVE  InPipe(t, NextToTake(t), wireDown, sock = "up", Append(LaneOf(t), f), n)
  <1>1. NextToTake(t) \in Nat /\ LaneOf(t) \in Seq(Down) /\ sent[t] \in Nat
    BY PipeTypes
  <1> HIDE DEF NextToTake, LaneOf, Holds
  <1>2. PICK m \in Nat : /\ m + 1 >= NextToTake(t) /\ m <= sent[t]
                         /\ Holds(wireDown, t, NextToTake(t), m)
                         /\ sock = "up" => Holds(LaneOf(t), t, m + 1, sent[t])
    BY DEF InPipe
  <1>3. m <= n
    BY <1>1, <1>2
  <1>4. ASSUME sock = "up" PROVE Holds(Append(LaneOf(t), f), t, m + 1, n)
    <2>1. Holds(LaneOf(t), t, m + 1, sent[t]) /\ m + 1 \in Nat /\ m + 1 <= sent[t] + 1
      BY <1>1, <1>2, <1>4
    <2>2. CASE n = sent[t] /\ ~(f.stream = t /\ Data(f))
      BY <1>1, <2>1, <2>2, HoldsAppendOther
    <2>3. CASE n = sent[t] + 1 /\ f.stream = t /\ Data(f) /\ f.n = n
      BY <1>1, <2>1, <2>3, HoldsAppend
    <2> QED BY <2>2, <2>3
  <1> QED BY <1>2, <1>3, <1>4 DEF InPipe

\* The head of a lane goes on the wire: of the stream's own lane, or of another
\* which carries nothing of it.
LEMMA PipeMove ==
    ASSUME TypeOK, NEW t \in Streams, NEW q \in Seq(Down), q # <<>>, sock = "up",
           InPipe(t, NextToTake(t), wireDown, TRUE, LaneOf(t), sent[t])
    PROVE  /\ q = LaneOf(t) =>
                 InPipe(t, NextToTake(t), Append(wireDown, Head(q)), TRUE, Tail(q), sent[t])
           /\ ~(Head(q).stream = t /\ Data(Head(q))) =>
                 InPipe(t, NextToTake(t), Append(wireDown, Head(q)), TRUE, LaneOf(t), sent[t])
  <1>1. /\ NextToTake(t) \in Nat /\ LaneOf(t) \in Seq(Down) /\ sent[t] \in Nat
        /\ wireDown \in Seq(Down)
    BY PipeTypes
  <1>2. Head(q) \in Down /\ Head(q) = q[1]
    OBVIOUS
  <1> HIDE DEF NextToTake, LaneOf, Holds, Data
  <1>3. PICK m \in Nat : /\ m + 1 >= NextToTake(t) /\ m <= sent[t]
                         /\ Holds(wireDown, t, NextToTake(t), m)
                         /\ Holds(LaneOf(t), t, m + 1, sent[t])
    BY DEF InPipe
  <1>4. m + 1 \in Nat
    OBVIOUS
  <1>5. ASSUME ~(Head(q).stream = t /\ Data(Head(q)))
        PROVE  Holds(Append(wireDown, Head(q)), t, NextToTake(t), m)
    BY <1>1, <1>2, <1>3, <1>5, HoldsAppendOther
  <1>6. ASSUME ~(Head(q).stream = t /\ Data(Head(q))), q = LaneOf(t)
        PROVE  InPipe(t, NextToTake(t), Append(wireDown, Head(q)), TRUE, Tail(q), sent[t])
    <2>1. Holds(Tail(q), t, m + 1, sent[t])
      BY <1>1, <1>2, <1>3, <1>4, <1>6, HoldsTailOther
    <2> QED BY <1>3, <1>5, <1>6, <2>1 DEF InPipe
  <1>7. ASSUME Head(q).stream = t, Data(Head(q)), q = LaneOf(t)
        PROVE  InPipe(t, NextToTake(t), Append(wireDown, Head(q)), TRUE, Tail(q), sent[t])
    <2>1. Head(q).n = m + 1 /\ m + 1 <= sent[t] /\ Holds(Tail(q), t, (m + 1) + 1, sent[t])
      BY <1>1, <1>2, <1>3, <1>4, <1>7, HoldsTail
    <2>2. Holds(Append(wireDown, Head(q)), t, NextToTake(t), m + 1)
      <3>1. NextToTake(t) <= m + 1
        BY <1>1, <1>3
      <3> QED BY <1>1, <1>2, <1>3, <1>7, <2>1, <3>1, HoldsAppend
    <2>3. (m + 1) + 1 >= NextToTake(t)
      BY <1>1, <1>3
    <2> QED BY <1>4, <2>1, <2>2, <2>3 DEF InPipe
  <1>8. ~(Head(q).stream = t /\ Data(Head(q))) =>
            InPipe(t, NextToTake(t), Append(wireDown, Head(q)), TRUE, LaneOf(t), sent[t])
    BY <1>3, <1>5 DEF InPipe
  <1> QED BY <1>6, <1>7, <1>8

\* While nothing is delivered, who expects what stays the same.
LEMMA ExpectSame ==
    ASSUME UNCHANGED <<call, got, chan, waiters, parked>>, NEW t \in Streams
    PROVE  (Expecting(t)' <=> Expecting(t)) /\ NextToTake(t)' = NextToTake(t)
  BY DEF Expecting, Unasked, Listening, NextToTake, ParkedFor

\* A frame without data on the priority lane.
LEMMA PipeControl ==
    ASSUME TypeOK, PipeExact, NEW f \in Down, ~Data(f), hi' = Append(hi, f),
           UNCHANGED <<call, got, chan, waiters, parked, wireDown, sock, sent, lo>>
    PROVE  PipeExact'
  <1> SUFFICES ASSUME NEW t \in Streams, Expecting(t)'
               PROVE  InPipe(t, NextToTake(t)', wireDown', sock' = "up", LaneOf(t)', sent'[t])
    BY PipeParts
  <1>1. /\ InPipe(t, NextToTake(t), wireDown, sock = "up", LaneOf(t), sent[t])
        /\ NextToTake(t)' = NextToTake(t) /\ sent'[t] = sent[t] /\ sent[t] \in Nat
    BY PipeParts, PipeTypes, ExpectSame DEF PipeOf
  <1>2. LaneOf(t)' = LaneOf(t) \/ LaneOf(t)' = Append(LaneOf(t), f)
    BY DEF LaneOf
  <1>3. InPipe(t, NextToTake(t), wireDown, sock = "up", Append(LaneOf(t), f), sent[t])
    BY <1>1, PipePush
  <1> HIDE DEF InPipe, NextToTake, LaneOf
  <1>4. sock' = sock /\ wireDown' = wireDown
    OBVIOUS
  <1> QED BY <1>1, <1>2, <1>3, <1>4

\* No frame a caller expects is lost or overtaken.
LEMMA PipeStep ==
    ASSUME TypeOK, RequestedOnce, FramesHonest, ChannelExact, PipeExact, [Next]_vars
    PROVE  PipeExact'
  <1>1. ASSUME NEW s \in Streams, Check(s) PROVE PipeExact'
    <2>1. \A t \in Streams :
            /\ chan'[t] = chan[t] /\ got'[t] = got[t] /\ parked' = parked
            /\ Expecting(t)' => Expecting(t)
      BY <1>1 DEF Check, To, TypeOK, Expecting, Unasked, Listening, callVars, clientVars, wires, serverVars
    <2>2. UNCHANGED <<wireDown, sent, hi, lo, sock>>
      BY <1>1 DEF Check, callVars, clientVars, wires, serverVars
    <2> QED BY <2>1, <2>2, NextKept, PipeUntouched
  <1>2. ASSUME NEW s \in Streams, Register(s) PROVE PipeExact'
    <2>1. \A t \in Streams :
            /\ chan'[t] = chan[t] /\ got'[t] = got[t] /\ parked' = parked
            /\ Expecting(t)' => Expecting(t)
      BY <1>2 DEF Register, To, TypeOK, Expecting, Unasked, Listening, callVars, clientVars, wires, serverVars
    <2>2. UNCHANGED <<wireDown, sent, hi, lo, sock>>
      BY <1>2 DEF Register, callVars, clientVars, wires, serverVars
    <2> QED BY <2>1, <2>2, NextKept, PipeUntouched
  <1>3. ASSUME NEW s \in Streams, Send(s) PROVE PipeExact'
    <2>1. \A t \in Streams :
            /\ chan'[t] = chan[t] /\ got'[t] = got[t] /\ parked' = parked
            /\ Expecting(t)' => Expecting(t)
      BY <1>3 DEF Send, To, TypeOK, Expecting, Unasked, Listening, callVars, clientVars, wires, serverVars
    <2>2. UNCHANGED <<wireDown, sent, hi, lo, sock>>
      BY <1>3 DEF Send, callVars, clientVars, wires, serverVars
    <2> QED BY <2>1, <2>2, NextKept, PipeUntouched
  <1>4. ASSUME NEW s \in Streams, Recheck(s) PROVE PipeExact'
    <2>1. \A t \in Streams :
            /\ chan'[t] = chan[t] /\ got'[t] = got[t] /\ parked' = parked
            /\ Expecting(t)' => Expecting(t)
      BY <1>4 DEF Recheck, To, TypeOK, Expecting, Unasked, Listening, callVars, clientVars, wires, serverVars
    <2>2. UNCHANGED <<wireDown, sent, hi, lo, sock>>
      BY <1>4 DEF Recheck, callVars, clientVars, wires, serverVars
    <2> QED BY <2>1, <2>2, NextKept, PipeUntouched
  <1>5. ASSUME NEW s \in Streams, Recv(s) PROVE PipeExact'
    <2> DEFINE f == Head(chan[s])
    <2>1. /\ chan' = [chan EXCEPT ![s] = Tail(@)] /\ chan[s] # <<>> /\ call[s] = "recv"
          /\ UNCHANGED <<parked, wireDown, sent, hi, lo, sock>>
      BY <1>5 DEF Recv, callVars, clientVars, wires, serverVars
    <2>2. \A t \in Streams \ {s} : /\ chan'[t] = chan[t] /\ got'[t] = got[t]
                                   /\ call'[t] = call[t] /\ (t \in waiters' <=> t \in waiters)
      BY <1>5 DEF Recv, To, TypeOK
    <2>3. \A t \in Streams \ {s} : Expecting(t)' => Expecting(t) /\ NextToTake(t)' = NextToTake(t)
      BY <2>1, <2>2, NextKept DEF Expecting, Unasked, Listening
    <2>4. Expecting(s)' => Expecting(s) /\ NextToTake(s)' = NextToTake(s)
      <3>1. CASE f.kind = "data"
        <4>1. /\ chan[s] \in Seq(Down) /\ got[s] \in Seq(Nat) /\ chan'[s] = Tail(chan[s])
              /\ got'[s] = Append(got[s], f.n) /\ call' = call /\ waiters' = waiters
          BY <1>5, <2>1, <3>1 DEF Recv, Terminal, TypeOK
        <4>2. f.n \in Nat
          BY <2>1, <4>1, FrameAt
        <4>3. /\ Len(chan'[s]) = Len(chan[s]) - 1 /\ Len(chan[s]) \in Nat
              /\ Len(got'[s]) = Len(got[s]) + 1 /\ Len(got[s]) \in Nat
          <5>1. Len(chan'[s]) = Len(chan[s]) - 1 /\ Len(chan[s]) \in Nat
            <6>1. chan[s] \in Seq(Down) /\ chan[s] # <<>> /\ chan'[s] = Tail(chan[s])
              BY <2>1, <4>1
            <6> HIDE DEF f
            <6> QED BY <6>1
          <5>2. Len(got'[s]) = Len(got[s]) + 1 /\ Len(got[s]) \in Nat
            BY <4>1, <4>2
          <5> QED BY <5>1, <5>2
        <4>4. Len(got'[s]) + Len(chan'[s]) + 1 = Len(got[s]) + Len(chan[s]) + 1
          <5>1. Len(chan[s]) \in Int
            BY <4>3
          <5> QED BY <4>3, <5>1, Sums, Zenon
        <4>5. NextToTake(s)' = NextToTake(s)
          BY <2>1, <4>4 DEF NextToTake, ParkedFor
        <4>6. Expecting(s)' => Expecting(s)
          BY <4>1 DEF Expecting, Unasked, Listening
        <4> QED BY <4>5, <4>6
      <3>2. CASE f.kind # "data"
        <4>1. call'[s] = "done"
          BY <1>5, <3>2 DEF Recv, Terminal, To, TypeOK
        <4> QED BY <4>1 DEF Expecting, Unasked, Listening
      <3> QED BY <3>1, <3>2
    <2> QED BY <2>1, <2>3, <2>4, PipeUntouched
  <1>6. ASSUME NEW s \in Streams, RecvClosed(s) PROVE PipeExact'
    <2>1. \A t \in Streams :
            /\ chan'[t] = chan[t] /\ got'[t] = got[t] /\ parked' = parked
            /\ Expecting(t)' => Expecting(t)
      BY <1>6 DEF RecvClosed, To, TypeOK, Expecting, Unasked, Listening, callVars, clientVars, wires, serverVars
    <2>2. UNCHANGED <<wireDown, sent, hi, lo, sock>>
      BY <1>6 DEF RecvClosed, callVars, clientVars, wires, serverVars
    <2> QED BY <2>1, <2>2, NextKept, PipeUntouched
  <1>7. ASSUME NEW s \in Streams, Abandon(s) PROVE PipeExact'
    <2>1. \A t \in Streams : Expecting(t)' => /\ Expecting(t) /\ chan'[t] = chan[t]
                                            /\ got'[t] = got[t] /\ parked' = parked
      BY <1>7 DEF Abandon, To, TypeOK, Expecting, Unasked, Listening, callVars, clientVars, wires, serverVars
    <2>2. UNCHANGED <<wireDown, sent, hi, lo, sock>>
      BY <1>7 DEF Abandon, callVars, clientVars, wires, serverVars
    <2> QED BY <2>1, <2>2, NextKept, PipeUntouched
  <1>8. ASSUME NEW s \in Streams, ServeFrame(s) PROVE PipeExact'
    <2> DEFINE n == sent[s] + 1
               f == Frame(IF n = NFrames[s] THEN "last" ELSE "data", s, n)
    <2>1. n \in Nat /\ f \in Down /\ f.stream = s /\ f.n = n /\ Data(f)
      <3>1. n \in Nat /\ f \in Down
        BY FrameTypes DEF TypeOK
      <3> QED BY <3>1 DEF Frame, Data
    <2>2. /\ sent' = [sent EXCEPT ![s] = n] /\ OnLane(s, f)
          /\ UNCHANGED <<call, got, chan, waiters, parked, wireDown, sock>>
      BY <1>8 DEF ServeFrame, callVars, clientVars, wires, serverVars
    <2> HIDE DEF f
    <2>3. sent'[s] = sent[s] + 1 /\ \A t \in Streams \ {s} : sent'[t] = sent[t]
      BY <2>2 DEF TypeOK
    <2>4. \A t \in Streams : LaneOf(t)' = Append(LaneOf(t), f) \/ (t # s /\ LaneOf(t)' = LaneOf(t))
      BY <2>2 DEF OnLane, LaneOf
    <2> SUFFICES ASSUME NEW t \in Streams, Expecting(t)'
                 PROVE  InPipe(t, NextToTake(t)', wireDown', sock' = "up", LaneOf(t)', sent'[t])
      BY PipeParts
    <2>5. /\ InPipe(t, NextToTake(t), wireDown, sock = "up", LaneOf(t), sent[t])
          /\ NextToTake(t)' = NextToTake(t) /\ sent[t] \in Nat
      BY <2>2, PipeParts, PipeTypes, ExpectSame DEF PipeOf
    <2>6. InPipe(t, NextToTake(t), wireDown, sock = "up", Append(LaneOf(t), f), sent'[t])
      <3>1. CASE t = s
        BY <2>1, <2>3, <2>5, <3>1, PipePush
      <3>2. CASE t # s
        BY <2>1, <2>3, <2>5, <3>2, PipePush
      <3> QED BY <3>1, <3>2
    <2> HIDE DEF InPipe, NextToTake, LaneOf
    <2>7. sock' = sock /\ wireDown' = wireDown
      BY <2>2
    <2> QED BY <2>3, <2>4, <2>5, <2>6, <2>7
  <1>9. ASSUME NEW s \in Streams, ServeCancelled(s) PROVE PipeExact'
    <2>1. \A t \in Streams : Expecting(t)' => /\ Expecting(t) /\ NextToTake(t)' = NextToTake(t)
      BY <1>9 DEF ServeCancelled, Expecting, Unasked, Listening, NextToTake, ParkedFor, callVars, clientVars, wires, serverVars
    <2> QED BY <1>9, <2>1, PipeUntouched DEF ServeCancelled, callVars, clientVars, wires, serverVars
  <1>10. ASSUME NEW s \in Streams, ServeError(s) PROVE PipeExact'
    <2>1. Frame("err", s, 0) \in Down /\ ~Data(Frame("err", s, 0))
      BY FrameTypes DEF Frame, Data
    <2> QED BY <1>10, <2>1, PipeControl DEF ServeError, callVars, clientVars, wires, serverVars
  <1>11. ASSUME NEW s \in Streams, ServeStalled(s) PROVE PipeExact'
    <2>1. \A t \in Streams : Expecting(t)' => /\ Expecting(t) /\ NextToTake(t)' = NextToTake(t)
      BY <1>11 DEF ServeStalled, Expecting, Unasked, Listening, NextToTake, ParkedFor, callVars, clientVars
    <2> QED BY <1>11, <2>1, PipeCut DEF ServeStalled
  <1>12. CASE Shutdown
    <2>1. \A t \in Streams : Expecting(t)' => /\ Expecting(t) /\ NextToTake(t)' = NextToTake(t)
      BY <1>12 DEF Shutdown, Expecting, Unasked, Listening, NextToTake, ParkedFor, callVars, clientVars, wires, serverVars
    <2> QED BY <1>12, <2>1, PipeUntouched DEF Shutdown, callVars, clientVars, wires, serverVars
  <1>13. CASE DropHandles
    <2>1. \A t \in Streams : Expecting(t)' => /\ Expecting(t) /\ NextToTake(t)' = NextToTake(t)
      BY <1>13 DEF DropHandles, Expecting, Unasked, Listening, NextToTake, ParkedFor, callVars, clientVars, wires, serverVars
    <2> QED BY <1>13, <2>1, PipeUntouched DEF DropHandles, callVars, clientVars, wires, serverVars
  <1>14. CASE WriterWrite
    <2>1. \A t \in Streams : Expecting(t)' => /\ Expecting(t) /\ NextToTake(t)' = NextToTake(t)
      BY <1>14 DEF WriterWrite, Expecting, Unasked, Listening, NextToTake, ParkedFor, callVars, clientVars, wires, serverVars
    <2> QED BY <1>14, <2>1, PipeUntouched DEF WriterWrite, callVars, clientVars, wires, serverVars
  <1>15. CASE WriterStops
    <2>1. \A t \in Streams : Expecting(t)' => /\ Expecting(t) /\ NextToTake(t)' = NextToTake(t)
      BY <1>15 DEF WriterStops, Expecting, Unasked, Listening, NextToTake, ParkedFor, callVars, clientVars, wires, serverVars
    <2> QED BY <1>15, <2>1, PipeUntouched DEF WriterStops, callVars, clientVars, wires, serverVars
  <1>16. CASE WriterClears
    <2>1. \A t \in Streams : Expecting(t)' => /\ Expecting(t) /\ NextToTake(t)' = NextToTake(t)
      BY <1>16 DEF WriterClears, Expecting, Unasked, Listening, NextToTake, ParkedFor, callVars, clientVars, wires, serverVars
    <2> QED BY <1>16, <2>1, PipeUntouched DEF WriterClears, callVars, clientVars, wires, serverVars
  <1>17. CASE WriterLeaves
    <2>1. \A t \in Streams : Expecting(t)' => /\ Expecting(t) /\ NextToTake(t)' = NextToTake(t)
      BY <1>17 DEF WriterLeaves, Expecting, Unasked, Listening, NextToTake, ParkedFor, callVars
    <2>2. CASE reader = "gone"
      BY <1>17, <2>1, <2>2, PipeCut DEF WriterLeaves
    <2>3. CASE reader # "gone"
      BY <1>17, <2>1, <2>3, PipeUntouched DEF WriterLeaves, wires, serverVars
    <2> QED BY <2>2, <2>3
  <1>18. CASE ReaderTakes
    <2> DEFINE f == Head(wireDown)
    <2>1. /\ parked = NoFrame /\ wireDown # <<>> /\ wireDown' = Tail(wireDown)
          /\ parked' = IF f.stream \in waiters THEN f ELSE NoFrame
          /\ UNCHANGED <<call, got, chan, waiters, sock, hi, lo, sent>>
      BY <1>18 DEF ReaderTakes, callVars, serverVars
    <2>2. f = wireDown[1] /\ f \in Down /\ f # NoFrame
      <3>1. f \in Down /\ f = wireDown[1]
        BY <2>1 DEF TypeOK
      <3> QED BY <3>1 DEF Down, NoFrame
    <2>3. \A t \in Streams : ~ParkedFor(t) /\ (Expecting(t)' <=> Expecting(t))
      BY <2>1 DEF ParkedFor, Expecting, Unasked, Listening
    <2>4. \A t \in Streams : LaneOf(t)' = LaneOf(t)
      BY <2>1 DEF LaneOf
    <2> SUFFICES ASSUME NEW t \in Streams, Expecting(t)
                 PROVE  InPipe(t, NextToTake(t)', wireDown', sock = "up", LaneOf(t), sent[t])
      BY <2>1, <2>3, <2>4, PipeParts
    <2>5. NextToTake(t) \in Nat /\ wireDown \in Seq(Down) /\ sent[t] \in Nat
      BY PipeTypes
    <2>6. PICK m \in Nat : /\ m + 1 >= NextToTake(t) /\ m <= sent[t]
                           /\ Holds(wireDown, t, NextToTake(t), m)
                           /\ sock = "up" => Holds(LaneOf(t), t, m + 1, sent[t])
      BY PipeParts DEF PipeOf, InPipe
    <2>7. CASE ~(f.stream = t /\ Data(f))
      <3>1. ~(ParkedFor(t)' /\ Data(parked'))
        BY <2>1, <2>7 DEF ParkedFor
      <3>2. NextToTake(t)' = NextToTake(t)
        BY <2>1, <2>3, <3>1 DEF NextToTake
      <3>3. Holds(Tail(wireDown), t, NextToTake(t), m)
        BY <2>1, <2>2, <2>5, <2>6, <2>7, HoldsTailOther
      <3> HIDE DEF NextToTake, f
      <3> QED BY <2>1, <2>6, <3>2, <3>3 DEF InPipe
    <2>8. CASE f.stream = t /\ Data(f)
      <3>1. t \in waiters
        BY <2>1, <2>8, TakesNext DEF Expecting
      <3>2. ParkedFor(t)' /\ Data(parked')
        BY <2>1, <2>2, <2>8, <3>1 DEF ParkedFor
      <3>3. NextToTake(t)' = NextToTake(t) + 1
        <4>1. NextToTake(t) = Len(got[t]) + Len(chan[t]) + 1 + 0
          BY <2>3 DEF NextToTake
        <4>2. NextToTake(t)' = Len(got[t]) + Len(chan[t]) + 1 + 1
          BY <2>1, <3>2 DEF NextToTake
        <4>3. Len(got[t]) \in Nat /\ Len(chan[t]) \in Nat
          BY DEF TypeOK
        <4>4. \A a, b \in Nat : a + b + 1 + 1 = (a + b + 1 + 0) + 1
          OBVIOUS
        <4>5. Len(got[t]) + Len(chan[t]) + 1 + 1 = (Len(got[t]) + Len(chan[t]) + 1 + 0) + 1
          BY <4>3, <4>4, Zenon
        <4> QED BY <4>1, <4>2, <4>5, Zenon
      <3>4. NextToTake(t) <= m /\ Holds(Tail(wireDown), t, NextToTake(t) + 1, m)
        BY <2>1, <2>2, <2>5, <2>6, <2>8, HoldsTail
      <3> HIDE DEF NextToTake, f
      <3>5. m + 1 >= NextToTake(t) + 1
        BY <2>5, <3>4
      <3> QED BY <2>1, <2>6, <3>3, <3>4, <3>5 DEF InPipe
    <2> QED BY <2>7, <2>8
  <1>19. CASE ReaderDelivers
    <2>0. parked \in Down /\ parked.stream \in Streams
      BY <1>19 DEF ReaderDelivers, TypeOK, Down
    <2> PICK u \in Streams : u = parked.stream
      BY <2>0
    <2>1. /\ parked \in Down /\ ParkedFor(u) /\ parked' = NoFrame
          /\ UNCHANGED <<call, got, wireDown, sent, hi, lo, sock>>
      BY <1>19 DEF ReaderDelivers, TypeOK, Down, ParkedFor, callVars, wires, serverVars
    <2>2. /\ waiters' = IF Terminal(parked) THEN waiters \ {u} ELSE waiters
          /\ IF Listening(u) THEN chan' = [chan EXCEPT ![u] = Append(@, parked)] ELSE chan' = chan
      BY <1>19 DEF ReaderDelivers
    <2>3. \A t \in Streams : Expecting(t)' => Expecting(t) /\ (t = u => Listening(u) /\ Data(parked))
      <3> SUFFICES ASSUME NEW t \in Streams, Expecting(t)'
                   PROVE  Expecting(t) /\ (t = u => Listening(u) /\ Data(parked))
        OBVIOUS
      <3>1. Expecting(t)
        BY <2>1, <2>2 DEF Expecting, Unasked, Listening
      <3>2. ~Unasked(u)
        BY <2>1, ChannelParts DEF ChannelOf
      <3>3. t = u => Listening(u) /\ ~Terminal(parked)
        BY <2>1, <2>2, <3>2 DEF Expecting, Unasked, Listening
      <3>4. ~Terminal(parked) => Data(parked)
        BY DEF Terminal, Data
      <3> QED BY <3>1, <3>3, <3>4
    <2>4. \A t \in Streams \ {u} : NextToTake(t)' = NextToTake(t)
      <3> TAKE t \in Streams \ {u}
      <3>1. chan'[t] = chan[t] /\ ~ParkedFor(t) /\ ~ParkedFor(t)'
        BY <2>1, <2>2 DEF ParkedFor, TypeOK
      <3> QED BY <2>1, <3>1 DEF NextToTake
    <2>5. Listening(u) /\ Data(parked) => NextToTake(u)' = NextToTake(u)
      <3> HAVE Listening(u) /\ Data(parked)
      <3>1. /\ chan'[u] = Append(chan[u], parked) /\ chan[u] \in Seq(Down)
            /\ got[u] \in Seq(Nat) /\ ~ParkedFor(u)'
        BY <2>1, <2>2 DEF TypeOK, ParkedFor
      <3>2. Len(chan'[u]) = Len(chan[u]) + 1 /\ Len(chan[u]) \in Nat /\ Len(got[u]) \in Nat
        BY <2>1, <3>1
      <3>3. NextToTake(u)' = Len(got[u]) + Len(chan'[u]) + 1 + 0
        BY <2>1, <3>1 DEF NextToTake
      <3>4. NextToTake(u) = Len(got[u]) + Len(chan[u]) + 1 + 1
        BY <2>1 DEF NextToTake
      <3>5. \A a, b \in Nat : a + (b + 1) + 1 + 0 = a + b + 1 + 1
        OBVIOUS
      <3>6. Len(got[u]) + Len(chan'[u]) + 1 + 0 = Len(got[u]) + Len(chan[u]) + 1 + 1
        BY <3>2, <3>5, Zenon
      <3> QED BY <3>3, <3>4, <3>6
    <2>6. \A t \in Streams : Expecting(t)' => Expecting(t) /\ NextToTake(t)' = NextToTake(t)
      BY <2>3, <2>4, <2>5
    <2> QED BY <2>1, <2>6, PipeUntouched
  <1>20. CASE ReaderStops
    <2>1. \A t \in Streams : Expecting(t)' => /\ Expecting(t) /\ NextToTake(t)' = NextToTake(t)
      BY <1>20 DEF ReaderStops, Expecting, Unasked, Listening, NextToTake, ParkedFor, callVars, clientVars, wires, serverVars
    <2> QED BY <1>20, <2>1, PipeUntouched DEF ReaderStops, callVars, clientVars, wires, serverVars
  <1>21. CASE ReaderLeaves
    <2>1. \A t \in Streams : Expecting(t)' => /\ Expecting(t) /\ NextToTake(t)' = NextToTake(t)
      BY <1>21 DEF ReaderLeaves, Expecting, Unasked, Listening, NextToTake, ParkedFor, callVars
    <2>2. CASE writer = "gone"
      BY <1>21, <2>1, <2>2, PipeCut DEF ReaderLeaves
    <2>3. CASE writer # "gone"
      BY <1>21, <2>1, <2>3, PipeUntouched DEF ReaderLeaves, wires, serverVars
    <2> QED BY <2>2, <2>3
  <1>22. CASE SocketDies
    <2>1. \A t \in Streams : Expecting(t)' => /\ Expecting(t) /\ NextToTake(t)' = NextToTake(t)
      BY <1>22 DEF SocketDies, Expecting, Unasked, Listening, NextToTake, ParkedFor, callVars, clientVars
    <2> QED BY <1>22, <2>1, PipeCut DEF SocketDies
  <1>23. CASE ServerReads
    <2> DEFINE u == Head(wireUp).stream
    <2>1. /\ UNCHANGED <<call, got, chan, waiters, parked, wireDown, sock, sent, lo>>
          /\ hi' = hi \/ hi' = Append(hi, Frame("pong", u, 0))
      BY <1>23 DEF ServerReads, callVars, clientVars
    <2>2. u \in Streams
      <3>1. Head(wireUp) \in Up
        BY <1>23 DEF ServerReads, TypeOK
      <3> QED BY <3>1 DEF Up
    <2> HIDE DEF u
    <2>3. CASE hi' = hi
      BY <2>1, <2>3, ExpectSame, PipeUntouched
    <2>4. CASE hi' = Append(hi, Frame("pong", u, 0))
      <3>1. Frame("pong", u, 0) \in Down /\ ~Data(Frame("pong", u, 0))
        BY <2>2, FrameTypes DEF Frame, Data
      <3> QED BY <2>1, <2>4, <3>1, PipeControl
    <2> QED BY <2>1, <2>3, <2>4
  <1>24. CASE ServerWrites
    <2>1. UNCHANGED <<call, got, chan, waiters, parked, sock, sent>> /\ sock = "up"
      BY <1>24 DEF ServerWrites, callVars, clientVars
    <2> SUFFICES ASSUME NEW t \in Streams, Expecting(t)'
                 PROVE  InPipe(t, NextToTake(t), wireDown', TRUE, LaneOf(t)', sent[t])
      <3>1. \A t \in Streams : NextToTake(t)' = NextToTake(t) /\ sent'[t] = sent[t]
        BY <2>1, ExpectSame
      <3>2. (sock' = "up") = TRUE
        BY <2>1
      <3> HIDE DEF InPipe, NextToTake, LaneOf
      <3> QED BY <3>1, <3>2, PipeParts
    <2>2. InPipe(t, NextToTake(t), wireDown, TRUE, LaneOf(t), sent[t])
      BY <2>1, PipeParts, ExpectSame DEF PipeOf, InPipe
    <2>3. hi \in Seq(Down) /\ lo \in Seq(Down)
      BY DEF TypeOK
    <2> HIDE DEF InPipe, NextToTake
    <2>4. CASE hi # <<>> /\ wireDown' = Append(wireDown, Head(hi)) /\ hi' = Tail(hi) /\ lo' = lo
      <3>1. CASE t \notin Bulk
        <4>1. hi = LaneOf(t) /\ LaneOf(t)' = Tail(hi)
          BY <2>4, <3>1 DEF LaneOf
        <4> QED BY <2>1, <2>2, <2>3, <2>4, <4>1, PipeMove
      <3>2. CASE t \in Bulk
        <4>1. LaneOf(t)' = LaneOf(t)
          BY <2>4, <3>2 DEF LaneOf
        <4>2. ~(Head(hi).stream = t /\ Data(Head(hi)))
          BY <2>3, <2>4, <3>2, HonestNow, LanePop
        <4> QED BY <2>1, <2>2, <2>3, <2>4, <4>1, <4>2, PipeMove
      <3> QED BY <3>1, <3>2
    <2>5. CASE lo # <<>> /\ wireDown' = Append(wireDown, Head(lo)) /\ lo' = Tail(lo) /\ hi' = hi
      <3>1. CASE t \in Bulk
        <4>1. lo = LaneOf(t) /\ LaneOf(t)' = Tail(lo)
          BY <2>5, <3>1 DEF LaneOf
        <4> QED BY <2>1, <2>2, <2>3, <2>5, <4>1, PipeMove
      <3>2. CASE t \notin Bulk
        <4>1. LaneOf(t)' = LaneOf(t)
          BY <2>5, <3>2 DEF LaneOf
        <4>2. ~(Head(lo).stream = t /\ Data(Head(lo)))
          BY <2>3, <2>5, <3>2, HonestNow, LanePop
        <4> QED BY <2>1, <2>2, <2>3, <2>5, <4>1, <4>2, PipeMove
      <3> QED BY <3>1, <3>2
    <2> QED BY <1>24, <2>4, <2>5 DEF ServerWrites
  <1>25. CASE UNCHANGED vars
    <2>1. \A t \in Streams : Expecting(t)' => /\ Expecting(t) /\ NextToTake(t)' = NextToTake(t)
      BY <1>25 DEF vars, callVars, clientVars, wires, serverVars, Expecting, Unasked, Listening, NextToTake, ParkedFor, callVars, clientVars, wires, serverVars
    <2> QED BY <1>25, <2>1, PipeUntouched DEF vars, callVars, clientVars, wires, serverVars, callVars, clientVars, wires, serverVars
    <1> QED BY <1>1, <1>2, <1>3, <1>4, <1>5, <1>6, <1>7, <1>8, <1>9, <1>10,
            <1>11, <1>12, <1>13, <1>14, <1>15, <1>16, <1>17, <1>18, <1>19,
            <1>20, <1>21, <1>22, <1>23, <1>24, <1>25 DEF Next, CallStep,
            ServeStep, WriterStep, ReaderStep

\* A caller that receives nothing keeps what it has.
LEMMA CompleteKept ==
    ASSUME StreamComplete, UNCHANGED <<pings, got, errs>>,
           \A t \in Streams : call'[t] = "done" => call[t] = "done"
    PROVE  StreamComplete'
  BY DEF StreamComplete

\* A frame is delivered to the channel of its stream.
LEMMA StreamsStep ==
    ASSUME TypeOK, ChannelStreams, [Next]_vars
    PROVE  ChannelStreams'
  <1>1. ASSUME NEW s \in Streams, Check(s) PROVE ChannelStreams'
    BY <1>1 DEF Check, ChannelStreams, callVars, clientVars, wires, serverVars
  <1>2. ASSUME NEW s \in Streams, Register(s) PROVE ChannelStreams'
    BY <1>2 DEF Register, ChannelStreams, callVars, clientVars, wires, serverVars
  <1>3. ASSUME NEW s \in Streams, Send(s) PROVE ChannelStreams'
    BY <1>3 DEF Send, ChannelStreams, callVars, clientVars, wires, serverVars
  <1>4. ASSUME NEW s \in Streams, Recheck(s) PROVE ChannelStreams'
    BY <1>4 DEF Recheck, ChannelStreams, callVars, clientVars, wires, serverVars
  <1>5. ASSUME NEW s \in Streams, Recv(s) PROVE ChannelStreams'
    <2>1. chan' = [chan EXCEPT ![s] = Tail(@)] /\ chan[s] # <<>>
      BY <1>5 DEF Recv
    <2>2. chan[s] \in Seq(Down) /\ chan'[s] = Tail(chan[s]) /\ chan[s] # <<>>
      BY <2>1 DEF TypeOK
    <2>3. \A t \in Streams \ {s} : chan'[t] = chan[t]
      BY <2>1 DEF TypeOK
    <2>4. \A i \in 1 .. Len(chan'[s]) : i + 1 \in 1 .. Len(chan[s]) /\ chan'[s][i] = chan[s][i + 1]
      BY <2>2
    <2>5. \A i \in 1 .. Len(chan'[s]) : chan'[s][i].stream = s
      BY <2>4 DEF ChannelStreams
    <2>6. ASSUME NEW t \in Streams, NEW i \in 1 .. Len(chan'[t]) PROVE chan'[t][i].stream = t
      <3>1. CASE t = s
        BY <2>5, <3>1
      <3>2. CASE t # s
        BY <2>3, <3>2 DEF ChannelStreams
      <3> QED BY <3>1, <3>2
    <2> QED BY <2>6 DEF ChannelStreams
  <1>6. ASSUME NEW s \in Streams, RecvClosed(s) PROVE ChannelStreams'
    BY <1>6 DEF RecvClosed, ChannelStreams, callVars, clientVars, wires, serverVars
  <1>7. ASSUME NEW s \in Streams, Abandon(s) PROVE ChannelStreams'
    <2>1. \A t \in Streams : chan'[t] = chan[t] \/ chan'[t] = <<>>
      BY <1>7 DEF Abandon, TypeOK
    <2>2. 1 .. Len(<<>>) = {}
      OBVIOUS
    <2> QED BY <2>1, <2>2 DEF ChannelStreams
  <1>8. ASSUME NEW s \in Streams, ServeFrame(s) PROVE ChannelStreams'
    BY <1>8 DEF ServeFrame, ChannelStreams, callVars, clientVars, wires, serverVars
  <1>9. ASSUME NEW s \in Streams, ServeCancelled(s) PROVE ChannelStreams'
    BY <1>9 DEF ServeCancelled, ChannelStreams, callVars, clientVars, wires, serverVars
  <1>10. ASSUME NEW s \in Streams, ServeError(s) PROVE ChannelStreams'
    BY <1>10 DEF ServeError, ChannelStreams, callVars, clientVars, wires, serverVars
  <1>11. ASSUME NEW s \in Streams, ServeStalled(s) PROVE ChannelStreams'
    BY <1>11 DEF ServeStalled, ChannelStreams, callVars, clientVars, wires, serverVars
  <1>12. CASE Shutdown
    BY <1>12 DEF Shutdown, ChannelStreams, callVars, clientVars, wires, serverVars
  <1>13. CASE DropHandles
    BY <1>13 DEF DropHandles, ChannelStreams, callVars, clientVars, wires, serverVars
  <1>14. CASE WriterWrite
    BY <1>14 DEF WriterWrite, ChannelStreams, callVars, clientVars, wires, serverVars
  <1>15. CASE WriterStops
    BY <1>15 DEF WriterStops, ChannelStreams, callVars, clientVars, wires, serverVars
  <1>16. CASE WriterClears
    BY <1>16 DEF WriterClears, ChannelStreams, callVars, clientVars, wires, serverVars
  <1>17. CASE WriterLeaves
    BY <1>17 DEF WriterLeaves, ChannelStreams, callVars, clientVars, wires, serverVars
  <1>18. CASE ReaderTakes
    BY <1>18 DEF ReaderTakes, ChannelStreams, callVars, clientVars, wires, serverVars
  <1>19. CASE ReaderDelivers
    <2>1. /\ parked \in Down /\ parked.stream \in Streams
          /\ chan' = chan \/ chan' = [chan EXCEPT ![parked.stream] = Append(@, parked)]
      BY <1>19 DEF ReaderDelivers, TypeOK, Down
    <2>2. ASSUME NEW t \in Streams, NEW i \in 1 .. Len(chan'[t]) PROVE chan'[t][i].stream = t
      <3>1. chan[t] \in Seq(Down)
        BY DEF TypeOK
      <3>2. CASE chan'[t] = chan[t]
        BY <3>2 DEF ChannelStreams
      <3>3. CASE t = parked.stream /\ chan'[t] = Append(chan[t], parked)
        <4>1. CASE i = Len(chan[t]) + 1
          BY <2>1, <3>1, <3>3, <4>1
        <4>2. CASE i \in 1 .. Len(chan[t])
          <5>1. chan'[t][i] = chan[t][i]
            BY <2>1, <3>1, <3>3, <4>2
          <5> QED BY <4>2, <5>1 DEF ChannelStreams
        <4> QED BY <2>1, <3>1, <3>3, <4>1, <4>2
      <3> QED BY <2>1, <3>2, <3>3 DEF TypeOK
    <2> QED BY <2>2 DEF ChannelStreams
  <1>20. CASE ReaderStops
    BY <1>20 DEF ReaderStops, ChannelStreams, callVars, clientVars, wires, serverVars
  <1>21. CASE ReaderLeaves
    BY <1>21 DEF ReaderLeaves, ChannelStreams, callVars, clientVars, wires, serverVars
  <1>22. CASE SocketDies
    BY <1>22 DEF SocketDies, ChannelStreams, callVars, clientVars, wires, serverVars
  <1>23. CASE ServerReads
    BY <1>23 DEF ServerReads, ChannelStreams, callVars, clientVars, wires, serverVars
  <1>24. CASE ServerWrites
    BY <1>24 DEF ServerWrites, ChannelStreams, callVars, clientVars, wires, serverVars
  <1>25. CASE UNCHANGED vars
    BY <1>25 DEF vars, callVars, clientVars, wires, serverVars, ChannelStreams
    <1> QED BY <1>1, <1>2, <1>3, <1>4, <1>5, <1>6, <1>7, <1>8, <1>9, <1>10,
            <1>11, <1>12, <1>13, <1>14, <1>15, <1>16, <1>17, <1>18, <1>19,
            <1>20, <1>21, <1>22, <1>23, <1>24, <1>25 DEF Next, CallStep,
            ServeStep, WriterStep, ReaderStep

\* What a caller has received is a prefix, and all of it at the end.
LEMMA CompleteStep ==
    ASSUME TypeOK, FramesHonest, ChannelExact, ChannelStreams, StreamComplete, [Next]_vars
    PROVE  StreamComplete'
  <1>1. ASSUME NEW s \in Streams, Check(s) PROVE StreamComplete'
    BY <1>1, CompleteKept DEF Check, To, TypeOK, callVars, clientVars, wires, serverVars
  <1>2. ASSUME NEW s \in Streams, Register(s) PROVE StreamComplete'
    BY <1>2, CompleteKept DEF Register, To, TypeOK, callVars, clientVars, wires, serverVars
  <1>3. ASSUME NEW s \in Streams, Send(s) PROVE StreamComplete'
    BY <1>3, CompleteKept DEF Send, To, TypeOK, callVars, clientVars, wires, serverVars
  <1>4. ASSUME NEW s \in Streams, Recheck(s) PROVE StreamComplete'
    BY <1>4, CompleteKept DEF Recheck, To, TypeOK, callVars, clientVars, wires, serverVars
  <1>5. ASSUME NEW s \in Streams, Recv(s) PROVE StreamComplete'
    <2> DEFINE f == Head(chan[s])
    <2>1. /\ chan[s] # <<>> /\ call[s] = "recv" /\ pings' = pings
          /\ got' = IF Data(f) THEN [got EXCEPT ![s] = Append(@, f.n)] ELSE got
          /\ errs' = IF f.kind = "err" THEN errs \cup {s} ELSE errs
          /\ IF Terminal(f) THEN call' = [call EXCEPT ![s] = "done"] ELSE call' = call
      BY <1>5 DEF Recv, To, Data
    <2>2. chan[s] \in Seq(Down) /\ got[s] \in Seq(Nat)
      BY DEF TypeOK
    <2>3. f = chan[s][1] /\ 1 \in 1 .. Len(chan[s])
      BY <2>1, <2>2
    <2>4. f.n \in Nat /\ f.kind \in {"data", "last", "err", "pong"} /\ f.stream \in Streams
      BY <2>2, <2>3, FrameAt
    <2> HIDE DEF f
    <2>5. Data(f) => f.n = Len(got[s]) + 1
      BY <2>3, ChannelParts DEF ChannelOf
    <2>6. Honest(f)
      BY <2>3, HonestNow DEF AllHonest
    <2>7. f.stream = s
      BY <2>3 DEF ChannelStreams
    <2>8. \A t \in Streams \ {s} : got'[t] = got[t] /\ call'[t] = call[t]
      BY <2>1 DEF TypeOK
    <2>9. /\ Len(got[s]) \in Nat
          /\ \A i \in 1 .. Len(got'[s]) : got'[s][i] = i
          /\ Data(f) => Len(got'[s]) = Len(got[s]) + 1
      <3>1. CASE Data(f)
        <4>1. got'[s] = Append(got[s], f.n)
          BY <2>1, <3>1 DEF TypeOK
        <4>2. \A i \in 1 .. Len(got[s]) : got[s][i] = i
          BY DEF StreamComplete
        <4> QED BY <2>2, <2>4, <2>5, <3>1, <4>1, <4>2
      <3>2. CASE ~Data(f)
        BY <2>1, <2>2, <3>2 DEF StreamComplete
      <3> QED BY <3>1, <3>2
    <2>10. call'[s] = "done" /\ s \notin errs' \cup pings' => Len(got'[s]) = NFrames[s]
      <3> HAVE call'[s] = "done" /\ s \notin errs' \cup pings'
      <3>1. f.kind = "last"
        BY <2>1, <2>4, <2>6, <2>7 DEF Terminal, Honest
      <3>2. Data(f) /\ f.n = NFrames[s]
        BY <2>6, <2>7, <3>1 DEF Honest, Data
      <3> QED BY <2>5, <2>9, <3>2
    <2>11. \A t \in Streams \ {s} : t \notin errs' \cup pings' => t \notin errs \cup pings
      BY <2>1
    <2> QED BY <2>8, <2>9, <2>10, <2>11 DEF StreamComplete
  <1>6. ASSUME NEW s \in Streams, RecvClosed(s) PROVE StreamComplete'
    BY <1>6, CompleteKept DEF RecvClosed, To, TypeOK, callVars, clientVars, wires, serverVars
  <1>7. ASSUME NEW s \in Streams, Abandon(s) PROVE StreamComplete'
    BY <1>7, CompleteKept DEF Abandon, To, TypeOK, callVars, clientVars, wires, serverVars
  <1>8. ASSUME NEW s \in Streams, ServeFrame(s) PROVE StreamComplete'
    BY <1>8, CompleteKept DEF ServeFrame, To, TypeOK, callVars, clientVars, wires, serverVars
  <1>9. ASSUME NEW s \in Streams, ServeCancelled(s) PROVE StreamComplete'
    BY <1>9, CompleteKept DEF ServeCancelled, To, TypeOK, callVars, clientVars, wires, serverVars
  <1>10. ASSUME NEW s \in Streams, ServeError(s) PROVE StreamComplete'
    BY <1>10, CompleteKept DEF ServeError, To, TypeOK, callVars, clientVars, wires, serverVars
  <1>11. ASSUME NEW s \in Streams, ServeStalled(s) PROVE StreamComplete'
    BY <1>11, CompleteKept DEF ServeStalled, To, TypeOK, callVars, clientVars, wires, serverVars
  <1>12. CASE Shutdown
    BY <1>12, CompleteKept DEF Shutdown, To, TypeOK, callVars, clientVars, wires, serverVars
  <1>13. CASE DropHandles
    BY <1>13, CompleteKept DEF DropHandles, To, TypeOK, callVars, clientVars, wires, serverVars
  <1>14. CASE WriterWrite
    BY <1>14, CompleteKept DEF WriterWrite, To, TypeOK, callVars, clientVars, wires, serverVars
  <1>15. CASE WriterStops
    BY <1>15, CompleteKept DEF WriterStops, To, TypeOK, callVars, clientVars, wires, serverVars
  <1>16. CASE WriterClears
    BY <1>16, CompleteKept DEF WriterClears, To, TypeOK, callVars, clientVars, wires, serverVars
  <1>17. CASE WriterLeaves
    BY <1>17, CompleteKept DEF WriterLeaves, To, TypeOK, callVars, clientVars, wires, serverVars
  <1>18. CASE ReaderTakes
    BY <1>18, CompleteKept DEF ReaderTakes, To, TypeOK, callVars, clientVars, wires, serverVars
  <1>19. CASE ReaderDelivers
    BY <1>19, CompleteKept DEF ReaderDelivers, To, TypeOK, callVars, clientVars, wires, serverVars
  <1>20. CASE ReaderStops
    BY <1>20, CompleteKept DEF ReaderStops, To, TypeOK, callVars, clientVars, wires, serverVars
  <1>21. CASE ReaderLeaves
    BY <1>21, CompleteKept DEF ReaderLeaves, To, TypeOK, callVars, clientVars, wires, serverVars
  <1>22. CASE SocketDies
    BY <1>22, CompleteKept DEF SocketDies, To, TypeOK, callVars, clientVars, wires, serverVars
  <1>23. CASE ServerReads
    BY <1>23, CompleteKept DEF ServerReads, To, TypeOK, callVars, clientVars, wires, serverVars
  <1>24. CASE ServerWrites
    BY <1>24, CompleteKept DEF ServerWrites, To, TypeOK, callVars, clientVars, wires, serverVars
  <1>25. CASE UNCHANGED vars
    BY <1>25, CompleteKept DEF vars, callVars, clientVars, wires, serverVars, To, TypeOK, callVars, clientVars, wires, serverVars
    <1> QED BY <1>1, <1>2, <1>3, <1>4, <1>5, <1>6, <1>7, <1>8, <1>9, <1>10,
            <1>11, <1>12, <1>13, <1>14, <1>15, <1>16, <1>17, <1>18, <1>19,
            <1>20, <1>21, <1>22, <1>23, <1>24, <1>25 DEF Next, CallStep,
            ServeStep, WriterStep, ReaderStep

-----------------------------------------------------------------------------
(***************************************************************************)
(* The theorems.                                                           *)
(***************************************************************************)

\* The invariant holds when the connection is made.
LEMMA InitInv == Init => IInv
  <1> SUFFICES ASSUME Init PROVE IInv
    OBVIOUS
  <1>1. TypeOK
    <2>1. <<>> \in Seq(Down) /\ <<>> \in Seq(Up) /\ <<>> \in Seq(Nat) /\ Len(<<>>) = 0
      OBVIOUS
    <2>2. pings \subseteq Streams
      BY MuxAssumption DEF Init
    <2>3. /\ got \in [Streams -> Seq(Nat)] /\ chan \in [Streams -> Seq(Down)]
          /\ \A s \in Streams : Len(chan[s]) <= ChanCap
      BY <2>1, Caps DEF Init
    <2>4. /\ lane \in Seq(Up) /\ Len(lane) <= LaneCap
          /\ wireUp \in Seq(Up) /\ Len(wireUp) <= WireCap
          /\ wireDown \in Seq(Down) /\ Len(wireDown) <= WireCap
          /\ hi \in Seq(Down) /\ Len(hi) <= LaneCap
          /\ lo \in Seq(Down) /\ Len(lo) <= LaneCap
      BY <2>1, Caps DEF Init
    <2>5. /\ call \in [Streams -> {"new", "checked", "sending", "recheck", "recv"} \cup Ended]
          /\ serve \in [Streams -> {"none", "open", "ended"}] /\ sent \in [Streams -> Nat]
          /\ errs \subseteq Streams /\ waiters \subseteq Streams /\ cancelled \subseteq Streams
      BY DEF Init
    <2>6. /\ closed \in BOOLEAN /\ notified \in BOOLEAN /\ handles \in BOOLEAN
          /\ writer \in {"run", "closing", "cleared", "gone"}
          /\ reader \in {"run", "closing", "gone"}
          /\ parked \in Down \cup {NoFrame} /\ sock \in {"up", "down"}
      BY DEF Init
    <2> QED BY <2>2, <2>3, <2>4, <2>5, <2>6 DEF TypeOK
  <1>2. FlagRaised /\ NobodyStranded
    BY DEF Init, FlagRaised, NobodyStranded
  <1>3. RequestedOnce
    BY NoRequestEmpty DEF Init, RequestedOnce
  <1>4. FramesHonest
    BY DEF Init, FramesHonest, PingsAsked, AllHonest
  <1>5. ChannelExact /\ ChannelStreams /\ StreamComplete
    BY DEF Init, ChannelExact, ChannelStreams, StreamComplete, Unasked, ParkedFor, Listening
  <1>6. PipeExact
    <2> SUFFICES ASSUME NEW s \in Streams
                 PROVE  InPipe(s, NextToTake(s), wireDown, sock = "up", LaneOf(s), sent[s])
      BY PipeParts DEF PipeOf
    <2>1. /\ NextToTake(s) = 1 /\ wireDown = <<>> /\ LaneOf(s) = <<>> /\ sent[s] = 0
      BY DEF Init, NextToTake, LaneOf, ParkedFor
    <2>2. Holds(<<>>, s, 1, 0) /\ Holds(<<>>, s, 0 + 1, 0)
      BY HoldsNone
    <2> HIDE DEF NextToTake, LaneOf
    <2> QED BY <2>1, <2>2 DEF InPipe
  <1> QED BY <1>1, <1>2, <1>3, <1>4, <1>5, <1>6 DEF IInv

\* Every step of callers, tasks, socket and server keeps the invariant.
LEMMA NextInv == IInv /\ [Next]_vars => IInv'
  BY TypeStep, FlagStep, StrandedStep, RequestStep, HonestStep, ChannelStep, StreamsStep,
     PipeStep, CompleteStep DEF IInv

\* The inductive invariant of the connection: types, the closed flag, one request
\* per stream, and the frames of each reply in a row from the server's lane over
\* the wire and the reader to the caller.
THEOREM Invariance == Spec => []IInv
  BY InitInv, NextInv, PTL DEF Spec

\* Type correctness: no bounded queue of conn.rs passes its bound.
THEOREM TypeCorrect == Spec => []TypeOK
  <1>1. IInv => TypeOK
    BY DEF IInv
  <1> QED BY Invariance, <1>1, PTL

\* Whatever order callers, writer and reader stop in, no caller of
\* request_stream is left in recv on a registered waiter once a task has cleared
\* the map.
THEOREM NoCallerStranded == Spec => []NobodyStranded
  <1>1. IInv => NobodyStranded
    BY DEF IInv
  <1> QED BY Invariance, <1>1, PTL

\* A caller receives the Data frames of its reply in order, and one handed the
\* terminal frame without an error has received every frame before it, for
\* replies of any length over lanes, wires and channels of any capacity.
THEOREM RepliesComplete == Spec => []StreamComplete
  <1>1. IInv => StreamComplete
    BY DEF IInv
  <1> QED BY Invariance, <1>1, PTL
=============================================================================
