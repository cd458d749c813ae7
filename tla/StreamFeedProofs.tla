-------------------------- MODULE StreamFeedProofs --------------------------
(***************************************************************************)
(* StreamResume implements StreamFeed: every step of the adapter is a step *)
(* of the promise made to the consumers, or none they can see.             *)
(***************************************************************************)
EXTENDS StreamResumeProofs

\* What the step correspondence needs beyond IInv: a position is held exactly
\* when it names a stream; a registered link is one that came up; handlers run
\* only under a registered link, for an event at or below the position; a
\* connection without a stream carries no frames; and the heads an acceptor
\* reports are within its log.
HeldInv ==
    /\ held = (stream # 0)
    /\ registered # NoConn => connected

HandedInv ==
    /\ handling # 0 => registered # NoConn
    /\ handling <= offset
    /\ \A o \in delivered : o <= offset

AckInv(d) ==
    /\ ack[d].stream = 0 => wire[d] = <<>>
    /\ phase[d] \in {"decided", "acked"} /\ ack[d].stream # 0
         => /\ ack[d].head <= Len(logs[ack[d].stream])
            /\ ack[d].rhead <= Len(logs[ack[d].stream])

FInv == IInv /\ HeldInv /\ HandedInv /\ \A d \in Conns : AckInv(d)

-----------------------------------------------------------------------------
(* The invariant. *)

LEMMA FInvInit == Init => FInv
<1> SUFFICES ASSUME Init PROVE FInv OBVIOUS
<1>1. IInv BY InvInit
<1>2. HeldInv
  <2>1. base = NoPos \/ base.stream \in 1..MaxEpoch BY SeedsAssumption DEF Init
  <2> QED BY <2>1, BoundsAssumption DEF Init, HeldInv, NoPos
<1>3. HandedInv
  <2>1. offset \in Nat BY <1>1 DEF IInv, TypeOK
  <2> QED BY <2>1 DEF Init, HandedInv
<1>4. \A d \in Conns : AckInv(d) BY DEF Init, AckInv, NoAck
<1> QED BY <1>1, <1>2, <1>3, <1>4 DEF FInv

\* Steps that leave the dialer's position alone.
LEMMA HandedSame ==
    ASSUME FInv, UNCHANGED <<held, stream, registered, connected, handling, offset, delivered>>
    PROVE  HeldInv' /\ HandedInv'
BY DEF FInv, HeldInv, HandedInv

\* Steps that leave a connection's handshake and the log alone.
LEMMA AckSame ==
    ASSUME FInv, NEW d \in Conns, logs' = logs, ack'[d] = ack[d], phase'[d] = phase[d],
           wire[d] = <<>> => wire'[d] = <<>>
    PROVE  AckInv(d)'
BY DEF FInv, AckInv

LEMMA FInvLog ==
    ASSUME FInv, TypeOK', NEW k \in Kinds, LogAppend(k)
    PROVE  HeldInv' /\ HandedInv' /\ \A d \in Conns : AckInv(d)'
<1> USE DEF acceptorVars, handshakeVars, linkVars, dialerVars, historyVars
<1>1. TypeOK BY DEF FInv, IInv
<1>2. UNCHANGED <<held, stream, registered, connected, handling, offset, delivered, ack, phase,
                  wire>>
  BY DEF LogAppend
<1>3. ASSUME NEW d \in Conns PROVE AckInv(d)'
  <2>1. AckInv(d) /\ ack[d].stream \in Streams \cup {0} BY DEF FInv, IInv, CursorInv
  <2>2. ack[d].head \in Nat /\ ack[d].rhead \in Nat BY <1>1 DEF TypeOK, Acks
  <2>3. ack[d].stream # 0 => /\ Len(logs[ack[d].stream]) \in Nat
                             /\ Len(logs'[ack[d].stream]) \in Nat
                             /\ Len(logs[ack[d].stream]) <= Len(logs'[ack[d].stream])
    BY <1>1, <2>1, LogGrows
  <2> QED BY <1>2, <2>1, <2>2, <2>3 DEF AckInv
<1> QED BY <1>2, <1>3, HandedSame

LEMMA FInvHandshake ==
    ASSUME FInv, TypeOK', NEW c \in Conns, Dial(c) \/ Ask(c) \/ Decide(c) \/ Accept(c)
    PROVE  HeldInv' /\ HandedInv' /\ \A d \in Conns : AckInv(d)'
<1> USE DEF acceptorVars, handshakeVars, linkVars, dialerVars, historyVars
<1>1. TypeOK /\ CursorInv(c) /\ AckInv(c) BY DEF FInv, IInv
<1>2. /\ UNCHANGED <<logs, epoch, held, stream, registered, connected, handling, offset, delivered,
                     wire>>
      /\ \A d \in Conns \ {c} : ack'[d] = ack[d] /\ phase'[d] = phase[d]
  BY <1>1 DEF Dial, Ask, Decide, Accept, TypeOK
<1>3. AckInv(c)'
  <2>1. CASE Dial(c) \/ Ask(c)
    <3>1. ack' = ack /\ phase'[c] \in {"dialed", "asked"}
      BY <1>1, <2>1 DEF Dial, Ask, TypeOK
    <3> QED BY <1>1, <1>2, <3>1 DEF AckInv
  <2>2. CASE Decide(c)
    <3> DEFINE dec == DecideResume(req[c], OldestLocked, LogHead)
    <3>1. LogHead \in Nat /\ dec.rhead = LogHead
      BY <1>1, HeadsType DEF DecideResume
    <3>2. /\ ack'[c].stream \in {0, epoch} /\ ack'[c].head = 0 /\ ack'[c].rhead = dec.rhead
          /\ phase[c] = "asked"
      BY <1>1, <2>2 DEF Decide, TypeOK
    <3>3. wire[c] = <<>> BY <1>1, <3>2 DEF CursorInv, NotAcked
    <3> QED BY <1>2, <3>1, <3>2, <3>3 DEF AckInv, LogHead
  <2>3. CASE Accept(c)
    <3>1. /\ ack'[c].stream = ack[c].stream /\ ack'[c].head = LogHead
          /\ ack'[c].rhead = ack[c].rhead /\ phase[c] = "decided"
      BY <1>1, <2>3 DEF Accept, TypeOK, Acks
    <3>2. ack[c].stream # 0 => ack[c].stream = epoch BY <1>1, <3>1 DEF CursorInv
    <3>3. LogHead \in Nat BY <1>1, HeadsType
    <3> QED BY <1>1, <1>2, <3>1, <3>2, <3>3 DEF AckInv, LogHead
  <2> QED BY <2>1, <2>2, <2>3
<1>4. \A d \in Conns : AckInv(d)'
  <2> SUFFICES ASSUME NEW d \in Conns, d # c PROVE AckInv(d)' BY <1>3
  <2> QED BY <1>2, AckSame
<1> QED BY <1>2, <1>4, HandedSame

LEMMA FInvForget ==
    ASSUME FInv, TypeOK', NEW c \in Conns, Discard(c) \/ Abandon(c) \/ LinkDown(c)
    PROVE  HeldInv' /\ HandedInv' /\ \A d \in Conns : AckInv(d)'
<1> USE DEF acceptorVars, handshakeVars, linkVars, dialerVars, historyVars
<1>1. TypeOK BY DEF FInv, IInv
<1>2. /\ UNCHANGED <<logs, held, stream, connected, handling, offset, delivered>>
      /\ Forget(c)
      /\ registered' = registered \/ (handling = 0 /\ registered' = NoConn)
  BY DEF Discard, Abandon, LinkDown
<1>3. ack'[c] = NoAck /\ wire'[c] = <<>> /\ phase'[c] = "idle" BY <1>1, <1>2 DEF Forget, TypeOK
<1>4. \A d \in Conns \ {c} : ack'[d] = ack[d] /\ phase'[d] = phase[d] /\ wire'[d] = wire[d]
  BY <1>1, <1>2 DEF Forget, TypeOK
<1>5. \A d \in Conns : AckInv(d)'
  <2>1. AckInv(c)' BY <1>3 DEF AckInv
  <2>2. ASSUME NEW d \in Conns, d # c PROVE AckInv(d)' BY <1>2, <1>4, <2>2, AckSame
  <2> QED BY <2>1, <2>2
<1>6. HeldInv' /\ HandedInv' BY <1>2 DEF FInv, HeldInv, HandedInv
<1> QED BY <1>5, <1>6

\* What a link that comes up does to the position.
LEMMA RegisterMoves ==
    ASSUME FInv, NEW c \in Conns, Register(c)
    PROVE  /\ handling = 0 /\ registered = NoConn
           /\ held' = (stream' # 0)
           /\ stream' \in Streams \cup {0} /\ offset' \in Nat
           /\ stream' = 0 => offset' = 0
           /\ \/ UNCHANGED <<held, stream, offset, base, delivered>> /\ held
              \/ /\ base' = Pos(stream', offset') /\ delivered' = {}
                 /\ stream' # 0 => offset' <= Len(logs[stream'])
<1> USE DEF acceptorVars, handshakeVars, linkVars, dialerVars, historyVars
<1> DEFINE up == LinkUp(ack[c], req[c])
<1>1. TypeOK /\ CursorInv(c) /\ AckInv(c) BY DEF FInv, IInv
<1>2. /\ phase[c] = "acked" /\ ~Stale(c)
      /\ held' = (up.pos.stream # 0) /\ stream' = up.pos.stream /\ offset' = up.pos.off
      /\ IF up.gap \/ (~held /\ ~connected)
         THEN base' = up.pos /\ delivered' = {}
         ELSE UNCHANGED <<base, delivered>>
  BY DEF Register
<1>3. registered = NoConn /\ handling = 0
  <2>1. registered = NoConn BY <1>2 DEF Stale
  <2> QED BY <2>1 DEF FInv, HandedInv
<1>4. ack[c] \in Acks /\ req[c] \in Positions /\ up.pos \in Positions
  BY <1>1, LinkUpType DEF TypeOK
<1>5. /\ up.pos.stream = ack[c].stream
      /\ up.pos = Pos(up.pos.stream, up.pos.off)
      /\ ack[c].stream = 0 => up.pos.off = 0
  BY <1>4 DEF LinkUp, Acks, Pos, NoPos
<1>6. CASE up.gap \/ (~held /\ ~connected)
  <2>1. base' = up.pos /\ delivered' = {} BY <1>2, <1>6
  <2>2. base' = Pos(stream', offset') BY <1>2, <1>5, <2>1
  <2>3. ack[c].stream # 0 => up.pos.off <= Len(logs[ack[c].stream])
    <3> SUFFICES ASSUME ack[c].stream # 0 PROVE up.pos.off <= Len(logs[ack[c].stream])
      OBVIOUS
    <3>1. /\ ack[c].head <= Len(logs[ack[c].stream]) /\ ack[c].rhead <= Len(logs[ack[c].stream])
      BY <1>1, <1>2 DEF AckInv
    <3>2. up.pos.off = ack[c].head \/ up.pos.off = ack[c].rhead \/
          /\ ack[c].status = "replaying" /\ ~up.gap
          /\ req[c].stream = ack[c].stream
      BY <1>4 DEF LinkUp, Acks, Pos
    <3>3. CASE ack[c].status = "replaying" /\ ~up.gap /\ req[c].stream = ack[c].stream
      <4>1. ~held BY <1>6, <3>3
      <4>2. req[c] = NoPos BY <1>2, <4>1 DEF Stale, Request
      <4> QED BY <3>3, <4>2 DEF NoPos
    <3> QED BY <3>1, <3>2, <3>3
  <2> QED BY <1>1, <1>2, <1>3, <1>4, <1>5, <2>1, <2>2, <2>3 DEF CursorInv, Positions
<1>7. CASE ~(up.gap \/ (~held /\ ~connected))
  <2>1. /\ ack[c].stream # 0 /\ ack[c].status = "replaying"
        /\ req[c].stream = ack[c].stream
        /\ up.pos = Pos(ack[c].stream, ack[c].after)
    BY <1>4, <1>7 DEF LinkUp, Acks
  <2>2. req[c] = Request BY <1>2, <2>1 DEF Stale
  <2>3. req[c] = Pos(ack[c].stream, ack[c].after) BY <1>1, <1>2, <2>1 DEF CursorInv
  <2>4. held BY <2>1, <2>2 DEF Request, NoPos
  <2>5. up.pos = Pos(stream, offset) BY <2>1, <2>2, <2>3, <2>4 DEF Request
  <2>6. stream' = stream /\ offset' = offset BY <1>2, <2>5 DEF Pos
  <2>7. held' = TRUE /\ held = TRUE BY <1>1, <1>2, <1>5, <2>1, <2>4 DEF TypeOK
  <2>8. UNCHANGED <<base, delivered>> BY <1>2, <1>7
  <2> QED BY <1>1, <1>2, <1>3, <1>4, <1>5, <2>1, <2>6, <2>7, <2>8 DEF CursorInv, Positions
<1> QED BY <1>6, <1>7

LEMMA FInvRegister ==
    ASSUME FInv, TypeOK', NEW c \in Conns, Register(c)
    PROVE  HeldInv' /\ HandedInv' /\ \A d \in Conns : AckInv(d)'
<1> USE DEF acceptorVars, handshakeVars, linkVars, dialerVars, historyVars
<1>1. TypeOK BY DEF FInv, IInv
<1>2. /\ UNCHANGED <<logs, wire, handling>>
      /\ ack'[c] = [NoAck EXCEPT !.stream = ack[c].stream] /\ phase'[c] = "up"
      /\ \A d \in Conns \ {c} : ack'[d] = ack[d] /\ phase'[d] = phase[d]
  BY <1>1 DEF Register, TypeOK
<1>3. AckInv(c)'
  <2>1. ack'[c].stream = ack[c].stream BY <1>2 DEF NoAck
  <2> QED BY <1>2, <2>1 DEF FInv, AckInv
<1>4. \A d \in Conns : AckInv(d)'
  <2> SUFFICES ASSUME NEW d \in Conns, d # c PROVE AckInv(d)' BY <1>3
  <2> QED BY <1>2, AckSame
<1>5. HeldInv'
  <2>1. connected' = TRUE BY DEF Register
  <2> QED BY <2>1, RegisterMoves DEF HeldInv
<1>6. HandedInv' BY <1>2, RegisterMoves DEF FInv, HandedInv
<1> QED BY <1>4, <1>5, <1>6

LEMMA FInvWriter ==
    ASSUME FInv, TypeOK', NEW c \in Conns, Writer(c)
    PROVE  HeldInv' /\ HandedInv' /\ \A d \in Conns : AckInv(d)'
<1> USE DEF acceptorVars, handshakeVars, linkVars, dialerVars, historyVars
<1>1. TypeOK BY DEF FInv, IInv
<1>2. /\ UNCHANGED <<logs, ack, phase, held, stream, registered, connected, handling, offset,
                     delivered>>
      /\ ack[c].stream # 0
      /\ \A d \in Conns \ {c} : wire'[d] = wire[d]
  <2>1. \/ wire' = wire
        \/ \E f : wire' = [wire EXCEPT ![c] = Append(@, f)]
    BY DEF Writer, ReadBatch, Lagged, Send, Heartbeat, Write
  <2>2. \A d \in Conns \ {c} : wire'[d] = wire[d] BY <1>1, <2>1 DEF TypeOK
  <2>3. UNCHANGED <<logs, ack, phase, held, stream, registered, connected, handling, offset,
                    delivered>>
    BY DEF Writer, ReadBatch, Lagged, Send, Heartbeat
  <2>4. ack[c].stream # 0 BY DEF Writer, ReadBatch, Lagged, Send, Heartbeat, Writing
  <2> QED BY <2>2, <2>3, <2>4
<1>3. AckInv(c)' BY <1>2 DEF FInv, AckInv
<1>4. \A d \in Conns : AckInv(d)'
  <2> SUFFICES ASSUME NEW d \in Conns, d # c PROVE AckInv(d)' BY <1>3
  <2> QED BY <1>2, AckSame
<1> QED BY <1>2, <1>4, HandedSame

\* What a frame taken from the registered link does to the dialer.
LEMMA ReadMoves ==
    ASSUME FInv, NEW c \in Conns, registered = c, wire[c] # <<>>
    PROVE  /\ ack[c].stream # 0 /\ held /\ stream \in Streams /\ connected
           /\ registered # NoConn
<1>1. AckInv(c) /\ HeldInv /\ PosInv BY DEF FInv, IInv
<1>2. ack[c].stream # 0 BY <1>1 DEF AckInv
<1>3. stream # 0 BY <1>2, ReaderKnows DEF FInv
<1> QED BY <1>1, <1>2, <1>3, ConnsAssumption DEF HeldInv, PosInv

LEMMA FInvReader ==
    ASSUME FInv, TypeOK', NEW c \in Conns, OnEvent(c) \/ OnReset(c) \/ OnPosition(c)
    PROVE  HeldInv' /\ HandedInv' /\ \A d \in Conns : AckInv(d)'
<1> USE DEF acceptorVars, handshakeVars, linkVars, dialerVars, historyVars
<1>1. TypeOK /\ HandedInv BY DEF FInv, IInv
<1>2. /\ UNCHANGED <<logs, ack, phase, held, stream, registered, connected>>
      /\ registered = c /\ wire[c] # <<>> /\ handling = 0
      /\ \A d \in Conns \ {c} : wire'[d] = wire[d]
  BY <1>1 DEF OnEvent, OnReset, OnPosition, Reading, Consume, TypeOK
<1>3. ack[c].stream # 0 /\ registered # NoConn BY <1>2, ReadMoves
<1>4. AckInv(c)' BY <1>2, <1>3 DEF FInv, AckInv
<1>5. \A d \in Conns : AckInv(d)'
  <2> SUFFICES ASSUME NEW d \in Conns, d # c PROVE AckInv(d)' BY <1>4
  <2> QED BY <1>2, AckSame
<1>6. HeldInv' BY <1>2 DEF FInv, HeldInv
<1>7. HandedInv'
  <2>1. PICK f \in Frames : f = Head(wire[c]) BY <1>2, ReaderKnows DEF FInv
  <2>2. f.off \in Nat /\ offset \in Nat /\ offset' \in Nat /\ delivered \subseteq Nat
    BY <1>1 DEF Frames, TypeOK
  <2>3. /\ offset <= offset'
        /\ handling' = 0 \/ handling' = offset'
        /\ delivered' \subseteq delivered
    BY <1>2, <2>1, <2>2 DEF OnEvent, OnReset, OnPosition
  <2>4. \A o \in delivered' : o <= offset' BY <1>1, <2>2, <2>3 DEF HandedInv
  <2> QED BY <1>2, <1>3, <2>2, <2>3, <2>4 DEF HandedInv
<1> QED BY <1>5, <1>6, <1>7

LEMMA FInvCut ==
    ASSUME FInv, TypeOK', NEW c \in Conns, Cut(c) \/ RefuseReset(c)
    PROVE  HeldInv' /\ HandedInv' /\ \A d \in Conns : AckInv(d)'
<1> USE DEF acceptorVars, handshakeVars, linkVars, dialerVars, historyVars
<1>1. TypeOK BY DEF FInv, IInv
<1>2. /\ UNCHANGED <<logs, ack, phase, held, stream, registered, connected, handling, offset,
                     delivered>>
      /\ \A d \in Conns \ {c} : wire'[d] = wire[d]
  BY <1>1 DEF Cut, RefuseReset, TypeOK
<1>3. ASSUME wire[c] = <<>> PROVE wire'[c] = <<>>
  <2>1. wire'[c] = <<>> \/ \E k \in 0..Len(wire[c]) : wire'[c] = SubSeq(wire[c], 1, k)
    BY <1>1 DEF Cut, RefuseReset, TypeOK
  <2>2. wire[c] \in Seq(Frames) /\ Len(wire[c]) = 0 BY <1>1, <1>3 DEF TypeOK
  <2>3. wire'[c] \in Seq(Frames) BY DEF TypeOK
  <2>4. Len(wire'[c]) = 0 BY <2>1, <2>2, <2>3
  <2> QED BY <2>3, <2>4
<1>4. \A d \in Conns : AckInv(d)' BY <1>2, <1>3, AckSame
<1> QED BY <1>2, <1>4, HandedSame

LEMMA FInvRest ==
    ASSUME FInv, TypeOK', HandlersReturn \/ Restart \/ UNCHANGED vars
    PROVE  HeldInv' /\ HandedInv' /\ \A d \in Conns : AckInv(d)'
<1> USE DEF acceptorVars, handshakeVars, linkVars, dialerVars, historyVars
<1>1. TypeOK /\ HandedInv BY DEF FInv, IInv
<1>2. /\ UNCHANGED <<logs, ack, phase, wire, held, stream, registered, connected, offset>>
      /\ \/ UNCHANGED <<handling, delivered>>
         \/ handling' = 0 /\ delivered' = delivered \cup {handling}
  BY DEF HandlersReturn, Restart, vars
<1>3. \A d \in Conns : AckInv(d)' BY <1>2, AckSame
<1>4. HeldInv' BY <1>2 DEF FInv, HeldInv
<1>5. HandedInv' BY <1>1, <1>2 DEF HandedInv, TypeOK
<1> QED BY <1>3, <1>4, <1>5

LEMMA FInvNext == FInv /\ [Next]_vars => FInv'
<1> SUFFICES ASSUME FInv, [Next]_vars PROVE FInv' OBVIOUS
<1>1. IInv' BY InvNext DEF FInv
<1>2. TypeOK' BY <1>1 DEF IInv
<1> DEFINE Rest == HeldInv' /\ HandedInv' /\ \A d \in Conns : AckInv(d)'
<1>3. ASSUME NEW c \in Conns, Handshake(c) PROVE Rest
  BY <1>2, <1>3, FInvHandshake, FInvForget, FInvRegister DEF Handshake
<1>4. ASSUME NEW c \in Conns, Writer(c) PROVE Rest BY <1>2, <1>4, FInvWriter
<1>5. ASSUME NEW c \in Conns, Reader(c) PROVE Rest
  BY <1>2, <1>5, FInvReader, FInvCut, FInvForget DEF Reader
<1>6. ASSUME NEW c \in Conns, Abandon(c) \/ Cut(c) PROVE Rest
  BY <1>2, <1>6, FInvForget, FInvCut
<1>7. ASSUME NEW k \in Kinds, LogAppend(k) PROVE Rest BY <1>2, <1>7, FInvLog
<1>8. ASSUME HandlersReturn \/ Restart \/ UNCHANGED vars PROVE Rest BY <1>2, <1>8, FInvRest
<1>9. Rest BY <1>3, <1>4, <1>5, <1>6, <1>7, <1>8 DEF Next
<1> QED BY <1>1, <1>9 DEF FInv

LEMMA FInvariance == Spec => []FInv
BY FInvInit, FInvNext, PTL DEF Spec

-----------------------------------------------------------------------------
(* The step correspondence. *)

FeedStep == Feed!FeedNext \/ UNCHANGED Feed!feedVars

LEMMA FeedSame ==
    ASSUME UNCHANGED <<logs, held, stream, offset, connected, base, delivered, handling>>
    PROVE  UNCHANGED Feed!feedVars
BY DEF Feed!feedVars, Request

LEMMA FeedStarts == Init => Feed!FeedInit
<1> SUFFICES ASSUME Init PROVE Feed!FeedInit OBVIOUS
<1>1. base \in Positions BY TypeInit DEF TypeOK
<1>2. base = Request BY <1>1 DEF Init, Request, Pos, NoPos, Positions
<1>3. delivered \cup ({handling} \ {0}) = {} BY DEF Init
<1> QED BY <1>2, <1>3 DEF Init, Feed!FeedInit

LEMMA FeedPublish == ASSUME FInv, NEW k \in Kinds, LogAppend(k) PROVE FeedStep
<1> USE DEF acceptorVars, handshakeVars, linkVars, dialerVars, historyVars
<1>1. epoch \in Streams BY DEF FInv, IInv, TypeOK
<1>2. Feed!Publish(epoch, k) BY DEF LogAppend, Feed!Publish, Request
<1> QED BY <1>1, <1>2 DEF FeedStep, Feed!FeedNext, Feed!Kinds, Kinds

LEMMA FeedHand == ASSUME FInv, NEW c \in Conns, OnEvent(c) PROVE FeedStep
<1> USE DEF acceptorVars, handshakeVars, linkVars, dialerVars, historyVars
<1>1. TypeOK /\ HandedInv BY DEF FInv, IInv
<1>a. registered = c /\ handling = 0 /\ wire[c] # <<>> /\ Head(wire[c]).kind = "event"
  BY DEF OnEvent, Reading
<1>b. PICK f \in Frames : f = Head(wire[c]) BY <1>a, ReaderKnows DEF FInv
<1>2. /\ UNCHANGED <<logs, held, stream, connected, base, delivered>>
      /\ \/ f.off <= offset /\ offset' = offset /\ handling' = 0
         \/ f.off > offset /\ offset' = f.off /\ handling' = f.off
  BY <1>a, <1>b, ReaderKnows DEF OnEvent, FInv
<1>3. CASE offset' = offset /\ handling' = 0
  BY <1>a, <1>2, <1>3, FeedSame DEF FeedStep
<1>4. CASE f.off > offset /\ offset' = f.off /\ handling' = f.off
  <2>1. held /\ stream \in Streams BY <1>a, ReadMoves
  <2>2. f.kind = "event" /\ f.off \in Nat /\ offset \in Nat BY <1>1, <1>a, <1>b DEF Frames, TypeOK
  <2>3. /\ f.off \in 1..Len(logs[stream]) /\ logs[stream][f.off] = "event"
        /\ \A o \in offset + 1 .. f.off : logs[stream][o] = "filtered" \/ Covers(f, o)
    BY <1>a, <1>b, <2>1, <2>2, ReaderKnows DEF FInv, InLog
  <2>4. Len(logs[stream]) \in Nat BY <1>1, <2>1 DEF TypeOK
  <2>5. Request = Pos(stream, offset) /\ Request' = Pos(stream, f.off)
    BY <1>2, <1>4, <2>1 DEF Request, Pos
  <2>6. Feed!Quiet(stream, offset + 1, f.off - 1)
    <3> SUFFICES ASSUME NEW o \in offset + 1 .. f.off - 1
                 PROVE  o <= Len(logs[stream]) /\ logs[stream][o] = "filtered"
      BY DEF Feed!Quiet
    <3>1. o \in offset + 1 .. f.off /\ o < f.off /\ f.off <= Len(logs[stream]) /\ o \in Nat
      BY <2>2, <2>3, <2>4
    <3>2. ~Covers(f, o) BY <2>2, <3>1 DEF Covers
    <3> QED BY <2>3, <2>4, <3>1, <3>2
  <2>7. f.off \notin delivered /\ f.off # 0 BY <1>1, <1>4, <2>2, <2>3 DEF HandedInv, TypeOK
  <2>8. /\ delivered \cup ({handling} \ {0}) = delivered
        /\ delivered' \cup ({handling'} \ {0}) = delivered \cup {f.off}
    BY <1>2, <1>4, <1>a, <2>7
  <2>9. Feed!Hand(stream, f.off)
    <3>1. Request.stream = stream /\ Request.off = offset BY <2>5 DEF Pos
    <3>2. f.off > offset /\ f.off <= Len(logs[stream]) BY <1>4, <2>3, <2>4, <2>2
    <3>3. Request' = [stream |-> stream, off |-> f.off] BY <2>5 DEF Pos
    <3> QED BY <1>2, <2>3, <2>6, <2>7, <2>8, <3>1, <3>2, <3>3 DEF Feed!Hand
  <2> QED BY <2>1, <2>3, <2>9 DEF FeedStep, Feed!FeedNext
<1> QED BY <1>2, <1>3, <1>4

LEMMA FeedPass == ASSUME FInv, NEW c \in Conns, OnPosition(c) PROVE FeedStep
<1> USE DEF acceptorVars, handshakeVars, linkVars, dialerVars, historyVars
<1>1. TypeOK BY DEF FInv, IInv
<1>a. registered = c /\ wire[c] # <<>> /\ Head(wire[c]).kind = "position"
  BY DEF OnPosition, Reading
<1>b. PICK f \in Frames : f = Head(wire[c]) BY <1>a, ReaderKnows DEF FInv
<1>2. /\ UNCHANGED <<logs, held, stream, connected, base, delivered, handling>>
      /\ offset' = IF f.off > offset THEN f.off ELSE offset
  BY <1>b DEF OnPosition
<1>3. CASE offset' = offset BY <1>2, <1>3, FeedSame DEF FeedStep
<1>4. CASE f.off > offset /\ offset' = f.off
  <2>1. held /\ stream \in Streams BY <1>a, ReadMoves
  <2>2. f.kind = "position" /\ f.off \in Nat /\ offset \in Nat
    BY <1>1, <1>a, <1>b DEF Frames, TypeOK
  <2>3. /\ f.off <= Len(logs[stream])
        /\ \A o \in offset + 1 .. f.off : logs[stream][o] = "filtered" \/ Covers(f, o)
    BY <1>a, <1>b, <2>1, ReaderKnows DEF FInv, InLog
  <2>4. Len(logs[stream]) \in Nat BY <1>1, <2>1 DEF TypeOK
  <2>5. Request = Pos(stream, offset) /\ Request' = Pos(stream, f.off)
    BY <1>2, <1>4, <2>1 DEF Request, Pos
  <2>6. Feed!Quiet(stream, offset + 1, f.off)
    <3> SUFFICES ASSUME NEW o \in offset + 1 .. f.off
                 PROVE  o <= Len(logs[stream]) /\ logs[stream][o] = "filtered"
      BY DEF Feed!Quiet
    <3>1. ~Covers(f, o) BY <2>2 DEF Covers
    <3> QED BY <2>2, <2>3, <2>4, <3>1
  <2>7. Feed!Pass(stream, f.off)
    <3>1. Request.stream = stream /\ Request.off = offset BY <2>5 DEF Pos
    <3>2. Request' = [stream |-> stream, off |-> f.off] BY <2>5 DEF Pos
    <3> QED BY <1>2, <1>4, <2>6, <3>1, <3>2 DEF Feed!Pass
  <2>8. f.off \in 1..Len(logs[stream]) BY <1>4, <2>2, <2>3, <2>4
  <2> QED BY <2>1, <2>7, <2>8 DEF FeedStep, Feed!FeedNext
<1>5. offset' = offset \/ (f.off > offset /\ offset' = f.off) BY <1>2
<1> QED BY <1>3, <1>4, <1>5

LEMMA FeedReset == ASSUME FInv, NEW c \in Conns, OnReset(c) PROVE FeedStep
<1> USE DEF acceptorVars, handshakeVars, linkVars, dialerVars, historyVars
<1>1. TypeOK BY DEF FInv, IInv
<1>a. registered = c /\ wire[c] # <<>> /\ handling = 0 BY DEF OnReset, Reading
<1>b. PICK f \in Frames : f = Head(wire[c]) BY <1>a, ReaderKnows DEF FInv
<1>2. /\ UNCHANGED <<logs, held, stream, connected, handling>>
      /\ offset' = f.off /\ base' = Pos(stream, f.off) /\ delivered' = {}
  BY <1>b DEF OnReset
<1>3. held /\ stream \in Streams /\ connected BY <1>a, ReadMoves
<1>4. f.off \in Nat /\ f.off <= Len(logs[stream]) /\ Len(logs[stream]) \in Nat
  BY <1>1, <1>a, <1>b, <1>3, ReaderKnows DEF Frames, TypeOK, FInv, InLog
<1>5. Request' = Pos(stream, f.off) BY <1>2, <1>3 DEF Request, Pos
<1>6. delivered' \cup ({handling'} \ {0}) = {} BY <1>2, <1>a
<1>7. connected' = TRUE BY <1>1, <1>2, <1>3 DEF TypeOK
<1>8. Feed!Announce(Pos(stream, f.off)) BY <1>2, <1>5, <1>6, <1>7 DEF Feed!Announce
<1>9. Pos(stream, f.off) \in Feed!FeedPositions(Len(logs[stream]))
  BY <1>3, <1>4 DEF Feed!FeedPositions, Pos
<1> QED BY <1>3, <1>8, <1>9 DEF FeedStep, Feed!FeedNext

LEMMA FeedRegister == ASSUME FInv, NEW c \in Conns, Register(c) PROVE FeedStep
<1> USE DEF acceptorVars, handshakeVars, linkVars, dialerVars, historyVars
<1>1. TypeOK BY DEF FInv, IInv
<1>2. UNCHANGED <<logs, handling>> /\ connected' = TRUE /\ handling = 0
  BY RegisterMoves DEF Register
<1>3. CASE UNCHANGED <<held, stream, offset, base, delivered>>
  <2>1. Feed!Resume BY <1>2, <1>3 DEF Feed!Resume, Request
  <2> QED BY <2>1 DEF FeedStep, Feed!FeedNext
<1>4. CASE /\ base' = Pos(stream', offset') /\ delivered' = {}
           /\ stream' # 0 => offset' <= Len(logs[stream'])
  <2>1. PICK p : p = Pos(stream', offset') OBVIOUS
  <2>2. /\ held' = (stream' # 0) /\ stream' \in Streams \cup {0} /\ offset' \in Nat
        /\ stream' = 0 => offset' = 0
    BY RegisterMoves
  <2>3. Request' = p BY <2>1, <2>2 DEF Request, Pos, NoPos
  <2>4. delivered' \cup ({handling'} \ {0}) = {} BY <1>2, <1>4
  <2>5. Feed!Announce(p) BY <1>2, <1>4, <2>1, <2>3, <2>4 DEF Feed!Announce
  <2>6. \E s \in Streams : p \in Feed!FeedPositions(Len(logs[s]))
    <3>1. CASE stream' = 0
      <4>1. epoch \in Streams BY <1>1 DEF TypeOK
      <4> QED BY <2>1, <2>2, <3>1, <4>1 DEF Feed!FeedPositions, Feed!NoPosition, Pos
    <3>2. CASE stream' # 0
      <4>1. stream' \in Streams /\ Len(logs[stream']) \in Nat BY <1>1, <2>2, <3>2 DEF TypeOK
      <4>2. offset' \in 0..Len(logs[stream']) BY <1>4, <2>2, <3>2, <4>1
      <4> QED BY <2>1, <4>1, <4>2 DEF Feed!FeedPositions, Pos
    <3> QED BY <3>1, <3>2
  <2> QED BY <2>5, <2>6 DEF FeedStep, Feed!FeedNext
<1> QED BY <1>3, <1>4, RegisterMoves

LEMMA FeedHandlers == ASSUME FInv, HandlersReturn PROVE FeedStep
<1> USE DEF acceptorVars, handshakeVars, linkVars, dialerVars, historyVars
<1>1. /\ UNCHANGED <<logs, held, stream, offset, connected, base>>
      /\ handling # 0 /\ delivered' = delivered \cup {handling} /\ handling' = 0
  BY DEF HandlersReturn
<1>2. delivered' \cup ({handling'} \ {0}) = delivered \cup ({handling} \ {0}) BY <1>1
<1>3. Request' = Request BY <1>1 DEF Request
<1> QED BY <1>1, <1>2, <1>3 DEF FeedStep, Feed!feedVars

\* Every step of the adapter is a step of the feed or leaves it alone.
LEMMA FeedSimulates == FInv /\ [Next]_vars => FeedStep
<1> SUFFICES ASSUME FInv, [Next]_vars PROVE FeedStep OBVIOUS
<1> USE DEF acceptorVars, handshakeVars, linkVars, dialerVars, historyVars
<1>1. ASSUME NEW c \in Conns,
             \/ Dial(c) \/ Ask(c) \/ Decide(c) \/ Accept(c) \/ Discard(c) \/ Abandon(c)
             \/ LinkDown(c) \/ Cut(c) \/ RefuseReset(c)
      PROVE  FeedStep
  <2>1. UNCHANGED <<logs, held, stream, offset, connected, base, delivered, handling>>
    BY <1>1 DEF Dial, Ask, Decide, Accept, Discard, Abandon, LinkDown, Cut, RefuseReset
  <2> QED BY <2>1, FeedSame DEF FeedStep
<1>2. ASSUME NEW c \in Conns, Writer(c) PROVE FeedStep
  <2>1. UNCHANGED <<logs, held, stream, offset, connected, base, delivered, handling>>
    BY <1>2 DEF Writer, ReadBatch, Lagged, Send, Heartbeat
  <2> QED BY <2>1, FeedSame DEF FeedStep
<1>3. ASSUME Restart \/ UNCHANGED vars PROVE FeedStep
  <2>1. UNCHANGED <<logs, held, stream, offset, connected, base, delivered, handling>>
    BY <1>3 DEF Restart, vars
  <2> QED BY <2>1, FeedSame DEF FeedStep
<1>4. ASSUME NEW c \in Conns, Handshake(c) \/ Writer(c) \/ Reader(c) PROVE FeedStep
  BY <1>1, <1>2, <1>4, FeedRegister, FeedHand, FeedPass, FeedReset DEF Handshake, Reader
<1>5. ASSUME NEW c \in Conns, Abandon(c) \/ Cut(c) PROVE FeedStep BY <1>1, <1>5
<1>6. ASSUME NEW k \in Kinds, LogAppend(k) PROVE FeedStep BY <1>6, FeedPublish
<1> QED BY <1>3, <1>4, <1>5, <1>6, FeedHandlers DEF Next

\* The adapter keeps the promise to its consumers: for any number of
\* connections racing for the address, any ring and batch size, cuts,
\* restarts and seeds, events are handed over in order and at most once, and
\* every other move of the position is announced.
THEOREM Refinement == Spec => ImplementsFeed
<1>1. Init => Feed!FeedInit BY FeedStarts
<1>2. FInv /\ [Next]_vars => [Feed!FeedNext]_(Feed!feedVars) BY FeedSimulates DEF FeedStep
<1> QED BY <1>1, <1>2, FInvariance, PTL DEF Spec, ImplementsFeed, Feed!FeedSpec
=============================================================================
