------------------------- MODULE StreamResumeProofs -------------------------
(***************************************************************************)
(* Proofs about StreamResume, for any connections, ring size, batch size   *)
(* and seeds.                                                              *)
(***************************************************************************)
EXTENDS StreamResume, TLAPS

-----------------------------------------------------------------------------
(* Type correctness. *)

\* The decision and the position after an ack are well formed.
LEMMA DecideType ==
    ASSUME NEW r \in Positions, NEW old \in Nat, NEW head \in Nat
    PROVE  /\ DecideResume(r, old, head) \in
                [status : {"none", "reset", "replaying"}, after : Nat, rhead : Nat]
           /\ StartCursor(DecideResume(r, old, head)) \in Nat
BY DEF DecideResume, StartCursor, Positions

LEMMA LinkUpType ==
    ASSUME NEW a \in Acks, NEW r \in Positions
    PROVE  LinkUp(a, r).pos \in Positions
BY DEF LinkUp, Acks, Positions, Pos, NoPos

\* Forgetting a connection keeps the types.
LEMMA ForgetType ==
    ASSUME TypeOK, NEW c \in Conns, Forget(c)
    PROVE  /\ phase' \in [Conns -> Phases] /\ req' \in [Conns -> Positions]
           /\ ack' \in [Conns -> Acks] /\ live' \in [Conns -> BOOLEAN]
           /\ at' \in [Conns -> Nat] /\ done' \in [Conns -> Nat]
           /\ lastSent' \in [Conns -> Nat] /\ wroteSince' \in [Conns -> BOOLEAN]
           /\ wire' \in [Conns -> Seq(Frames)]
<1>1. phase' \in [Conns -> Phases] BY DEF TypeOK, Forget, Phases
<1>2. req' \in [Conns -> Positions] BY DEF TypeOK, Forget, Positions, NoPos
<1>3. ack' \in [Conns -> Acks] BY DEF TypeOK, Forget, Acks, NoAck
<1>4. live' \in [Conns -> BOOLEAN] /\ wroteSince' \in [Conns -> BOOLEAN]
  BY DEF TypeOK, Forget
<1>5. at' \in [Conns -> Nat] /\ done' \in [Conns -> Nat] /\ lastSent' \in [Conns -> Nat]
  BY DEF TypeOK, Forget
<1>6. wire' \in [Conns -> Seq(Frames)] BY DEF TypeOK, Forget
<1> QED BY <1>1, <1>2, <1>3, <1>4, <1>5, <1>6

LEMMA HeadTail ==
    ASSUME NEW S, NEW s \in Seq(S), s # <<>>
    PROVE  /\ Len(s) \in Nat \ {0}
           /\ Head(s) \in S /\ Head(s) = s[1]
           /\ Tail(s) \in Seq(S) /\ Len(Tail(s)) = Len(s) - 1
           /\ \A i \in 1..Len(Tail(s)) : Tail(s)[i] = s[i + 1]
OBVIOUS

LEMMA HeadsType == TypeOK => LogHead \in Nat /\ OldestLocked \in Nat
BY RingAssumption DEF TypeOK, LogHead, OldestLocked

LEMMA TypeInit == Init => TypeOK
<1> SUFFICES ASSUME Init PROVE TypeOK OBVIOUS
<1>1. epoch \in Streams /\ capable \in BOOLEAN /\ logs \in [Streams -> Seq(Kinds)]
  BY BoundsAssumption DEF Init, Streams
<1>2. /\ phase \in [Conns -> Phases] /\ req \in [Conns -> Positions]
      /\ ack \in [Conns -> Acks]
  BY DEF Init, Phases, Positions, Acks, NoPos, NoAck
<1>3. /\ live \in [Conns -> BOOLEAN] /\ wroteSince \in [Conns -> BOOLEAN]
      /\ at \in [Conns -> Nat] /\ done \in [Conns -> Nat] /\ lastSent \in [Conns -> Nat]
      /\ wire \in [Conns -> Seq(Frames)]
  BY DEF Init
<1>4. base \in Positions
  BY SeedsAssumption, BoundsAssumption DEF Init, Positions, NoPos
<1>5. /\ held \in BOOLEAN /\ stream \in Nat /\ offset \in Nat /\ connected \in BOOLEAN
      /\ handling \in Nat /\ registered \in Conns \cup {NoConn}
      /\ delivered \subseteq Nat
  BY <1>4 DEF Init, Positions
<1> QED BY <1>1, <1>2, <1>3, <1>4, <1>5 DEF TypeOK

LEMMA TypeNext == TypeOK /\ [Next]_vars => TypeOK'
<1> SUFFICES ASSUME TypeOK, [Next]_vars PROVE TypeOK' OBVIOUS
<1> USE DEF acceptorVars, handshakeVars, linkVars, dialerVars, historyVars
<1>1. ASSUME NEW k \in Kinds, LogAppend(k) PROVE TypeOK'
  BY <1>1 DEF TypeOK, LogAppend, LogHead
<1>2. ASSUME NEW c \in Conns, Dial(c) \/ Ask(c) PROVE TypeOK'
  <2>1. Request \in Positions BY DEF TypeOK, Request, Positions, Pos, NoPos
  <2>2. phase' \in [Conns -> Phases] BY <1>2 DEF TypeOK, Dial, Ask, Phases
  <2>3. req' \in [Conns -> Positions] BY <1>2, <2>1 DEF TypeOK, Dial, Ask
  <2> QED BY <1>2, <2>2, <2>3 DEF TypeOK, Dial, Ask
<1>3. ASSUME NEW c \in Conns, Decide(c) PROVE TypeOK'
  <2>1. LogHead \in Nat /\ OldestLocked \in Nat BY HeadsType
  <2>2. req[c] \in Positions BY DEF TypeOK
  <2>3. epoch \in Nat BY DEF TypeOK, Streams
  <2> DEFINE d == DecideResume(req[c], OldestLocked, LogHead)
  <2>4. /\ d \in [status : {"none", "reset", "replaying"}, after : Nat, rhead : Nat]
        /\ StartCursor(d) \in Nat
    BY <2>1, <2>2, DecideType
  <2> HIDE DEF d
  <2>5. [stream |-> IF capable THEN epoch ELSE 0, head |-> 0,
         status |-> d.status, after |-> d.after, rhead |-> d.rhead] \in Acks
    BY <2>3, <2>4 DEF Acks
  <2>6. /\ ack' \in [Conns -> Acks] /\ at' \in [Conns -> Nat] /\ done' \in [Conns -> Nat]
        /\ phase' \in [Conns -> Phases]
    BY <1>3, <2>4, <2>5 DEF TypeOK, Decide, d, Phases
  <2> QED BY <1>3, <2>6 DEF TypeOK, Decide
<1>4. ASSUME NEW c \in Conns, Accept(c) PROVE TypeOK'
  <2>1. phase' \in [Conns -> Phases] BY <1>4 DEF TypeOK, Accept, Phases
  <2>2. [ack[c] EXCEPT !.head = LogHead] \in Acks BY HeadsType DEF TypeOK, Acks
  <2>3. ack' \in [Conns -> Acks] BY <1>4, <2>2 DEF TypeOK, Accept
  <2>4. live' \in [Conns -> BOOLEAN] BY <1>4 DEF TypeOK, Accept
  <2> QED BY <1>4, <2>1, <2>3, <2>4 DEF TypeOK, Accept
<1>5. ASSUME NEW c \in Conns, Discard(c) \/ Abandon(c) \/ LinkDown(c) PROVE TypeOK'
  BY <1>5, ForgetType DEF TypeOK, Discard, Abandon, LinkDown
<1>6. ASSUME NEW c \in Conns, Register(c) PROVE TypeOK'
  <2> DEFINE up == LinkUp(ack[c], req[c])
  <2>1. up.pos \in Positions BY LinkUpType DEF TypeOK
  <2> HIDE DEF up
  <2>2. /\ phase' \in [Conns -> Phases] /\ req' \in [Conns -> Positions]
        /\ ack' \in [Conns -> Acks]
    BY <1>6 DEF TypeOK, Register, Phases, Positions, Acks, NoPos, NoAck
  <2>3. /\ held' \in BOOLEAN /\ stream' \in Nat /\ offset' \in Nat /\ connected' \in BOOLEAN
        /\ base' \in Positions /\ delivered' \subseteq Nat /\ registered' \in Conns
    BY <1>6, <2>1 DEF TypeOK, Register, up, Positions
  <2> QED BY <1>6, <2>2, <2>3 DEF TypeOK, Register
<1>7. ASSUME NEW c \in Conns, ReadBatch(c) PROVE TypeOK'
  <2>1. at' \in [Conns -> Nat] BY <1>7, HeadsType, BatchAssumption DEF TypeOK, ReadBatch
  <2> QED BY <1>7, <2>1 DEF TypeOK, ReadBatch
<1>8. ASSUME NEW c \in Conns, NEW f \in Frames, Write(c, f)
      PROVE  wire' \in [Conns -> Seq(Frames)] /\ lastSent' \in [Conns -> Nat]
  <2>1. f.off \in Nat BY DEF Frames
  <2> QED BY <1>8, <2>1 DEF TypeOK, Write
<1>9. ASSUME NEW c \in Conns, Lagged(c) \/ Send(c) \/ Heartbeat(c) PROVE TypeOK'
  <2>1. \/ UNCHANGED <<wire, lastSent>>
        \/ \E f \in Frames : Write(c, f)
    <3>1. CASE Lagged(c)
      <4>1. Frame("reset", at[c], LogHead) \in Frames
        BY HeadsType DEF TypeOK, Frame, Frames
      <4> QED BY <3>1, <4>1 DEF Lagged
    <3>2. CASE Send(c)
      <4>1. FrameOf(ack[c].stream, done[c] + 1) \in Frames
        BY DEF TypeOK, FrameOf, Frame, Frames
      <4> QED BY <3>2, <4>1 DEF Send
    <3>3. CASE Heartbeat(c)
      <4>1. Frame("position", at[c], at[c]) \in Frames
        BY DEF TypeOK, Frame, Frames
      <4> QED BY <3>3, <4>1 DEF Heartbeat
    <3> QED BY <1>9, <3>1, <3>2, <3>3
  <2>2. wire' \in [Conns -> Seq(Frames)] /\ lastSent' \in [Conns -> Nat]
    BY <1>8, <2>1 DEF TypeOK
  <2>3. at' \in [Conns -> Nat] BY <1>9, HeadsType DEF TypeOK, Lagged, Send, Heartbeat
  <2>4. done' \in [Conns -> Nat]
    <3>1. CASE Lagged(c) BY <3>1, HeadsType DEF TypeOK, Lagged
    <3>2. CASE Send(c)
      <4>1. done[c] + 1 \in Nat BY DEF TypeOK
      <4> QED BY <3>2, <4>1 DEF TypeOK, Send
    <3>3. CASE Heartbeat(c) BY <3>3 DEF TypeOK, Heartbeat
    <3> QED BY <1>9, <3>1, <3>2, <3>3
  <2>5. wroteSince' \in [Conns -> BOOLEAN] BY <1>9 DEF TypeOK, Lagged, Send, Heartbeat
  <2> QED BY <1>9, <2>2, <2>3, <2>4, <2>5 DEF TypeOK, Lagged, Send, Heartbeat
<1>11. ASSUME NEW c \in Conns, OnEvent(c) \/ OnReset(c) \/ OnPosition(c) PROVE TypeOK'
  <2>1. wire[c] # <<>> /\ wire[c] \in Seq(Frames)
    BY <1>11 DEF TypeOK, OnEvent, OnReset, OnPosition, Reading
  <2>2. Head(wire[c]) \in Frames /\ Tail(wire[c]) \in Seq(Frames)
    BY <2>1, HeadTail
  <2>3. Head(wire[c]).off \in Nat BY <2>2 DEF Frames
  <2>4. wire' \in [Conns -> Seq(Frames)]
    BY <1>11, <2>2 DEF TypeOK, OnEvent, OnReset, OnPosition, Consume
  <2>5. offset' \in Nat /\ handling' \in Nat
    BY <1>11, <2>3 DEF TypeOK, OnEvent, OnReset, OnPosition
  <2>6. Pos(stream, Head(wire[c]).off) \in Positions BY <2>3 DEF TypeOK, Pos, Positions
  <2>7. base' \in Positions BY <1>11, <2>6 DEF TypeOK, OnEvent, OnReset, OnPosition
  <2>8. delivered' \subseteq Nat BY <1>11 DEF TypeOK, OnEvent, OnReset, OnPosition
  <2> QED BY <1>11, <2>4, <2>5, <2>7, <2>8 DEF TypeOK, OnEvent, OnReset, OnPosition
<1>12. ASSUME NEW c \in Conns, RefuseReset(c) PROVE TypeOK'
  <2>1. live' \in [Conns -> BOOLEAN] BY <1>12 DEF TypeOK, RefuseReset
  <2>2. wire' \in [Conns -> Seq(Frames)] BY <1>12 DEF TypeOK, RefuseReset
  <2> QED BY <1>12, <2>1, <2>2 DEF TypeOK, RefuseReset, historyVars
<1>13. CASE HandlersReturn
  BY <1>13 DEF TypeOK, HandlersReturn
<1>14. ASSUME NEW c \in Conns, Cut(c) PROVE TypeOK'
  BY <1>14 DEF TypeOK, Cut
<1>15. CASE Restart
  <2>1. epoch' \in Streams BY <1>15, BoundsAssumption DEF TypeOK, Restart, Streams
  <2> QED BY <1>15, <2>1 DEF TypeOK, Restart
<1>16. CASE UNCHANGED vars
  BY <1>16 DEF TypeOK, vars
<1> QED
  BY <1>1, <1>2, <1>3, <1>4, <1>5, <1>6, <1>7, <1>9, <1>11, <1>12, <1>13,
     <1>14, <1>15, <1>16 DEF Next, Handshake, Writer, Reader

\* Types: cursors, offsets and frames stay well formed whatever the
\* connections, the ring and the seeds are.
THEOREM TypeCorrect == Spec => []TypeOK
BY TypeInit, TypeNext, PTL DEF Spec

-----------------------------------------------------------------------------
(***************************************************************************)
(* The gap signal.  NoSilentLoss follows the reader along the wire, so it  *)
(* needs WireComplete, and that needs what each connection's handshake and *)
(* writer know: where its cursor started, that only a live writer's stream *)
(* is the current one, and that nothing on the wire is beyond the log      *)
(* (entries at or below its head never change).                            *)
(***************************************************************************)
NotAcked == {"idle", "dialed", "asked", "decided"}

\* What holds of connection d's handshake and writer.
CursorInv(d) ==
    /\ ack[d].stream \in Streams \cup {0}
    /\ phase[d] \in NotAcked => wire[d] = <<>> /\ ~live[d]
    /\ phase[d] = "up" => registered = d /\ ack[d].stream = stream
    /\ phase[d] \in {"decided", "acked"} /\ ack[d].stream # 0 /\ ack[d].status = "replaying"
         => req[d] = Pos(ack[d].stream, ack[d].after)
    /\ phase[d] = "decided" /\ ack[d].stream # 0
         => /\ ack[d].stream = epoch
            /\ done[d] = StartCursor(ack[d])
            /\ at[d] = done[d]
            /\ done[d] <= LogHead
    /\ live[d] /\ ack[d].stream # 0
         => ack[d].stream = epoch /\ done[d] <= at[d] /\ at[d] <= LogHead

\* Frame f of stream s names what is in the log.
InLog(f, s) ==
    /\ f.off <= Len(logs[s])
    /\ f.kind = "event" => f.off \in 1..Len(logs[s]) /\ logs[s][f.off] = "event"

\* WireComplete for one connection, and its frames are in the log.
WireInv(d) ==
    phase[d] \in {"acked", "up"} /\ ack[d].stream # 0 =>
      /\ \A i \in 1..Len(wire[d]) : /\ InLog(wire[d][i], ack[d].stream)
                                    /\ Covered(d, i, wire[d][i].off)
      /\ live[d] => Covered(d, Len(wire[d]), done[d])

\* The registered link is up, and a held position that moved since the last
\* invalidation is within its stream.
PosInv ==
    /\ registered # NoConn => phase[registered] = "up"
    /\ held => /\ stream \in Streams
               /\ base.off = offset \/ offset <= Len(logs[stream])

IInv ==
    /\ TypeOK
    /\ NoSilentLoss
    /\ PosInv
    /\ \A d \in Conns : CursorInv(d) /\ WireInv(d)

-----------------------------------------------------------------------------
(* Lemmas about one connection. *)

LEMMA StartType == ASSUME TypeOK, NEW d \in Conns PROVE StartOf(d) \in Nat
<1>1. LinkUp(ack[d], req[d]).pos \in Positions BY LinkUpType DEF TypeOK
<1> QED BY <1>1 DEF StartOf, TypeOK, Positions

\* Where a stream connection's frames pick up, spelled out.
LEMMA LinkUpPos ==
    ASSUME NEW a \in Acks, NEW r \in Positions, a.stream # 0
    PROVE  LinkUp(a, r).pos =
             IF a.status = "none" THEN Pos(a.stream, a.head)
             ELSE IF a.status = "reset" THEN Pos(a.stream, a.rhead)
             ELSE IF r.stream # a.stream THEN Pos(a.stream, a.head)
             ELSE Pos(a.stream, a.after)
BY DEF LinkUp, Acks, Positions, Pos

LEMMA StartSame ==
    ASSUME NEW d \in Conns, TypeOK, TypeOK',
           phase'[d] = phase[d], ack'[d] = ack[d], req'[d] = req[d],
           phase[d] = "up" => offset' = offset,
           ack[d].stream # 0
    PROVE  StartOf(d)' = StartOf(d)
<1>1. CASE phase[d] = "up" BY <1>1 DEF StartOf
<1>2. CASE phase[d] # "up"
  <2>1. ack[d] \in Acks BY DEF TypeOK
  <2>2. LinkUp(ack[d], req[d])'.pos = LinkUp(ack[d], req[d]).pos
    BY <2>1 DEF LinkUp, Acks
  <2> QED BY <1>2, <2>2 DEF StartOf
<1> QED BY <1>1, <1>2

\* A step that leaves a connection and the log alone keeps its invariants.
LEMMA Untouched ==
    ASSUME TypeOK, TypeOK', NEW d \in Conns, CursorInv(d), WireInv(d),
           logs' = logs, epoch' = epoch,
           phase'[d] = phase[d], req'[d] = req[d], ack'[d] = ack[d], live'[d] = live[d],
           at'[d] = at[d], done'[d] = done[d], wire'[d] = wire[d],
           phase[d] = "up" => registered' = registered /\ stream' = stream /\ offset' = offset
    PROVE  CursorInv(d)' /\ WireInv(d)'
<1>1. CursorInv(d)' BY DEF CursorInv, LogHead, StartCursor
<1>2. WireInv(d)'
  <2> SUFFICES ASSUME phase[d] \in {"acked", "up"}, ack[d].stream # 0 PROVE WireInv(d)'
    BY DEF WireInv
  <2>1. StartOf(d)' = StartOf(d) BY StartSame
  <2> QED BY <2>1 DEF WireInv, InLog, Covered
<1> QED BY <1>1, <1>2

\* A connection that is forgotten.
LEMMA Forgotten ==
    ASSUME TypeOK, NEW c \in Conns, Forget(c)
    PROVE  CursorInv(c)' /\ WireInv(c)'
<1>1. /\ phase'[c] = "idle" /\ ack'[c] = NoAck /\ wire'[c] = <<>> /\ live'[c] = FALSE
  BY DEF TypeOK, Forget
<1>2. ack'[c].stream = 0 BY <1>1 DEF NoAck
<1> QED BY <1>1, <1>2 DEF CursorInv, WireInv, NotAcked

\* A frame that accounts for all the writer passes with it keeps the wire
\* complete.
LEMMA Appended ==
    ASSUME TypeOK, TypeOK', NEW c \in Conns, CursorInv(c), WireInv(c),
           phase[c] \in {"acked", "up"}, live[c], ack[c].stream # 0,
           logs' = logs, phase' = phase, req' = req, ack' = ack, offset' = offset,
           NEW f \in Frames, wire'[c] = Append(wire[c], f),
           InLog(f, ack[c].stream), f.off = done'[c],
           \A o \in done[c] + 1 .. f.off : logs[ack[c].stream][o] = "filtered" \/ Covers(f, o)
    PROVE  WireInv(c)'
<1>a. wire[c] \in Seq(Frames) /\ Len(wire[c]) \in Nat BY DEF TypeOK
<1>b. PICK n \in Nat : n = Len(wire[c]) BY <1>a
<1>c. PICK s : s = ack[c].stream OBVIOUS
<1>1. wire[c] \in Seq(Frames) /\ n = Len(wire[c]) /\ s = ack[c].stream /\ s = ack'[c].stream
  BY <1>a, <1>b, <1>c
<1>2. /\ Len(wire'[c]) = n + 1
      /\ wire'[c][n + 1] = f
      /\ \A i \in 1..n : wire'[c][i] = wire[c][i]
  BY <1>1
<1>3. StartOf(c)' = StartOf(c) /\ StartOf(c) \in Nat BY StartSame, StartType
<1>4. done[c] \in Nat /\ f.off \in Nat BY DEF TypeOK, Frames
<1>5. ASSUME NEW i \in 1..n PROVE InLog(wire[c][i], s)' /\ Covered(c, i, wire[c][i].off)'
  <2>1. InLog(wire[c][i], s) /\ Covered(c, i, wire[c][i].off) BY <1>1 DEF WireInv
  <2>2. InLog(wire[c][i], s)' BY <1>2, <1>5, <2>1 DEF InLog
  <2>3. Covered(c, i, wire[c][i].off)'
    BY <1>1, <1>2, <1>3, <1>5, <2>1 DEF Covered, Covers
  <2> QED BY <2>2, <2>3
<1>6. InLog(f, s)' BY <1>1 DEF InLog
<1>7. \A o \in StartOf(c) + 1 .. f.off :
         logs[s][o] = "filtered" \/ \E j \in 1..n + 1 : Covers(wire'[c][j], o)
  <2> SUFFICES ASSUME NEW o \in StartOf(c) + 1 .. f.off, logs[s][o] # "filtered"
               PROVE  \E j \in 1..n + 1 : Covers(wire'[c][j], o)
    OBVIOUS
  <2>1. CASE o <= done[c]
    <3>1. Covered(c, n, done[c]) BY <1>1 DEF WireInv
    <3>2. o \in StartOf(c) + 1 .. done[c] BY <1>3, <1>4, <2>1
    <3>3. PICK j \in 1..n : Covers(wire[c][j], o) BY <1>1, <3>1, <3>2 DEF Covered
    <3>4. j \in 1..n + 1 /\ Covers(wire'[c][j], o) BY <1>1, <1>2, <3>3
    <3> QED BY <3>4
  <2>2. CASE o > done[c]
    <3>1. Covers(f, o) BY <1>1, <1>3, <1>4, <2>2
    <3>2. n + 1 \in 1..n + 1 /\ Covers(wire'[c][n + 1], o) BY <1>1, <1>2, <3>1
    <3> QED BY <3>2
  <2>3. o \in Nat BY <1>3, <1>4
  <2>4. o <= done[c] \/ o > done[c] BY <1>4, <2>3
  <2> QED BY <2>1, <2>2, <2>4, Zenon
<1>8. Covered(c, n + 1, f.off)' BY <1>1, <1>3, <1>7 DEF Covered
<1>9. ASSUME NEW i \in 1..n + 1
      PROVE  InLog(wire[c][i], s)' /\ Covered(c, i, wire[c][i].off)'
  <2>1. CASE i = n + 1 BY <1>2, <1>6, <1>8, <2>1
  <2>2. CASE i \in 1..n BY <1>2, <1>5, <2>2
  <2> QED BY <1>b, <2>1, <2>2
<1> QED BY <1>1, <1>2, <1>8, <1>9 DEF WireInv

\* A frame is read: nothing beyond the new position depended on it.
LEMMA Consumed ==
    ASSUME TypeOK, TypeOK', NEW c \in Conns, WireInv(c), phase[c] = "up",
           logs' = logs, phase' = phase, ack' = ack, live' = live, done' = done,
           wire[c] # <<>>, wire'[c] = Tail(wire[c]),
           offset <= offset',
           \A o \in Nat : Covers(Head(wire[c]), o) => o <= offset'
    PROVE  WireInv(c)'
<1> SUFFICES ASSUME ack[c].stream # 0 PROVE WireInv(c)' BY DEF WireInv
<1>a. wire[c] \in Seq(Frames) /\ Len(wire[c]) \in Nat BY DEF TypeOK
<1>b. PICK n \in Nat : n = Len(wire[c]) BY <1>a
<1>c. PICK s : s = ack[c].stream OBVIOUS
<1>1. wire[c] \in Seq(Frames) /\ n = Len(wire[c]) /\ s = ack[c].stream /\ s = ack'[c].stream
  BY <1>a, <1>b, <1>c
<1>2. /\ n \in Nat \ {0}
      /\ Head(wire[c]) = wire[c][1]
      /\ Len(wire'[c]) = n - 1
      /\ \A i \in 1..n - 1 : wire'[c][i] = wire[c][i + 1]
  BY <1>1, HeadTail
<1>3. StartOf(c) = offset /\ StartOf(c)' = offset' BY DEF StartOf
<1>4. offset \in Nat /\ offset' \in Nat BY DEF TypeOK
<1>5. ASSUME NEW k \in 0..n - 1, NEW to \in Nat, Covered(c, k + 1, to)
      PROVE  \A o \in offset' + 1 .. to :
               logs[s][o] = "filtered" \/ \E j \in 1..k : Covers(wire'[c][j], o)
  <2> SUFFICES ASSUME NEW o \in offset' + 1 .. to, logs[s][o] # "filtered"
               PROVE  \E j \in 1..k : Covers(wire'[c][j], o)
    OBVIOUS
  <2>1. o \in offset + 1 .. to /\ o \in Nat /\ o > offset' BY <1>4
  <2>2. PICK j \in 1..k + 1 : Covers(wire[c][j], o) BY <1>1, <1>3, <1>5, <2>1 DEF Covered
  <2>3. j # 1 BY <1>2, <1>4, <2>1, <2>2
  <2>4. j - 1 \in 1..k /\ j - 1 \in 1..n - 1 /\ wire'[c][j - 1] = wire[c][(j - 1) + 1]
    BY <1>2, <2>2, <2>3
  <2>5. Covers(wire'[c][j - 1], o) BY <1>2, <2>2, <2>4
  <2> QED BY <2>4, <2>5
<1>6. ASSUME NEW i \in 1..n - 1
      PROVE  InLog(wire[c][i], s)' /\ Covered(c, i, wire[c][i].off)'
  <2>1. i + 1 \in 1..n /\ wire'[c][i] = wire[c][i + 1] BY <1>2
  <2>2. InLog(wire[c][i + 1], s) /\ Covered(c, i + 1, wire[c][i + 1].off)
    BY <1>1, <2>1 DEF WireInv
  <2>a. wire[c][i + 1] \in Frames BY <1>1, <2>1
  <2>3. wire[c][i + 1].off \in Nat BY <2>a DEF Frames
  <2>4. i \in 0..n - 1 BY <1>2
  <2>5. Covered(c, i, wire[c][i].off)'
    BY <1>1, <1>3, <1>5, <2>1, <2>2, <2>3, <2>4 DEF Covered
  <2>6. InLog(wire[c][i], s)' BY <2>1, <2>2 DEF InLog
  <2> QED BY <2>5, <2>6
<1>7. live[c] => Covered(c, n - 1, done[c])'
  <2> SUFFICES ASSUME live[c] PROVE Covered(c, n - 1, done[c])' OBVIOUS
  <2>1. Covered(c, n, done[c]) BY <1>1 DEF WireInv
  <2>2. n - 1 \in 0..n - 1 /\ (n - 1) + 1 = n /\ done[c] \in Nat BY <1>2 DEF TypeOK
  <2>3. \A o \in offset' + 1 .. done[c] :
          logs[s][o] = "filtered" \/ \E j \in 1..n - 1 : Covers(wire'[c][j], o)
    BY <1>5, <2>1, <2>2
  <2> QED BY <1>1, <1>3, <2>3 DEF Covered
<1> QED BY <1>1, <1>2, <1>6, <1>7 DEF WireInv

-----------------------------------------------------------------------------
(* Each action preserves the invariant. *)

\* The dialer's part, when a step leaves it and the log alone.
LEMMA PositionSame ==
    ASSUME IInv, UNCHANGED <<logs, registered, held, stream, offset, handling, base, delivered>>,
           registered # NoConn => phase'[registered] = "up"
    PROVE  NoSilentLoss' /\ PosInv'
BY DEF IInv, NoSilentLoss, PosInv

\* The connections, when a step touches c only.
LEMMA OthersSame ==
    ASSUME IInv, TypeOK', NEW c \in Conns, logs' = logs, epoch' = epoch,
           \A d \in Conns \ {c} :
              /\ phase'[d] = phase[d] /\ req'[d] = req[d] /\ ack'[d] = ack[d]
              /\ live'[d] = live[d] /\ at'[d] = at[d] /\ done'[d] = done[d]
              /\ wire'[d] = wire[d]
              /\ phase[d] = "up" =>
                   registered' = registered /\ stream' = stream /\ offset' = offset,
           CursorInv(c)', WireInv(c)'
    PROVE  \A d \in Conns : CursorInv(d)' /\ WireInv(d)'
<1> SUFFICES ASSUME NEW d \in Conns, d # c PROVE CursorInv(d)' /\ WireInv(d)' OBVIOUS
<1>1. TypeOK /\ CursorInv(d) /\ WireInv(d) BY DEF IInv
<1> QED BY <1>1, Untouched

\* The log only grows.
LEMMA LogGrows ==
    ASSUME TypeOK, NEW k \in Kinds, LogAppend(k), NEW s \in Streams
    PROVE  /\ Len(logs[s]) \in Nat /\ Len(logs'[s]) \in Nat
           /\ Len(logs[s]) <= Len(logs'[s])
           /\ \A o \in 1..Len(logs[s]) : logs'[s][o] = logs[s][o]
<1>1. logs[s] \in Seq(Kinds) BY DEF TypeOK
<1>2. logs'[s] = logs[s] \/ logs'[s] = Append(logs[s], k) BY DEF TypeOK, LogAppend
<1> QED BY <1>1, <1>2

LEMMA AppendStep ==
    ASSUME IInv, TypeOK', NEW k \in Kinds, LogAppend(k)
    PROVE  IInv'
<1> USE DEF acceptorVars, handshakeVars, linkVars, dialerVars, historyVars
<1>1. TypeOK BY DEF IInv
<1>2. /\ UNCHANGED <<epoch, phase, req, ack, live, at, done, wire, registered, held, stream,
                     offset, handling, base, delivered>>
  BY DEF LogAppend
<1>3. NoSilentLoss' /\ PosInv'
  <2>1. PosInv'
    <3>1. held => Len(logs[stream]) \in Nat /\ Len(logs[stream]) <= Len(logs'[stream])
                  /\ Len(logs'[stream]) \in Nat
      BY <1>1, LogGrows DEF IInv, PosInv
    <3>2. offset \in Nat BY <1>1 DEF TypeOK
    <3> QED BY <1>2, <3>1, <3>2 DEF IInv, PosInv
  <2>2. ASSUME held, NEW o \in base.off + 1 .. offset PROVE logs'[stream][o] = logs[stream][o]
    <3>1. base.off \in Nat /\ offset \in Nat BY <1>1 DEF TypeOK, Positions
    <3>2. stream \in Streams /\ offset <= Len(logs[stream])
      BY <2>2, <3>1 DEF IInv, PosInv
    <3>3. /\ Len(logs[stream]) \in Nat
          /\ \A i \in 1..Len(logs[stream]) : logs'[stream][i] = logs[stream][i]
      BY <1>1, <3>2, LogGrows
    <3>4. o \in 1..Len(logs[stream]) BY <3>1, <3>2, <3>3
    <3> QED BY <3>3, <3>4
  <2> QED BY <1>2, <2>1, <2>2 DEF IInv, NoSilentLoss
<1>4. ASSUME NEW d \in Conns PROVE CursorInv(d)' /\ WireInv(d)'
  <2>1. CursorInv(d) /\ WireInv(d) BY DEF IInv
  <2>2. LogHead \in Nat /\ LogHead' \in Nat /\ LogHead <= LogHead'
    BY <1>1, <1>2, LogGrows DEF LogHead, TypeOK
  <2>3. at[d] \in Nat /\ done[d] \in Nat BY <1>1 DEF TypeOK
  <2>4. CursorInv(d)' BY <1>2, <2>1, <2>2, <2>3 DEF CursorInv, StartCursor
  <2>5. WireInv(d)'
    <3> SUFFICES ASSUME phase[d] \in {"acked", "up"}, ack[d].stream # 0 PROVE WireInv(d)'
      BY <1>2 DEF WireInv
    <3>a. PICK s \in Streams : s = ack[d].stream /\ s = ack'[d].stream
      BY <1>2, <2>1 DEF CursorInv
    <3>b. StartOf(d)' = StartOf(d) /\ StartOf(d) \in Nat
      BY <1>1, <1>2, StartSame, StartType
    <3>c. /\ Len(logs[s]) \in Nat /\ Len(logs'[s]) \in Nat
          /\ Len(logs[s]) <= Len(logs'[s])
          /\ \A o \in 1..Len(logs[s]) : logs'[s][o] = logs[s][o]
      BY <1>1, LogGrows
    <3>d. wire[d] \in Seq(Frames) /\ wire'[d] = wire[d] BY <1>1, <1>2 DEF TypeOK
    <3>1. ASSUME NEW n \in Nat, NEW to \in Nat, to <= Len(logs[s]), Covered(d, n, to)
          PROVE  Covered(d, n, to)'
      <4>1. \A o \in StartOf(d) + 1 .. to : o \in 1..Len(logs[s])
        BY <3>b, <3>c, <3>1
      <4> QED BY <3>a, <3>b, <3>c, <3>d, <3>1, <4>1 DEF Covered
    <3>2. ASSUME NEW i \in 1..Len(wire[d])
          PROVE  InLog(wire[d][i], s)' /\ Covered(d, i, wire[d][i].off)'
      <4>1. wire[d][i] \in Frames BY <3>d
      <4>2. wire[d][i].off \in Nat /\ i \in Nat BY <3>d, <4>1 DEF Frames
      <4>3. InLog(wire[d][i], s) /\ Covered(d, i, wire[d][i].off)
        BY <2>1, <3>a DEF WireInv
      <4>4. wire[d][i].off <= Len(logs[s]) BY <4>3 DEF InLog
      <4>5. InLog(wire[d][i], s)' BY <3>c, <3>d, <4>2, <4>3 DEF InLog
      <4>6. Covered(d, i, wire[d][i].off)' BY <3>1, <3>d, <4>2, <4>3, <4>4
      <4> QED BY <4>5, <4>6
    <3>3. live[d] => Covered(d, Len(wire[d]), done[d])'
      <4> SUFFICES ASSUME live[d] PROVE Covered(d, Len(wire[d]), done[d])' OBVIOUS
      <4>1. Covered(d, Len(wire[d]), done[d]) BY <2>1 DEF WireInv
      <4>2. done[d] <= Len(logs[s]) BY <2>1, <2>2, <2>3, <3>a DEF CursorInv, LogHead
      <4>3. Len(wire[d]) \in Nat BY <3>d
      <4> QED BY <1>2, <2>3, <3>1, <3>d, <4>1, <4>2, <4>3
    <3> QED BY <1>2, <3>a, <3>d, <3>2, <3>3 DEF WireInv
  <2> QED BY <2>4, <2>5
<1> QED BY <1>3, <1>4 DEF IInv

LEMMA AskStep ==
    ASSUME IInv, TypeOK', NEW c \in Conns, Dial(c) \/ Ask(c)
    PROVE  IInv'
<1> USE DEF acceptorVars, handshakeVars, linkVars, dialerVars, historyVars
<1>1. TypeOK /\ CursorInv(c) BY DEF IInv
<1>2. /\ UNCHANGED <<logs, epoch, ack, live, at, done, wire, registered, held, stream, offset,
                     handling, base, delivered>>
      /\ phase[c] \in {"idle", "dialed"} /\ phase'[c] \in {"dialed", "asked"}
      /\ \A d \in Conns \ {c} : phase'[d] = phase[d] /\ req'[d] = req[d]
  BY <1>1 DEF Dial, Ask, TypeOK
<1>3. CursorInv(c)' /\ WireInv(c)' BY <1>1, <1>2 DEF CursorInv, WireInv, NotAcked
<1>4. \A d \in Conns : CursorInv(d)' /\ WireInv(d)' BY <1>2, <1>3, OthersSame
<1>5. registered # NoConn => phase'[registered] = "up"
  BY <1>1, <1>2 DEF IInv, PosInv, TypeOK
<1> QED BY <1>2, <1>4, <1>5, PositionSame DEF IInv

LEMMA DecideStep ==
    ASSUME IInv, TypeOK', NEW c \in Conns, Decide(c)
    PROVE  IInv'
<1> USE DEF acceptorVars, handshakeVars, linkVars, dialerVars, historyVars
<1> DEFINE r == req[c]
           dec == DecideResume(r, OldestLocked, LogHead)
<1>1. TypeOK /\ CursorInv(c) BY DEF IInv
<1>2. /\ UNCHANGED <<logs, epoch, req, live, wire, registered, held, stream, offset,
                     handling, base, delivered>>
      /\ phase[c] = "asked" /\ phase'[c] = "decided"
      /\ ack'[c] = [stream |-> IF capable THEN epoch ELSE 0, head |-> 0,
                    status |-> dec.status, after |-> dec.after, rhead |-> dec.rhead]
      /\ at'[c] = StartCursor(dec) /\ done'[c] = StartCursor(dec)
      /\ \A d \in Conns \ {c} : /\ phase'[d] = phase[d] /\ ack'[d] = ack[d]
                                /\ at'[d] = at[d] /\ done'[d] = done[d]
  BY <1>1 DEF Decide, TypeOK
<1>3. r \in Positions /\ LogHead \in Nat /\ OldestLocked \in Nat /\ epoch \in Streams
  BY <1>1, HeadsType DEF TypeOK
<1>4. /\ dec.status \in {"none", "reset", "replaying"}
      /\ dec.status # "replaying" => dec.rhead = LogHead
      /\ dec.status = "replaying" => /\ r.stream = epoch /\ dec.after = r.off
                                     /\ dec.after <= LogHead
  BY <1>3 DEF DecideResume, Positions
<1>5. StartCursor(dec) <= LogHead BY <1>3, <1>4 DEF StartCursor
<1>6. dec.status = "replaying" => r = Pos(epoch, dec.after)
  BY <1>3, <1>4 DEF Positions, Pos
<1> HIDE DEF dec, r
<1>7. StartCursor(ack'[c]) = StartCursor(dec) BY <1>2 DEF StartCursor
<1>8. /\ ack'[c].stream \in {0, epoch} /\ ack'[c].status = dec.status
      /\ ack'[c].after = dec.after
  BY <1>2
<1>9. LogHead' = LogHead /\ req'[c] = r BY <1>2 DEF LogHead, r
<1>10. wire'[c] = <<>> /\ ~live'[c] BY <1>1, <1>2 DEF CursorInv, NotAcked
<1>11. CursorInv(c)'
  <2>1. phase'[c] = "decided" /\ epoch' = epoch /\ done'[c] = at'[c] BY <1>2
  <2>2. done'[c] = StartCursor(ack'[c]) /\ done'[c] <= LogHead' BY <1>2, <1>5, <1>7, <1>9
  <2> QED BY <1>3, <1>6, <1>8, <1>9, <1>10, <2>1, <2>2 DEF CursorInv, StartCursor
<1>12. WireInv(c)' BY <1>2 DEF WireInv
<1>13. \A d \in Conns : CursorInv(d)' /\ WireInv(d)' BY <1>2, <1>11, <1>12, OthersSame
<1>14. registered # NoConn => phase'[registered] = "up"
  BY <1>1, <1>2 DEF IInv, PosInv, TypeOK
<1> QED BY <1>2, <1>13, <1>14, PositionSame DEF IInv

LEMMA AcceptStep ==
    ASSUME IInv, TypeOK', NEW c \in Conns, Accept(c)
    PROVE  IInv'
<1> USE DEF acceptorVars, handshakeVars, linkVars, dialerVars, historyVars
<1>1. TypeOK /\ CursorInv(c) BY DEF IInv
<1>2. /\ UNCHANGED <<logs, epoch, req, at, done, wire, registered, held, stream, offset,
                     handling, base, delivered>>
      /\ phase[c] = "decided" /\ phase'[c] = "acked"
      /\ ack'[c] = [ack[c] EXCEPT !.head = LogHead]
      /\ live'[c] = TRUE
      /\ \A d \in Conns \ {c} : /\ phase'[d] = phase[d] /\ ack'[d] = ack[d]
                                /\ live'[d] = live[d]
  BY <1>1 DEF Accept, TypeOK
<1>3. ack[c] \in Acks /\ req[c] \in Positions /\ LogHead \in Nat /\ done[c] \in Nat
  BY <1>1, HeadsType DEF TypeOK
<1>4. /\ ack'[c].stream = ack[c].stream /\ ack'[c].status = ack[c].status
      /\ ack'[c].after = ack[c].after /\ ack'[c].rhead = ack[c].rhead
      /\ ack'[c].head = LogHead
  BY <1>2, <1>3 DEF Acks
<1>5. LogHead' = LogHead /\ wire[c] = <<>> BY <1>1, <1>2 DEF LogHead, CursorInv, NotAcked
<1>6. CursorInv(c)'
  BY <1>1, <1>2, <1>3, <1>4, <1>5 DEF CursorInv, NotAcked
<1>7. WireInv(c)'
  <2> SUFFICES ASSUME ack[c].stream # 0 PROVE WireInv(c)' BY <1>4 DEF WireInv
  <2>1. /\ done[c] = StartCursor(ack[c]) /\ done[c] <= LogHead
        /\ ack[c].status = "replaying" => req[c] = Pos(ack[c].stream, ack[c].after)
    BY <1>1, <1>2 DEF CursorInv
  <2>2. ack'[c] \in Acks /\ ack'[c].stream # 0 /\ req'[c] = req[c]
    BY <1>2, <1>4 DEF TypeOK
  <2>3. LinkUp(ack[c], req[c])'.pos.off =
          IF ack[c].status = "none" THEN LogHead
          ELSE IF ack[c].status = "reset" THEN ack[c].rhead
          ELSE IF req[c].stream # ack[c].stream THEN LogHead
          ELSE ack[c].after
    BY <1>3, <1>4, <2>2 DEF LinkUp, Acks, Pos
  <2>4. StartOf(c)' = LinkUp(ack[c], req[c])'.pos.off BY <1>2 DEF StartOf
  <2>5. StartOf(c)' >= done[c]
    BY <1>3, <2>1, <2>3, <2>4 DEF StartCursor, Acks, Pos
  <2>6. StartOf(c)' \in Nat BY <1>3, <2>3, <2>4 DEF Acks
  <2>7. Covered(c, 0, done[c])' BY <1>2, <1>3, <2>5, <2>6 DEF Covered
  <2> QED BY <1>2, <1>5, <2>7 DEF WireInv
<1>8. \A d \in Conns : CursorInv(d)' /\ WireInv(d)' BY <1>2, <1>6, <1>7, OthersSame
<1>9. registered # NoConn => phase'[registered] = "up"
  BY <1>1, <1>2 DEF IInv, PosInv, TypeOK
<1> QED BY <1>2, <1>8, <1>9, PositionSame DEF IInv

LEMMA ForgetStep ==
    ASSUME IInv, TypeOK', NEW c \in Conns, Discard(c) \/ Abandon(c) \/ LinkDown(c)
    PROVE  IInv'
<1> USE DEF acceptorVars, handshakeVars, linkVars, dialerVars, historyVars
<1>1. TypeOK /\ CursorInv(c) BY DEF IInv
<1>2. /\ UNCHANGED <<logs, epoch, held, stream, offset, handling, base, delivered>>
      /\ Forget(c)
  BY DEF Discard, Abandon, LinkDown
<1>3. \A d \in Conns \ {c} :
        /\ phase'[d] = phase[d] /\ req'[d] = req[d] /\ ack'[d] = ack[d]
        /\ live'[d] = live[d] /\ at'[d] = at[d] /\ done'[d] = done[d]
        /\ wire'[d] = wire[d]
  BY <1>1, <1>2 DEF Forget, TypeOK
<1>4. \/ registered' = registered /\ phase[c] # "up"
      \/ registered' = NoConn /\ registered = c
  BY DEF Discard, Abandon, LinkDown
<1>5. \A d \in Conns \ {c} : phase[d] = "up" => registered' = registered
  BY <1>4 DEF IInv, CursorInv
<1>6. \A d \in Conns : CursorInv(d)' /\ WireInv(d)'
  BY <1>1, <1>2, <1>3, <1>5, OthersSame, Forgotten
<1>7. PosInv'
  <2>1. registered' # NoConn => phase'[registered'] = "up"
    BY <1>1, <1>3, <1>4 DEF IInv, PosInv, TypeOK
  <2> QED BY <1>2, <2>1 DEF IInv, PosInv
<1>8. NoSilentLoss' BY <1>2 DEF IInv, NoSilentLoss
<1> QED BY <1>6, <1>7, <1>8 DEF IInv

\* A link comes up: its position is announced, or it is the one held.
LEMMA RegisterStep ==
    ASSUME IInv, TypeOK', NEW c \in Conns, Register(c)
    PROVE  IInv'
<1> USE DEF acceptorVars, handshakeVars, linkVars, dialerVars, historyVars
<1> DEFINE up == LinkUp(ack[c], req[c])
<1>1. TypeOK /\ CursorInv(c) /\ WireInv(c) /\ NoSilentLoss /\ PosInv BY DEF IInv
<1>2. /\ UNCHANGED <<logs, epoch, live, at, done, wire, handling>>
      /\ phase[c] = "acked" /\ phase'[c] = "up" /\ ~Stale(c)
      /\ ack'[c] = [NoAck EXCEPT !.stream = ack[c].stream]
      /\ registered' = c
      /\ held' = (up.pos.stream # 0) /\ stream' = up.pos.stream /\ offset' = up.pos.off
      /\ IF up.gap \/ (~held /\ ~connected)
         THEN base' = up.pos /\ delivered' = {}
         ELSE UNCHANGED <<base, delivered>>
      /\ \A d \in Conns \ {c} : /\ phase'[d] = phase[d] /\ ack'[d] = ack[d]
                                /\ req'[d] = req[d]
  BY <1>1 DEF Register, TypeOK
<1>3. ack[c] \in Acks /\ req[c] \in Positions /\ up.pos \in Positions
  BY <1>1, LinkUpType DEF TypeOK
<1>4. up.pos.stream = ack[c].stream
  BY <1>3 DEF LinkUp, Acks, Pos, NoPos
<1>5. \/ up.gap \/ (~held /\ ~connected)
      \/ /\ held
         /\ up.pos = Pos(stream, offset)
  <2> SUFFICES ASSUME ~up.gap, held \/ connected
               PROVE  held /\ up.pos = Pos(stream, offset)
    OBVIOUS
  <2>1. /\ ack[c].stream # 0 /\ ack[c].status = "replaying"
        /\ req[c].stream = ack[c].stream
        /\ up.pos = Pos(ack[c].stream, ack[c].after)
    BY <1>3 DEF LinkUp, Acks
  <2>2. req[c] = Request BY <1>2, <2>1 DEF Stale
  <2>3. req[c] = Pos(ack[c].stream, ack[c].after) BY <1>1, <1>2, <2>1 DEF CursorInv
  <2>4. held BY <2>1, <2>2 DEF Request, NoPos
  <2> QED BY <2>1, <2>2, <2>3, <2>4 DEF Request
<1> HIDE DEF up
<1>6. NoSilentLoss' /\ PosInv'
  <2>1. registered' # NoConn => phase'[registered'] = "up" BY <1>2
  <2>2. held' => stream' \in Streams BY <1>1, <1>2, <1>4 DEF CursorInv
  <2>3. CASE up.gap \/ (~held /\ ~connected)
    <3>1. base' = up.pos BY <1>2, <2>3
    <3>2. base'.stream = stream' /\ base'.off = offset' /\ offset' \in Nat
      BY <1>2, <1>3, <3>1 DEF Positions
    <3>a. ASSUME NEW n \in Nat PROVE n <= n /\ \A o \in n + 1 .. n : FALSE
      OBVIOUS
    <3>b. base'.off <= offset' /\ \A o \in base'.off + 1 .. offset' : FALSE BY <3>2, <3>a
    <3>3. NoSilentLoss' BY <3>2, <3>b DEF NoSilentLoss
    <3>4. PosInv' BY <2>1, <2>2, <3>2 DEF PosInv
    <3> QED BY <3>3, <3>4
  <2>4. CASE ~(up.gap \/ (~held /\ ~connected))
    <3>1. held /\ up.pos = Pos(stream, offset) BY <1>5, <2>4
    <3>2. stream' = stream /\ offset' = offset BY <1>2, <3>1 DEF Pos
    <3>3. UNCHANGED <<base, delivered>> BY <1>2, <2>4
    <3>4. NoSilentLoss' BY <1>1, <1>2, <3>1, <3>2, <3>3 DEF NoSilentLoss
    <3>5. PosInv' BY <1>1, <1>2, <2>1, <2>2, <3>1, <3>2, <3>3 DEF PosInv
    <3> QED BY <3>4, <3>5
  <2> QED BY <2>3, <2>4
<1>7. ack'[c].stream = ack[c].stream BY <1>2 DEF NoAck
<1>8. CursorInv(c)'
  <2>1. LogHead' = LogHead BY <1>2 DEF LogHead
  <2> QED BY <1>1, <1>2, <1>4, <1>7, <2>1 DEF CursorInv, NotAcked
<1>9. WireInv(c)'
  <2>1. StartOf(c)' = offset' /\ StartOf(c) = up.pos.off BY <1>2 DEF StartOf, up
  <2>2. StartOf(c)' = StartOf(c) BY <1>2, <2>1
  <2> QED BY <1>1, <1>2, <1>7, <2>2 DEF WireInv, InLog, Covered
<1>10. \A d \in Conns : phase[d] # "up"
  <2>1. registered = NoConn BY <1>2 DEF Stale
  <2> QED BY <2>1, ConnsAssumption DEF IInv, CursorInv
<1>11. \A d \in Conns : CursorInv(d)' /\ WireInv(d)' BY <1>2, <1>8, <1>9, <1>10, OthersSame
<1> QED BY <1>6, <1>11 DEF IInv

\* A live stream writer is past the handshake.
LEMMA WriterPhase ==
    ASSUME IInv, NEW c \in Conns, Writing(c)
    PROVE  /\ phase[c] \in {"acked", "up"} /\ live[c] /\ ack[c].stream # 0
           /\ ack[c].stream = epoch /\ done[c] <= at[c] /\ at[c] <= LogHead
           /\ done[c] \in Nat /\ at[c] \in Nat /\ LogHead \in Nat
<1>1. TypeOK /\ CursorInv(c) BY DEF IInv
<1>2. live[c] /\ ack[c].stream # 0 BY DEF Writing
<1>3. phase[c] \in Phases /\ phase[c] \notin NotAcked BY <1>1, <1>2 DEF CursorInv, TypeOK
<1> QED BY <1>1, <1>2, <1>3, HeadsType DEF CursorInv, TypeOK, Phases, NotAcked

LEMMA ReadBatchStep ==
    ASSUME IInv, TypeOK', NEW c \in Conns, ReadBatch(c)
    PROVE  IInv'
<1> USE DEF acceptorVars, handshakeVars, linkVars, dialerVars, historyVars
<1>1. TypeOK /\ CursorInv(c) /\ WireInv(c) BY DEF IInv
<1>2. /\ UNCHANGED <<logs, epoch, phase, req, ack, live, done, wire, registered, held, stream,
                     offset, handling, base, delivered>>
      /\ Writing(c)
      /\ at'[c] = IF at[c] + WriterBatch < LogHead THEN at[c] + WriterBatch ELSE LogHead
      /\ at[c] < LogHead
      /\ \A d \in Conns \ {c} : at'[d] = at[d]
  BY <1>1 DEF ReadBatch, TypeOK
<1>3. LogHead' = LogHead BY <1>2 DEF LogHead
<1>4. done[c] <= at'[c] /\ at'[c] <= LogHead
  BY <1>2, WriterPhase, BatchAssumption
<1>5. CursorInv(c)' BY <1>1, <1>2, <1>3, <1>4, WriterPhase DEF CursorInv
<1>6. StartOf(c)' = StartOf(c) BY <1>1, <1>2, WriterPhase, StartSame
<1>7. WireInv(c)' BY <1>1, <1>2, <1>6 DEF WireInv, InLog, Covered
<1>8. \A d \in Conns : CursorInv(d)' /\ WireInv(d)' BY <1>2, <1>5, <1>7, OthersSame
<1>9. registered # NoConn => phase'[registered] = "up" BY <1>2 DEF IInv, PosInv
<1> QED BY <1>2, <1>8, <1>9, PositionSame DEF IInv

\* What the steps that put a frame on the wire have in common.
LEMMA WriteStep ==
    ASSUME IInv, TypeOK', NEW c \in Conns, Writing(c),
           UNCHANGED <<logs, epoch, phase, req, ack, live, registered, held, stream, offset,
                       handling, base, delivered>>,
           \A d \in Conns \ {c} : at'[d] = at[d] /\ done'[d] = done[d] /\ wire'[d] = wire[d],
           done'[c] <= at'[c], at'[c] <= LogHead,
           WireInv(c)'
    PROVE  IInv'
<1>1. TypeOK /\ CursorInv(c) BY DEF IInv
<1>2. LogHead' = LogHead BY DEF LogHead
<1>3. CursorInv(c)' BY <1>1, <1>2, WriterPhase DEF CursorInv, NotAcked
<1>4. \A d \in Conns : CursorInv(d)' /\ WireInv(d)' BY <1>3, OthersSame
<1>5. registered # NoConn => phase'[registered] = "up" BY DEF IInv, PosInv
<1> QED BY <1>4, <1>5, PositionSame DEF IInv

LEMMA LaggedStep ==
    ASSUME IInv, TypeOK', NEW c \in Conns, Lagged(c)
    PROVE  IInv'
<1> USE DEF acceptorVars, handshakeVars, linkVars, dialerVars, historyVars
<1> DEFINE f == Frame("reset", at[c], LogHead)
<1>1. TypeOK /\ CursorInv(c) /\ WireInv(c) BY DEF IInv
<1>2. /\ UNCHANGED <<logs, epoch, phase, req, ack, live, registered, held, stream, offset,
                     handling, base, delivered>>
      /\ Writing(c) /\ done[c] = at[c]
      /\ at'[c] = LogHead /\ done'[c] = LogHead
      /\ wire'[c] = Append(wire[c], f)
      /\ \A d \in Conns \ {c} : at'[d] = at[d] /\ done'[d] = done[d] /\ wire'[d] = wire[d]
  BY <1>1 DEF Lagged, Write, TypeOK
<1>3. f \in Frames /\ f.kind = "reset" /\ f.after = at[c] /\ f.off = LogHead
  BY <1>2, WriterPhase DEF Frame, Frames
<1> HIDE DEF f
<1>4. InLog(f, ack[c].stream) BY <1>2, <1>3, WriterPhase DEF InLog, LogHead
<1>5. \A o \in done[c] + 1 .. f.off : Covers(f, o)
  BY <1>2, <1>3, WriterPhase DEF Covers
<1>6. WireInv(c)' BY <1>1, <1>2, <1>3, <1>4, <1>5, WriterPhase, Appended
<1> QED BY <1>2, <1>6, WriterPhase, WriteStep

LEMMA SendStep ==
    ASSUME IInv, TypeOK', NEW c \in Conns, Send(c)
    PROVE  IInv'
<1> USE DEF acceptorVars, handshakeVars, linkVars, dialerVars, historyVars
<1>1. TypeOK /\ CursorInv(c) /\ WireInv(c) BY DEF IInv
<1>a. PICK o \in Nat : o = done[c] + 1 BY <1>1 DEF TypeOK
<1>b. PICK s : s = ack[c].stream OBVIOUS
<1>2. /\ UNCHANGED <<logs, epoch, phase, req, ack, live, at, registered, held, stream, offset,
                     handling, base, delivered>>
      /\ Writing(c) /\ done[c] < at[c] /\ done'[c] = o
      /\ IF logs[s][o] = "filtered" THEN wire' = wire
         ELSE wire'[c] = Append(wire[c], FrameOf(s, o))
      /\ \A d \in Conns \ {c} : done'[d] = done[d] /\ wire'[d] = wire[d]
  BY <1>1, <1>a, <1>b DEF Send, Write, TypeOK
<1>3. o <= at[c] /\ o <= LogHead /\ o \in 1..Len(logs[s]) /\ s \in Streams
  BY <1>1, <1>2, <1>a, <1>b, WriterPhase DEF LogHead, TypeOK
<1>4. logs[s][o] \in Kinds BY <1>1, <1>3 DEF TypeOK
<1>5. WireInv(c)'
  <2>1. CASE logs[s][o] = "filtered"
    <3>1. StartOf(c)' = StartOf(c) /\ StartOf(c) \in Nat
      BY <1>1, <1>2, WriterPhase, StartSame, StartType
    <3>2. wire' = wire BY <1>2, <2>1
    <3>3. Covered(c, Len(wire[c]), done[c]) BY <1>1, <1>2, WriterPhase DEF WireInv
    <3>4. \A p \in StartOf(c) + 1 .. o : p = o \/ p \in StartOf(c) + 1 .. done[c]
      BY <1>2, <1>a, <3>1, WriterPhase
    <3>5. \A p \in StartOf(c) + 1 .. o :
            \/ logs[s][p] = "filtered"
            \/ \E j \in 1..Len(wire[c]) : Covers(wire[c][j], p)
      BY <1>b, <2>1, <3>3, <3>4 DEF Covered
    <3>6. Covered(c, Len(wire[c]), done[c])'
      BY <1>2, <1>b, <3>1, <3>2, <3>5 DEF Covered
    <3>7. \A i \in 1..Len(wire[c]) : /\ InLog(wire[c][i], ack[c].stream)'
                                    /\ Covered(c, i, wire[c][i].off)'
      BY <1>1, <1>2, <3>1, <3>2, WriterPhase DEF WireInv, InLog, Covered
    <3> QED BY <3>2, <3>6, <3>7 DEF WireInv
  <2>2. CASE logs[s][o] # "filtered"
    <3> DEFINE f == FrameOf(s, o)
    <3>1. wire'[c] = Append(wire[c], f) BY <1>2, <2>2
    <3>2. \/ f = Frame("event", o, o) /\ logs[s][o] = "event"
          \/ f = Frame("reset", o - 1, o)
      BY <1>4, <2>2 DEF FrameOf, Kinds
    <3>3. f \in Frames /\ f.off = o BY <1>3, <3>2 DEF Frame, Frames
    <3>4. InLog(f, s) BY <1>3, <3>2 DEF InLog, Frame
    <3>5. Covers(f, o) BY <1>3, <3>2 DEF Covers, Frame
    <3> HIDE DEF f
    <3>6. \A p \in done[c] + 1 .. f.off : Covers(f, p)
      BY <1>a, <1>2, <3>3, <3>5, WriterPhase
    <3> QED BY <1>1, <1>2, <1>b, <3>1, <3>3, <3>4, <3>6, WriterPhase, Appended
  <2> QED BY <2>1, <2>2
<1> QED BY <1>2, <1>3, <1>5, WriterPhase, WriteStep

LEMMA HeartbeatStep ==
    ASSUME IInv, TypeOK', NEW c \in Conns, Heartbeat(c)
    PROVE  IInv'
<1> USE DEF acceptorVars, handshakeVars, linkVars, dialerVars, historyVars
<1> DEFINE f == Frame("position", at[c], at[c])
<1>1. TypeOK /\ CursorInv(c) /\ WireInv(c) BY DEF IInv
<1>2. /\ UNCHANGED <<logs, epoch, phase, req, ack, live, at, done, registered, held, stream,
                     offset, handling, base, delivered>>
      /\ Writing(c) /\ done[c] = at[c]
      /\ wire' = wire \/ wire'[c] = Append(wire[c], f)
      /\ \A d \in Conns \ {c} : wire'[d] = wire[d]
  BY <1>1 DEF Heartbeat, Write, TypeOK
<1>3. f \in Frames /\ f.kind = "position" /\ f.off = at[c]
  BY <1>2, WriterPhase DEF Frame, Frames
<1> HIDE DEF f
<1>4. WireInv(c)'
  <2>1. CASE wire' = wire
    <3>1. StartOf(c)' = StartOf(c) BY <1>1, <1>2, WriterPhase, StartSame
    <3> QED BY <1>1, <1>2, <2>1, <3>1 DEF WireInv, InLog, Covered
  <2>2. CASE wire'[c] = Append(wire[c], f)
    <3>1. InLog(f, ack[c].stream) BY <1>2, <1>3, WriterPhase DEF InLog, LogHead
    <3>2. done[c] + 1 .. f.off = {} BY <1>2, <1>3, WriterPhase
    <3> QED BY <1>1, <1>2, <1>3, <2>2, <3>1, <3>2, WriterPhase, Appended
  <2> QED BY <1>2, <2>1, <2>2
<1> QED BY <1>2, <1>4, WriterPhase, WriteStep

\* What the reader knows of the frame it takes from the registered link.
LEMMA ReaderKnows ==
    ASSUME IInv, NEW c \in Conns, registered = c, wire[c] # <<>>
    PROVE  /\ phase[c] = "up" /\ ack[c].stream = stream
           /\ Head(wire[c]) \in Frames /\ Head(wire[c]).off \in Nat /\ offset \in Nat
           /\ held => /\ InLog(Head(wire[c]), stream)
                      /\ \A o \in offset + 1 .. Head(wire[c]).off :
                           logs[stream][o] = "filtered" \/ Covers(Head(wire[c]), o)
<1>1. TypeOK /\ CursorInv(c) /\ WireInv(c) /\ PosInv BY DEF IInv
<1>2. phase[c] = "up" /\ ack[c].stream = stream
  BY <1>1, ConnsAssumption DEF PosInv, CursorInv
<1>3. wire[c] \in Seq(Frames) BY <1>1 DEF TypeOK
<1>4. Head(wire[c]) \in Frames /\ Head(wire[c]) = wire[c][1] /\ 1 \in 1..Len(wire[c])
  BY <1>3, HeadTail
<1>5. Head(wire[c]).off \in Nat /\ offset \in Nat BY <1>1, <1>4 DEF Frames, TypeOK
<1>6. ASSUME held PROVE /\ InLog(Head(wire[c]), stream)
                        /\ \A o \in offset + 1 .. Head(wire[c]).off :
                             logs[stream][o] = "filtered" \/ Covers(Head(wire[c]), o)
  <2>1. stream # 0 BY <1>1, <1>6 DEF PosInv, Streams
  <2>2. InLog(wire[c][1], stream) /\ Covered(c, 1, wire[c][1].off)
    BY <1>1, <1>2, <1>4, <2>1 DEF WireInv
  <2>3. StartOf(c) = offset BY <1>2 DEF StartOf
  <2> QED BY <1>2, <1>4, <2>2, <2>3 DEF Covered
<1> QED BY <1>2, <1>4, <1>5, <1>6

\* What the steps of the reader have in common.
LEMMA ReadStep ==
    ASSUME IInv, TypeOK', NEW c \in Conns, registered = c, wire[c] # <<>>,
           UNCHANGED <<logs, epoch, phase, req, ack, live, at, done, registered, held, stream>>,
           wire' = [wire EXCEPT ![c] = Tail(@)],
           offset <= offset',
           \A o \in Nat : Covers(Head(wire[c]), o) => o <= offset',
           NoSilentLoss', PosInv'
    PROVE  IInv'
<1>1. TypeOK /\ CursorInv(c) /\ WireInv(c) /\ phase[c] = "up" BY ReaderKnows DEF IInv
<1>2. wire'[c] = Tail(wire[c]) /\ \A d \in Conns \ {c} : wire'[d] = wire[d]
  BY <1>1 DEF TypeOK
<1>3. WireInv(c)' BY <1>1, <1>2, Consumed
<1>4. CursorInv(c)' BY <1>1 DEF CursorInv, LogHead, NotAcked
<1>5. \A d \in Conns \ {c} : phase[d] # "up" BY DEF IInv, CursorInv
<1>6. \A d \in Conns : CursorInv(d)' /\ WireInv(d)' BY <1>2, <1>3, <1>4, <1>5, OthersSame
<1> QED BY <1>6 DEF IInv

LEMMA EventStep ==
    ASSUME IInv, TypeOK', NEW c \in Conns, OnEvent(c)
    PROVE  IInv'
<1> USE DEF acceptorVars, handshakeVars, linkVars, dialerVars, historyVars
<1>1. TypeOK /\ NoSilentLoss /\ PosInv BY DEF IInv
<1>a. /\ registered = c /\ handling = 0 /\ wire[c] # <<>> /\ Head(wire[c]).kind = "event"
  BY DEF OnEvent, Reading
<1>b. PICK f \in Frames : f = Head(wire[c]) BY <1>a, ReaderKnows
<1>2. /\ UNCHANGED <<logs, epoch, phase, req, ack, live, at, done, registered, held, stream,
                     base, delivered>>
      /\ wire' = [wire EXCEPT ![c] = Tail(@)]
      /\ \/ f.off <= offset /\ offset' = offset /\ handling' = 0
         \/ f.off > offset /\ offset' = f.off /\ handling' = f.off
  BY <1>a, <1>b, ReaderKnows DEF OnEvent, Consume
<1>3. f.kind = "event" /\ f.off \in Nat /\ offset \in Nat /\ offset' \in Nat
  BY <1>a, <1>b, <1>2, ReaderKnows
<1>4. offset <= offset' /\ f.off <= offset' BY <1>2, <1>3
<1>5. \A o \in Nat : Covers(f, o) => o = f.off BY <1>3 DEF Covers
<1>6. NoSilentLoss'
  <2> SUFFICES ASSUME held, offset' = f.off, f.off > offset, handling' = f.off
               PROVE  NoSilentLoss'
    BY <1>1, <1>2, <1>a DEF NoSilentLoss
  <2>1. base.stream = stream /\ base.off <= offset /\ base.off \in Nat
    BY <1>1 DEF NoSilentLoss, TypeOK, Positions
  <2>2. logs[stream][f.off] = "event" BY <1>3, <1>a, <1>b, ReaderKnows DEF InLog
  <2>3. ASSUME NEW o \in base.off + 1 .. f.off
        PROVE  \/ logs[stream][o] = "filtered"
               \/ logs[stream][o] = "event" /\ (f.off = o \/ o \in delivered)
    <3>0. o \in Nat /\ o # 0 BY <1>3, <2>1
    <3>1. CASE o <= offset
      <4>1. o \in base.off + 1 .. offset BY <1>3, <2>1, <3>1
      <4> QED BY <1>1, <1>a, <3>0, <4>1 DEF NoSilentLoss
    <3>2. CASE o > offset
      <4>1. o \in offset + 1 .. f.off BY <1>3, <2>1, <3>2
      <4>2. logs[stream][o] = "filtered" \/ Covers(f, o) BY <1>a, <1>b, <4>1, ReaderKnows
      <4> QED BY <1>5, <2>2, <3>0, <4>2
    <3>3. o <= offset \/ o > offset BY <1>3, <3>0
    <3> QED BY <3>1, <3>2, <3>3
  <2>4. base.off <= f.off BY <1>3, <2>1
  <2> QED BY <1>2, <2>1, <2>3, <2>4 DEF NoSilentLoss
<1>7. PosInv'
  <2>1. held => f.off <= Len(logs[stream]) BY <1>a, <1>b, ReaderKnows DEF InLog
  <2> QED BY <1>1, <1>2, <2>1 DEF PosInv
<1>8. \A o \in Nat : Covers(Head(wire[c]), o) => o <= offset' BY <1>4, <1>5, <1>b
<1> QED BY <1>2, <1>4, <1>6, <1>7, <1>8, <1>a, ReadStep

LEMMA ResetStep ==
    ASSUME IInv, TypeOK', NEW c \in Conns, OnReset(c)
    PROVE  IInv'
<1> USE DEF acceptorVars, handshakeVars, linkVars, dialerVars, historyVars
<1>1. TypeOK /\ PosInv BY DEF IInv
<1>a. registered = c /\ wire[c] # <<>> /\ Head(wire[c]).kind = "reset"
  BY DEF OnReset, Reading
<1>b. PICK f \in Frames : f = Head(wire[c]) BY <1>a, ReaderKnows
<1>2. /\ UNCHANGED <<logs, epoch, phase, req, ack, live, at, done, registered, held, stream>>
      /\ wire' = [wire EXCEPT ![c] = Tail(@)]
      /\ offset' = f.off /\ f.off >= offset /\ base' = Pos(stream, f.off)
  BY <1>b DEF OnReset, Consume
<1>3. f.kind = "reset" /\ f.off \in Nat /\ offset \in Nat BY <1>a, <1>b, ReaderKnows
<1>4. offset <= offset' BY <1>2, <1>3
<1>5. \A o \in Nat : Covers(f, o) => o <= f.off BY <1>3 DEF Covers
<1>6. base'.stream = stream' /\ base'.off = f.off BY <1>2 DEF Pos
<1>7. NoSilentLoss'
  <2>1. f.off <= f.off /\ \A o \in f.off + 1 .. f.off : FALSE BY <1>3
  <2> QED BY <1>2, <1>6, <2>1 DEF NoSilentLoss
<1>8. PosInv' BY <1>1, <1>2, <1>6 DEF PosInv
<1> QED BY <1>2, <1>4, <1>5, <1>7, <1>8, <1>a, <1>b, ReadStep

LEMMA PositionStep ==
    ASSUME IInv, TypeOK', NEW c \in Conns, OnPosition(c)
    PROVE  IInv'
<1> USE DEF acceptorVars, handshakeVars, linkVars, dialerVars, historyVars
<1>1. TypeOK /\ NoSilentLoss /\ PosInv BY DEF IInv
<1>a. registered = c /\ wire[c] # <<>> /\ Head(wire[c]).kind = "position"
  BY DEF OnPosition, Reading
<1>b. PICK f \in Frames : f = Head(wire[c]) BY <1>a, ReaderKnows
<1>2. /\ UNCHANGED <<logs, epoch, phase, req, ack, live, at, done, registered, held, stream,
                     handling, base, delivered>>
      /\ wire' = [wire EXCEPT ![c] = Tail(@)]
      /\ offset' = IF f.off > offset THEN f.off ELSE offset
  BY <1>b DEF OnPosition, Consume
<1>3. f.kind = "position" /\ f.off \in Nat /\ offset \in Nat BY <1>a, <1>b, ReaderKnows
<1>4. offset <= offset' BY <1>2, <1>3
<1>5. \A o \in Nat : ~Covers(f, o) BY <1>3 DEF Covers
<1>6. NoSilentLoss'
  <2> SUFFICES ASSUME held, f.off > offset, offset' = f.off PROVE NoSilentLoss'
    BY <1>1, <1>2 DEF NoSilentLoss
  <2>1. base.stream = stream /\ base.off <= offset /\ base.off \in Nat
    BY <1>1 DEF NoSilentLoss, TypeOK, Positions
  <2>2. ASSUME NEW o \in base.off + 1 .. f.off
        PROVE  \/ logs[stream][o] = "filtered"
               \/ logs[stream][o] = "event" /\ (handling = o \/ o \in delivered)
    <3>0. o \in Nat BY <1>3, <2>1
    <3>1. CASE o <= offset
      <4>1. o \in base.off + 1 .. offset BY <1>3, <2>1, <3>1
      <4> QED BY <1>1, <4>1 DEF NoSilentLoss
    <3>2. CASE o > offset
      <4>1. o \in offset + 1 .. f.off BY <1>3, <2>1, <3>2
      <4> QED BY <1>5, <1>a, <1>b, <3>0, <4>1, ReaderKnows
    <3>3. o <= offset \/ o > offset BY <1>3, <3>0
    <3> QED BY <3>1, <3>2, <3>3
  <2>3. base.off <= f.off BY <1>3, <2>1
  <2> QED BY <1>2, <2>1, <2>2, <2>3 DEF NoSilentLoss
<1>7. PosInv'
  <2>1. held => f.off <= Len(logs[stream]) BY <1>a, <1>b, ReaderKnows DEF InLog
  <2> QED BY <1>1, <1>2, <2>1 DEF PosInv
<1> QED BY <1>2, <1>4, <1>5, <1>6, <1>7, <1>a, <1>b, ReadStep

\* A connection that loses its writer and some suffix of its wire.
LEMMA CutStep ==
    ASSUME IInv, TypeOK', NEW c \in Conns, Cut(c) \/ RefuseReset(c)
    PROVE  IInv'
<1> USE DEF acceptorVars, handshakeVars, linkVars, dialerVars, historyVars
<1>1. TypeOK /\ CursorInv(c) /\ WireInv(c) BY DEF IInv
<1>2. /\ UNCHANGED <<logs, epoch, phase, req, ack, at, done, registered, held, stream, offset,
                     handling, base, delivered>>
      /\ live'[c] = FALSE
      /\ \A d \in Conns \ {c} : live'[d] = live[d] /\ wire'[d] = wire[d]
  BY <1>1 DEF Cut, RefuseReset, TypeOK
<1>3. /\ Len(wire'[c]) \in Nat /\ Len(wire'[c]) <= Len(wire[c])
      /\ \A i \in 1..Len(wire'[c]) : wire'[c][i] = wire[c][i]
  <2>1. wire[c] \in Seq(Frames) BY <1>1 DEF TypeOK
  <2>2. wire'[c] = <<>> \/ \E k \in 0..Len(wire[c]) : wire'[c] = SubSeq(wire[c], 1, k)
    BY <1>1 DEF Cut, RefuseReset, TypeOK
  <2> QED BY <2>1, <2>2
<1>4. CursorInv(c)'
  <2>1. phase[c] \in NotAcked => wire'[c] = <<>>
    <3> SUFFICES ASSUME phase[c] \in NotAcked PROVE wire'[c] = <<>> OBVIOUS
    <3>1. Len(wire[c]) = 0 BY <1>1 DEF CursorInv
    <3>2. wire'[c] \in Seq(Frames) BY DEF TypeOK
    <3> QED BY <1>3, <3>1, <3>2
  <2> QED BY <1>1, <1>2, <2>1 DEF CursorInv, LogHead, StartCursor
<1>5. WireInv(c)'
  <2> SUFFICES ASSUME phase[c] \in {"acked", "up"}, ack[c].stream # 0 PROVE WireInv(c)'
    BY <1>2 DEF WireInv
  <2>1. StartOf(c)' = StartOf(c) BY <1>1, <1>2, StartSame
  <2>2. ASSUME NEW i \in 1..Len(wire'[c])
        PROVE  InLog(wire[c][i], ack[c].stream)' /\ Covered(c, i, wire[c][i].off)'
    <3>1. i \in 1..Len(wire[c]) /\ wire'[c][i] = wire[c][i]
          /\ \A j \in 1..i : wire'[c][j] = wire[c][j]
      <4>1. Len(wire[c]) \in Nat BY <1>1 DEF TypeOK
      <4> QED BY <1>3, <4>1
    <3>2. InLog(wire[c][i], ack[c].stream) /\ Covered(c, i, wire[c][i].off)
      BY <1>1, <3>1 DEF WireInv
    <3>3. InLog(wire[c][i], ack[c].stream)' BY <1>2, <3>1, <3>2 DEF InLog
    <3>4. Covered(c, i, wire[c][i].off)' BY <1>2, <2>1, <3>1, <3>2 DEF Covered
    <3> QED BY <3>3, <3>4
  <2> QED BY <1>2, <2>2 DEF WireInv
<1>6. \A d \in Conns : CursorInv(d)' /\ WireInv(d)' BY <1>2, <1>4, <1>5, OthersSame
<1>7. registered # NoConn => phase'[registered] = "up" BY <1>2 DEF IInv, PosInv
<1> QED BY <1>2, <1>6, <1>7, PositionSame DEF IInv

LEMMA HandlersStep == ASSUME IInv, TypeOK', HandlersReturn PROVE IInv'
<1> USE DEF acceptorVars, handshakeVars, linkVars, dialerVars, historyVars
<1>1. /\ UNCHANGED <<logs, epoch, phase, req, ack, live, at, done, wire, registered, held,
                     stream, offset, base>>
      /\ delivered' = delivered \cup {handling} /\ handling' = 0
  BY DEF HandlersReturn
<1>2. \A d \in Conns : CursorInv(d)' /\ WireInv(d)' BY <1>1, Untouched DEF IInv
<1>3. NoSilentLoss' BY <1>1 DEF IInv, NoSilentLoss
<1>4. PosInv' BY <1>1 DEF IInv, PosInv
<1> QED BY <1>2, <1>3, <1>4 DEF IInv

\* A restart finds no live writer and no handshake under way.
LEMMA RestartStep == ASSUME IInv, TypeOK', Restart PROVE IInv'
<1> USE DEF acceptorVars, handshakeVars, linkVars, dialerVars, historyVars
<1>1. /\ UNCHANGED <<logs, phase, req, ack, live, at, done, wire, registered, held, stream,
                     offset, handling, base, delivered>>
      /\ \A c \in Conns : ~live[c] /\ phase[c] # "decided"
  BY DEF Restart
<1>2. ASSUME NEW d \in Conns PROVE CursorInv(d)' /\ WireInv(d)'
  <2>1. TypeOK /\ CursorInv(d) /\ WireInv(d) BY DEF IInv
  <2>2. CursorInv(d)' BY <1>1, <2>1 DEF CursorInv
  <2>3. WireInv(d)'
    <3> SUFFICES ASSUME ack[d].stream # 0 PROVE WireInv(d)' BY <1>1 DEF WireInv
    <3>1. StartOf(d)' = StartOf(d) BY <1>1, <2>1, StartSame
    <3> QED BY <1>1, <2>1, <3>1 DEF WireInv, InLog, Covered
  <2> QED BY <2>2, <2>3
<1>3. registered # NoConn => phase'[registered] = "up" BY <1>1 DEF IInv, PosInv
<1> QED BY <1>1, <1>2, <1>3, PositionSame DEF IInv

LEMMA StutterStep == ASSUME IInv, TypeOK', UNCHANGED vars PROVE IInv'
<1>1. UNCHANGED <<logs, epoch, phase, req, ack, live, at, done, wire, registered, held, stream,
                  offset, handling, base, delivered>>
  BY DEF vars, acceptorVars, handshakeVars, linkVars, dialerVars, historyVars
<1>2. \A d \in Conns : CursorInv(d)' /\ WireInv(d)' BY <1>1, Untouched DEF IInv
<1>3. registered # NoConn => phase'[registered] = "up" BY <1>1 DEF IInv, PosInv
<1> QED BY <1>1, <1>2, <1>3, PositionSame DEF IInv

-----------------------------------------------------------------------------
(* The theorems. *)

LEMMA InvInit == Init => IInv
<1> SUFFICES ASSUME Init PROVE IInv OBVIOUS
<1>1. TypeOK BY TypeInit
<1>2. base \in Positions /\ offset = base.off /\ stream = base.stream /\ offset \in Nat
  BY <1>1 DEF Init, TypeOK
<1>3. held => stream \in Streams
  BY <1>2, SeedsAssumption DEF Init, Streams, NoPos
<1>4. NoSilentLoss
  <2>1. offset <= offset /\ \A o \in offset + 1 .. offset : FALSE BY <1>2
  <2> QED BY <1>2, <2>1 DEF NoSilentLoss
<1>5. PosInv BY <1>2, <1>3 DEF PosInv, Init
<1>6. \A d \in Conns : CursorInv(d) /\ WireInv(d)
  BY DEF Init, CursorInv, WireInv, NotAcked, NoAck
<1> QED BY <1>1, <1>4, <1>5, <1>6 DEF IInv

LEMMA InvNext == IInv /\ [Next]_vars => IInv'
<1> SUFFICES ASSUME IInv, [Next]_vars PROVE IInv' OBVIOUS
<1>1. TypeOK' BY TypeNext DEF IInv
<1>2. ASSUME NEW c \in Conns, Handshake(c) PROVE IInv'
  BY <1>1, <1>2, AskStep, DecideStep, AcceptStep, ForgetStep, RegisterStep DEF Handshake
<1>3. ASSUME NEW c \in Conns, Writer(c) PROVE IInv'
  BY <1>1, <1>3, ReadBatchStep, LaggedStep, SendStep, HeartbeatStep DEF Writer
<1>4. ASSUME NEW c \in Conns, Reader(c) PROVE IInv'
  BY <1>1, <1>4, EventStep, ResetStep, CutStep, PositionStep, ForgetStep DEF Reader
<1>5. ASSUME NEW c \in Conns, Abandon(c) \/ Cut(c) PROVE IInv'
  BY <1>1, <1>5, ForgetStep, CutStep
<1>6. ASSUME NEW k \in Kinds, LogAppend(k) PROVE IInv' BY <1>1, <1>6, AppendStep
<1> QED
  BY <1>1, <1>2, <1>3, <1>4, <1>5, <1>6, HandlersStep, RestartStep, StutterStep DEF Next

LEMMA Invariance == Spec => []IInv
BY InvInit, InvNext, PTL DEF Spec

LEMMA InvWire == IInv => WireComplete
BY DEF IInv, WireInv, WireComplete

\* The gap signal is complete for every number of connections, ring and batch
\* size, restarts and seeds: a position never passes an event that was
\* neither handed over nor announced as missed.
THEOREM GapSignal == Spec => []NoSilentLoss
<1>1. IInv => NoSilentLoss BY DEF IInv
<1> QED BY <1>1, Invariance, PTL

\* Whatever prefix of a wire survives a cut, nothing below its last frame is
\* missing from it; and what a writer passed is on its wire.
THEOREM WiresComplete == Spec => []WireComplete
BY Invariance, InvWire, PTL
=============================================================================
