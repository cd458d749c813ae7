---------------------------- MODULE StreamResume ----------------------------
(***************************************************************************)
(* The stream an acceptor sends to one dialer of the bus NetworkAdapter    *)
(* (go/runtime/bus): the acceptor's ring log, the resume handshake, the    *)
(* link writer, the dialer's position and its reader.                      *)
(*                                                                         *)
(* Several connections to the address may be under way at once (a Connect  *)
(* races the reconnect loop); each has its own handshake, its own acceptor *)
(* cursor and its own wire, and at most one of them is registered by the   *)
(* dialer.  A connection may be cut at any moment, losing a suffix of what *)
(* is on its wire; the acceptor may restart, which mints a new stream.     *)
(***************************************************************************)
EXTENDS Naturals, Sequences, FiniteSets

CONSTANTS
    Conns,       \* connections the dialer may have under way to the address
    NoConn,      \* no connection
    RingSize,    \* entries the acceptor's log retains
    WriterBatch, \* entries a writer reads from the log at once
    MaxEpoch,    \* bound: acceptor incarnations, each with its own stream id
    MaxLog,      \* bound: entries appended to one stream
    MaxWire,     \* bound: frames under way on one connection (TCP window)
    Seeds        \* positions WithResumeFrom may seed, NoPos for none

NoPos == [stream |-> 0, off |-> 0]

ASSUME ConnsAssumption == NoConn \notin Conns
ASSUME RingAssumption == RingSize \in Nat \ {0}
ASSUME BatchAssumption == WriterBatch \in Nat \ {0}
ASSUME BoundsAssumption == /\ MaxEpoch \in Nat \ {0}
                           /\ MaxLog \in Nat
                           /\ MaxWire \in Nat
ASSUME SeedsAssumption ==
    Seeds \subseteq {NoPos} \cup [stream : 1..MaxEpoch, off : Nat]

Streams == 1..MaxEpoch

(***************************************************************************)
(* An entry of the log, as one link sees it: an event that passes the      *)
(* link's filters, an event that they drop, or a relay's gap marker.       *)
(***************************************************************************)
Kinds == {"event", "filtered", "marker"}

VARIABLES
    epoch,      \* acceptor: the id of its current stream
    capable,    \* acceptor: it advertises streams (a legacy build does not)
    logs,       \* acceptor: every entry appended, by stream id
    phase,      \* per connection: how far the handshake got
    req,        \* per connection: the resume request sent, NoPos for none
    ack,        \* per connection: the handshake reply
    live,       \* per connection: the acceptor's side still writes
    at,         \* per connection: sendCursor.at
    done,       \* per connection: last entry of the batch the writer passed
    lastSent,   \* per connection: link.lastSent
    wroteSince, \* per connection: link.wroteSince
    wire,       \* per connection: frames sent and not yet read
    registered, \* dialer: n.conns[addr]
    held,       \* dialer: dialerCursor.Held
    stream,     \* dialer: dialerCursor.Stream
    offset,     \* dialer: dialerCursor.Offset
    connected,  \* dialer: peerState.connected (a link was up before)
    handling,   \* dialer: offset whose handlers the read loop runs, or 0
    base,       \* history: position of the last invalidation or fresh start
    delivered   \* history: offsets whose handlers returned since base

acceptorVars == <<epoch, capable, logs>>
handshakeVars == <<phase, req, ack>>
linkVars == <<live, at, done, lastSent, wroteSince, wire>>
dialerVars == <<registered, held, stream, offset, connected, handling>>
historyVars == <<base, delivered>>
vars == <<acceptorVars, handshakeVars, linkVars, dialerVars, historyVars>>

-----------------------------------------------------------------------------
(* The ring log of the current stream. *)

LogHead == Len(logs[epoch])

OldestLocked == IF LogHead <= RingSize THEN 1 ELSE LogHead - RingSize + 1

LogAppend(k) ==
    /\ LogHead < MaxLog
    /\ logs' = [logs EXCEPT ![epoch] = Append(@, k)]
    /\ UNCHANGED <<epoch, capable, handshakeVars, linkVars, dialerVars,
                   historyVars>>

-----------------------------------------------------------------------------
(* Handshake. *)

Pos(s, o) == [stream |-> s, off |-> o]

NoAck == [stream |-> 0, head |-> 0, status |-> "none", after |-> 0, rhead |-> 0]

\* dialerCursor.request: the position to resume from, NoPos when none is held.
Request == IF held THEN Pos(stream, offset) ELSE NoPos

\* The acceptor's decision for a request r, given the Oldest and Head it
\* read; the outcome's cursor is its rhead, except for a replay.
DecideResume(r, old, head) ==
    CASE r.stream = 0       -> [status |-> "none", after |-> 0, rhead |-> head]
      [] r.stream # epoch   -> [status |-> "reset", after |-> r.off, rhead |-> head]
      [] r.off > head       -> [status |-> "reset", after |-> r.off, rhead |-> head]
      [] r.off + 1 < old    -> [status |-> "reset", after |-> r.off, rhead |-> head]
      [] OTHER              -> [status |-> "replaying", after |-> r.off, rhead |-> head]

\* Mutant: the replay starts one entry early.
StartCursorBehind(a) == IF a.status = "replaying" THEN a.after - 1 ELSE a.rhead

StartCursor(a) == IF a.status = "replaying" THEN a.after ELSE a.rhead

\* connect: the duplicate check, then the dial.
Dial(c) ==
    /\ phase[c] = "idle"
    /\ registered = NoConn
    /\ phase' = [phase EXCEPT ![c] = "dialed"]
    /\ UNCHANGED <<acceptorVars, req, ack, linkVars, dialerVars,
                   historyVars>>

\* dialHandshake: reads the position and sends it in the auth frame.
Ask(c) ==
    /\ phase[c] = "dialed"
    /\ phase' = [phase EXCEPT ![c] = "asked"]
    /\ req' = [req EXCEPT ![c] = Request]
    /\ UNCHANGED <<acceptorVars, ack, linkVars, dialerVars,
                   historyVars>>

\* Handler: decideResume on the log's Oldest and Head.  The handler reads
\* Oldest just before Head; an append in between can only turn an evicted
\* request into a replay, which is what deciding before the append does.
Decide(c) ==
    LET d == DecideResume(req[c], OldestLocked, LogHead)
    IN  /\ phase[c] = "asked"
        /\ phase' = [phase EXCEPT ![c] = "decided"]
        /\ ack' = [ack EXCEPT ![c] =
                     [stream |-> IF capable THEN epoch ELSE 0, head |-> 0,
                      status |-> d.status, after |-> d.after, rhead |-> d.rhead]]
        /\ at' = [at EXCEPT ![c] = StartCursor(d)]
        /\ done' = [done EXCEPT ![c] = StartCursor(d)]
        /\ UNCHANGED <<acceptorVars, req, live, lastSent, wroteSince, wire,
                       dialerVars, historyVars>>

\* The stream info reads Head again; the ack is written, the link starts.
Accept(c) ==
    /\ phase[c] = "decided"
    /\ phase' = [phase EXCEPT ![c] = "acked"]
    /\ ack' = [ack EXCEPT ![c].head = LogHead]
    /\ live' = [live EXCEPT ![c] = TRUE]
    /\ UNCHANGED <<acceptorVars, req, at, done, lastSent,
                   wroteSince, wire, dialerVars, historyVars>>

\* The connection is gone for both sides; the next one starts with the values
\* newLink gives it.
Forget(c) ==
    /\ phase' = [phase EXCEPT ![c] = "idle"]
    /\ req' = [req EXCEPT ![c] = NoPos]
    /\ ack' = [ack EXCEPT ![c] = NoAck]
    /\ live' = [live EXCEPT ![c] = FALSE]
    /\ at' = [at EXCEPT ![c] = 0]
    /\ done' = [done EXCEPT ![c] = 0]
    /\ lastSent' = [lastSent EXCEPT ![c] = 0]
    /\ wroteSince' = [wroteSince EXCEPT ![c] = FALSE]
    /\ wire' = [wire EXCEPT ![c] = <<>>]

\* A handshake that fails, on either side, before the ack is sent.
Abandon(c) ==
    /\ phase[c] \in {"dialed", "asked", "decided"}
    /\ Forget(c)
    /\ UNCHANGED <<acceptorVars, dialerVars, historyVars>>

\* Mutant: the answered position is not compared with the current one.
StaleUnchecked(c) == registered # NoConn

\* connect, the critical section: another link holds the address, or the
\* ack answers a position that is no longer the dialer's.
Stale(c) ==
    \/ registered # NoConn
    \/ ack[c].stream # 0 /\ req[c] # Request

Discard(c) ==
    /\ phase[c] = "acked"
    /\ Stale(c)
    /\ Forget(c)
    /\ UNCHANGED <<acceptorVars, dialerVars, historyVars>>

\* Mutant: a reconnect without a held position needs no announcement.
LinkUpForgetsReconnect(a, sent) ==
    CASE a.stream = 0 -> [pos |-> NoPos, gap |-> held]
      [] a.stream # 0 /\ a.status = "none" ->
           [pos |-> Pos(a.stream, a.head), gap |-> held]
      [] a.stream # 0 /\ a.status = "reset" ->
           [pos |-> Pos(a.stream, a.rhead), gap |-> TRUE]
      [] OTHER -> [pos |-> Pos(a.stream, a.after), gap |-> FALSE]

\* dialerCursor.linkUp: the position after ack a, and whether it publishes
\* an invalidation.
LinkUp(a, sent) ==
    LET wanted == held \/ connected
    IN  CASE a.stream = 0 ->
               [pos |-> NoPos, gap |-> wanted]
          [] a.stream # 0 /\ a.status = "none" ->
               [pos |-> Pos(a.stream, a.head), gap |-> wanted]
          [] a.stream # 0 /\ a.status = "reset" ->
               [pos |-> Pos(a.stream, a.rhead), gap |-> TRUE]
          [] a.stream # 0 /\ a.status = "replaying" /\ sent.stream # a.stream ->
               [pos |-> Pos(a.stream, a.head), gap |-> TRUE]
          [] OTHER ->
               [pos |-> Pos(a.stream, a.after), gap |-> FALSE]

\* The handshake's locals end here; the link keeps the acceptor's stream id.
Register(c) ==
    LET up == LinkUp(ack[c], req[c])
    IN  /\ phase[c] = "acked"
        /\ ~Stale(c)
        /\ phase' = [phase EXCEPT ![c] = "up"]
        /\ req' = [req EXCEPT ![c] = NoPos]
        /\ ack' = [ack EXCEPT ![c] = [NoAck EXCEPT !.stream = ack[c].stream]]
        /\ registered' = c
        /\ held' = (up.pos.stream # 0)
        /\ stream' = up.pos.stream
        /\ offset' = up.pos.off
        /\ connected' = TRUE
        /\ IF up.gap \/ (~held /\ ~connected)
           THEN base' = up.pos /\ delivered' = {}
           ELSE UNCHANGED <<base, delivered>>
        /\ UNCHANGED <<acceptorVars, linkVars, handling>>

-----------------------------------------------------------------------------
(* The acceptor's link writer. *)

\* after and off of a reset are the ends of the hole it reports.
Frame(kind, after, off) == [kind |-> kind, after |-> after, off |-> off]

Write(c, f) ==
    /\ wire' = [wire EXCEPT ![c] = Append(@, f)]
    /\ lastSent' = [lastSent EXCEPT ![c] = f.off]

\* The writer of a stream link may run; a legacy link carries no positions
\* and none of its frames is tracked.
Writing(c) ==
    /\ live[c]
    /\ ack[c].stream # 0
    /\ Len(wire[c]) < MaxWire

\* drain: read a batch after the cursor ...
ReadBatch(c) ==
    /\ Writing(c)
    /\ done[c] = at[c]
    /\ at[c] < LogHead
    /\ at[c] + 1 >= OldestLocked
    /\ at' = [at EXCEPT ![c] = IF @ + WriterBatch < LogHead THEN @ + WriterBatch ELSE LogHead]
    /\ UNCHANGED <<acceptorVars, handshakeVars, live, done, lastSent,
                   wroteSince, wire, dialerVars, historyVars>>

\* Mutant: a counted skip, as on a link without streams.
LaggedSkips(c) ==
    /\ Writing(c)
    /\ done[c] = at[c]
    /\ at[c] < LogHead
    /\ at[c] + 1 < OldestLocked
    /\ at' = [at EXCEPT ![c] = LogHead]
    /\ done' = [done EXCEPT ![c] = LogHead]
    /\ UNCHANGED <<acceptorVars, handshakeVars, live, lastSent, wroteSince, wire,
                   dialerVars, historyVars>>

\* ... or find that the log evicted what follows it: reset, reason lagged.
Lagged(c) ==
    /\ Writing(c)
    /\ done[c] = at[c]
    /\ at[c] < LogHead
    /\ at[c] + 1 < OldestLocked
    /\ at' = [at EXCEPT ![c] = LogHead]
    /\ done' = [done EXCEPT ![c] = LogHead]
    /\ Write(c, Frame("reset", at[c], LogHead))
    /\ wroteSince' = [wroteSince EXCEPT ![c] = TRUE]
    /\ UNCHANGED <<acceptorVars, handshakeVars, live, dialerVars,
                   historyVars>>

\* The frame for the entry at offset o of stream s, if the link gets one.
FrameOf(s, o) ==
    IF logs[s][o] = "marker" THEN Frame("reset", o - 1, o) ELSE Frame("event", o, o)

\* send: the next entry of the batch.
Send(c) ==
    LET o == done[c] + 1
    IN  /\ Writing(c)
        /\ done[c] < at[c]
        /\ done' = [done EXCEPT ![c] = o]
        /\ IF logs[ack[c].stream][o] = "filtered"
           THEN UNCHANGED <<wire, lastSent, wroteSince>>
           ELSE /\ Write(c, FrameOf(ack[c].stream, o))
                /\ wroteSince' = [wroteSince EXCEPT ![c] = TRUE]
        /\ UNCHANGED <<acceptorVars, handshakeVars, live, at, dialerVars,
                       historyVars>>

\* Mutants: the position names the log's head, or the last frame.
HeartbeatAtHead(c) ==
    /\ Writing(c)
    /\ done[c] = at[c]
    /\ wroteSince' = [wroteSince EXCEPT ![c] = FALSE]
    /\ Write(c, Frame("position", LogHead, LogHead))
    /\ UNCHANGED <<acceptorVars, handshakeVars, live, at, done, dialerVars,
                   historyVars>>

HeartbeatLastSent(c) ==
    /\ Writing(c)
    /\ done[c] = at[c]
    /\ wroteSince' = [wroteSince EXCEPT ![c] = FALSE]
    /\ Write(c, Frame("position", lastSent[c], lastSent[c]))
    /\ UNCHANGED <<acceptorVars, handshakeVars, live, at, done, dialerVars,
                   historyVars>>

\* heartbeatTick: a position frame on a quiet link, or after a skipped entry.
Heartbeat(c) ==
    /\ Writing(c)
    /\ done[c] = at[c]
    /\ wroteSince' = [wroteSince EXCEPT ![c] = FALSE]
    /\ IF ~wroteSince[c] \/ at[c] > lastSent[c]
       THEN Write(c, Frame("position", at[c], at[c]))
       ELSE UNCHANGED <<wire, lastSent>>
    /\ UNCHANGED <<acceptorVars, handshakeVars, live, at, done, dialerVars,
                   historyVars>>

-----------------------------------------------------------------------------
(* The dialer's reader. *)

Reading(c, kind) ==
    /\ registered = c
    /\ handling = 0
    /\ wire[c] # <<>>
    /\ Head(wire[c]).kind = kind

Consume(c) == wire' = [wire EXCEPT ![c] = Tail(@)]

\* Mutant: an event at the position is not a duplicate.
OnEventAgain(c) ==
    LET off == Head(wire[c]).off
    IN  /\ Reading(c, "event")
        /\ Consume(c)
        /\ IF off < offset
           THEN UNCHANGED <<offset, handling>>
           ELSE offset' = off /\ handling' = off
        /\ UNCHANGED <<acceptorVars, handshakeVars, live, at, done,
                       lastSent, wroteSince, registered, held, stream,
                       connected, historyVars>>

\* onEvent: advance first, then run the handlers (HandlersReturn).  Frames the
\* reader itself drops (own origin, reserved topic, not decodable) are among the
\* "filtered" entries: they never reach the handlers.
OnEvent(c) ==
    LET off == Head(wire[c]).off
    IN  /\ Reading(c, "event")
        /\ Consume(c)
        /\ IF off <= offset
           THEN UNCHANGED <<offset, handling>>
           ELSE offset' = off /\ handling' = off
        /\ UNCHANGED <<acceptorVars, handshakeVars, live, at, done,
                       lastSent, wroteSince, registered, held, stream,
                       connected, historyVars>>

HandlersReturn ==
    /\ handling # 0
    /\ delivered' = delivered \cup {handling}
    /\ handling' = 0
    /\ UNCHANGED <<acceptorVars, handshakeVars, linkVars, registered, held,
                   stream, offset, connected, base>>

\* onReset: the position moves to the head and an invalidation is published.
OnReset(c) ==
    LET f == Head(wire[c])
    IN  /\ Reading(c, "reset")
        /\ f.off >= offset
        /\ Consume(c)
        /\ offset' = f.off
        /\ base' = Pos(stream, f.off)
        /\ delivered' = {}
        /\ UNCHANGED <<acceptorVars, handshakeVars, live, at, done,
                       lastSent, wroteSince, registered, held, stream,
                       connected, handling>>

\* A reset to below the position is a protocol error: the link closes.
RefuseReset(c) ==
    LET f == Head(wire[c])
    IN  /\ Reading(c, "reset")
        /\ f.off < offset
        /\ live' = [live EXCEPT ![c] = FALSE]
        /\ wire' = [wire EXCEPT ![c] = <<>>]
        /\ UNCHANGED <<acceptorVars, handshakeVars, at, done, lastSent,
                       wroteSince, dialerVars, historyVars>>

\* onPosition: the larger of the two offsets.
OnPosition(c) ==
    LET off == Head(wire[c]).off
    IN  /\ Reading(c, "position")
        /\ Consume(c)
        /\ offset' = IF off > offset THEN off ELSE offset
        /\ UNCHANGED <<acceptorVars, handshakeVars, live, at, done,
                       lastSent, wroteSince, registered, held, stream,
                       connected, handling, historyVars>>

\* readLoop's teardown, once the reader has read what the socket still held.
LinkDown(c) ==
    /\ registered = c
    /\ handling = 0
    /\ ~live[c]
    /\ wire[c] = <<>>
    /\ Forget(c)
    /\ registered' = NoConn
    /\ UNCHANGED <<acceptorVars, held, stream, offset, connected, handling,
                   historyVars>>

-----------------------------------------------------------------------------
(* The environment. *)

\* A failed write, a broken connection or a watchdog close: the acceptor's
\* side ends and some suffix of the frames under way is lost.
Cut(c) ==
    /\ live[c]
    /\ live' = [live EXCEPT ![c] = FALSE]
    /\ \E k \in 0..Len(wire[c]) : wire' = [wire EXCEPT ![c] = SubSeq(@, 1, k)]
    /\ UNCHANGED <<acceptorVars, handshakeVars, at, done, lastSent,
                   wroteSince, dialerVars, historyVars>>

\* A restarted acceptor has an empty log under a fresh stream id, and may be
\* another build.  Its connections were cut before (Cut, Abandon).
Restart ==
    /\ epoch < MaxEpoch
    /\ \A c \in Conns : ~live[c] /\ phase[c] \in {"idle", "acked", "up"}
    /\ epoch' = epoch + 1
    /\ capable' \in BOOLEAN
    /\ UNCHANGED <<logs, handshakeVars, linkVars, dialerVars, historyVars>>

-----------------------------------------------------------------------------

Init ==
    /\ epoch = 1
    /\ capable \in BOOLEAN
    /\ logs = [s \in Streams |-> <<>>]
    /\ phase = [c \in Conns |-> "idle"]
    /\ req = [c \in Conns |-> NoPos]
    /\ ack = [c \in Conns |-> NoAck]
    /\ live = [c \in Conns |-> FALSE]
    /\ at = [c \in Conns |-> 0]
    /\ done = [c \in Conns |-> 0]
    /\ lastSent = [c \in Conns |-> 0]
    /\ wroteSince = [c \in Conns |-> FALSE]
    /\ wire = [c \in Conns |-> <<>>]
    /\ registered = NoConn
    /\ base \in Seeds
    /\ held = (base # NoPos)
    /\ stream = base.stream
    /\ offset = base.off
    /\ connected = FALSE
    /\ handling = 0
    /\ delivered = {}

Handshake(c) ==
    \/ Dial(c) \/ Ask(c) \/ Decide(c) \/ Accept(c)
    \/ Discard(c) \/ Register(c)

Writer(c) == ReadBatch(c) \/ Lagged(c) \/ Send(c) \/ Heartbeat(c)

Reader(c) ==
    OnEvent(c) \/ OnReset(c) \/ RefuseReset(c) \/ OnPosition(c) \/ LinkDown(c)

Next ==
    \/ \E k \in Kinds : LogAppend(k)
    \/ \E c \in Conns : Handshake(c) \/ Writer(c) \/ Reader(c)
    \/ HandlersReturn
    \/ \E c \in Conns : Abandon(c) \/ Cut(c)
    \/ Restart

Spec == Init /\ [][Next]_vars

-----------------------------------------------------------------------------
(* Properties. *)

Frames == [kind : {"event", "reset", "position"}, after : Nat, off : Nat]
Positions == [stream : Nat, off : Nat]
Acks == [stream : Nat, head : Nat, status : {"none", "reset", "replaying"},
         after : Nat, rhead : Nat]
Phases == {"idle", "dialed", "asked", "decided", "acked", "up"}

\* Types: one registered connection at most, cursors and offsets are naturals.
TypeOK ==
    /\ epoch \in Streams
    /\ capable \in BOOLEAN
    /\ logs \in [Streams -> Seq(Kinds)]
    /\ phase \in [Conns -> Phases]
    /\ req \in [Conns -> Positions]
    /\ ack \in [Conns -> Acks]
    /\ live \in [Conns -> BOOLEAN]
    /\ at \in [Conns -> Nat]
    /\ done \in [Conns -> Nat]
    /\ lastSent \in [Conns -> Nat]
    /\ wroteSince \in [Conns -> BOOLEAN]
    /\ wire \in [Conns -> Seq(Frames)]
    /\ registered \in Conns \cup {NoConn}
    /\ held \in BOOLEAN
    /\ stream \in Nat
    /\ offset \in Nat
    /\ connected \in BOOLEAN
    /\ handling \in Nat
    /\ base \in Positions
    /\ delivered \subseteq Nat

\* The gap signal is complete: between the last invalidation (or the fresh
\* start) and the position a dialer holds, every event of the stream that
\* passes the link's filters was handed to the bus or is being handled, and
\* no gap marker was stepped over (stream_cursor.go, drain and send of
\* network_link.go, the stale-position check of connect).
NoSilentLoss ==
    held =>
      /\ base.stream = stream
      /\ base.off <= offset
      /\ \A o \in base.off + 1 .. offset :
           \/ logs[stream][o] = "filtered"
           \/ logs[stream][o] = "event" /\ (handling = o \/ o \in delivered)

\* Where connection c's frames pick up: the dialer's position when c is
\* registered, else the position registering c would set.
StartOf(c) == IF phase[c] = "up" THEN offset ELSE LinkUp(ack[c], req[c]).pos.off

\* Frame f accounts for entry o: it carries the event, or reports it missed.
Covers(f, o) ==
    \/ f.kind = "event" /\ f.off = o
    \/ f.kind = "reset" /\ f.after < o /\ o <= f.off

\* The first n frames on c's wire account for every entry of stream s after
\* the connection's start and up to offset to, but the filtered ones.
Covered(c, n, to) ==
    \A o \in StartOf(c) + 1 .. to :
       \/ logs[ack[c].stream][o] = "filtered"
       \/ \E j \in 1..n : Covers(wire[c][j], o)

\* No frame runs ahead of what it leaves behind: whatever prefix of a wire
\* survives a cut, reading up to any frame of it misses no entry below that
\* frame's offset; and what the writer passed is on the wire (drain, send
\* and heartbeatTick of network_link.go, the start cursor of the handshake).
WireComplete ==
    \A c \in Conns : phase[c] \in {"acked", "up"} /\ ack[c].stream # 0 =>
      /\ \A i \in 1..Len(wire[c]) : Covered(c, i, wire[c][i].off)
      /\ live[c] => Covered(c, Len(wire[c]), done[c])

Feed == INSTANCE StreamFeed WITH
    pos <- Request,
    started <- connected,
    announced <- base,
    handed <- delivered \cup ({handling} \ {0})

\* The adapter implements the promise of StreamFeed: in order, at most once,
\* every discontinuity announced, across cuts, restarts, evictions and races
\* between connections.
ImplementsFeed == Feed!FeedSpec

\* Every goroutine keeps running and the reconnect loop keeps dialing.  The
\* writer drains at the top of each turn of its loop, before it may handle a
\* tick, so ticks that keep the wire full do not starve the drain.
Fairness ==
    /\ \A c \in Conns :
        /\ WF_vars(Handshake(c) /\ ~Dial(c))
        /\ SF_vars(ReadBatch(c) \/ Lagged(c) \/ Send(c))
        /\ WF_vars(Heartbeat(c))
        /\ WF_vars(Reader(c))
    /\ WF_vars(\E c \in Conns : Dial(c))
    /\ WF_vars(HandlersReturn)

\* From some point on the network cuts no connection.
Calm == <>[][\A c \in Conns : ~Cut(c) /\ ~Abandon(c)]_vars

LiveSpec == Spec /\ Fairness /\ Calm

\* Once the network calms down, a dialer of an acceptor with streams ends up
\* at the head of the acceptor's current stream and stays there: the redial
\* and the resume leave no event behind, and the heartbeat carries the
\* position over entries the link's filters drop.
CatchesUp ==
    <>[](capable => held /\ stream = epoch /\ offset = LogHead /\ handling = 0)
=============================================================================
