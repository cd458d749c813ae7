---------------------------- MODULE AckedPublish ----------------------------
(***************************************************************************)
(* Acknowledged publishing from a dialer of the bus NetworkAdapter to one  *)
(* acceptor (go/runtime/bus: ack.go, network_ack.go, stream_ack.go).  The  *)
(* dialer logs events, sends them over one link at a time and follows the  *)
(* acceptor's cumulative pubacks; after a reconnect it sends again what    *)
(* was not acknowledged.  The acceptor remembers, per dialer stream, what  *)
(* it has begun to handle, so that a copy is answered and not published    *)
(* again.  The acceptor's side of a link may outlive the dialer's.         *)
(***************************************************************************)
EXTENDS Naturals, Sequences, FiniteSets

CONSTANTS
    Links,      \* bound: links that exist at once, on either side
    NoLink,
    RingSize,   \* entries the dialer's log retains
    MaxPending, \* WithMaxPendingAcks: slots per address, queue per link
    MaxErrors,  \* failed results kept per stream
    MaxLog,     \* bound: entries logged, and publishers whose event is not
    MaxWire,    \* bound: frames under way in one direction of a link
    MaxLife,    \* bound: lives of the acceptor's memory of the stream
    MaxBreaks,  \* bound: links that break
    MaxFaults   \* bound: breaks, lives lost and Disconnects, together

ASSUME LinksAssumption == NoLink \notin Links /\ IsFiniteSet(Links)
ASSUME SizesAssumption == /\ RingSize \in Nat \ {0}
                          /\ MaxPending \in Nat \ {0}
                          /\ MaxErrors \in Nat \ {0}
ASSUME BoundsAssumption == /\ MaxLog \in Nat /\ MaxWire \in Nat
                           /\ MaxLife \in Nat \ {0} /\ MaxBreaks \in Nat
                           /\ MaxFaults \in Nat

Offsets == 1..MaxLog

VARIABLES
    kinds,      \* dialer: the log; "event", or "skipped" by the link's filter
    stage,      \* dialer: per offset, where its PublishAcked is
    unlogged,   \* dialer: publishers whose event the topic filter kept out
    ticket,     \* dialer: per offset, the ticket's outcome for the address
    at,         \* dialer: sendCursor.at, kept across links (the outbox)
    acked,      \* dialer: ackTracker.acked
    sent,       \* dialer: ackTracker.sent
    waits,      \* dialer: offsets with an ackTracker wait
    cur,        \* dialer: its link
    acks,       \* dialer: the link negotiated acks
    gone,       \* dialer: how far a Disconnect of the address got
    breaks,     \* links that broke so far
    side,       \* per link: "free", "up", or "half" (the acceptor's side only)
    down,       \* per link: offsets under way to the acceptor
    back,       \* per link: pubacks under way to the dialer
    ackq,       \* per link, acceptor: the puback queue
    reader,     \* per link, acceptor: the frame the reader has begun
    capable,    \* acceptor: it acknowledges
    life,       \* acceptor: number of its memory's current life
    seen,       \* acceptor: its seenStream, present or not
    copies,     \* acceptor, history: per offset, each begin of a new frame
    lost,       \* history: offsets evicted before they were sent
    slipped,    \* history: of those, the ones passed with no wait to fail
    blind,      \* history: offsets a link without acks put out of sight
    dropped     \* history: offsets begun when the stream was forgotten

publisherVars == <<kinds, stage, unlogged>>
trackerVars == <<at, acked, sent, waits>>
dialerVars == <<cur, acks, gone, breaks>>
wireVars == <<side, down, back>>
acceptorVars == <<ackq, reader, capable, life, seen, copies>>
historyVars == <<lost, slipped, blind, dropped>>
vars == <<publisherVars, ticket, trackerVars, dialerVars, wireVars, acceptorVars, historyVars>>

LogHead == Len(kinds)

Forgot == gone # "no"

\* The bound allows something more to go wrong.
Faulty == breaks + (life - 1) + (IF Forgot THEN 1 ELSE 0) < MaxFaults

Oldest == IF LogHead <= RingSize THEN 1 ELSE LogHead - RingSize + 1

\* ackTicket.resolve for every offset of S: the first outcome wins.
Resolve(S, code) ==
    ticket' = [o \in Offsets |-> IF o \in S /\ ticket[o] = "open" THEN code ELSE ticket[o]]

-----------------------------------------------------------------------------
(* PublishAcked. *)

Open == {o \in Offsets : ticket[o] = "open"}

\* A slot of the address is free; a publisher's is freed with its outcome.
SlotFree == Cardinality(Open) + unlogged < MaxPending

\* A slot of the address, then the bus's publish, whose observer appends to
\* the log.  Publishers share the bus lock (RLock): several may be between
\* their append and their OnLogged.  The address was looked up before: it
\* may be forgotten by now.
PublishAcked(k) ==
    /\ LogHead + unlogged < MaxLog
    /\ SlotFree
    /\ kinds' = Append(kinds, k)
    /\ stage' = [stage EXCEPT ![LogHead + 1] = "logged"]
    /\ ticket' = [ticket EXCEPT ![LogHead + 1] = "open"]
    /\ UNCHANGED <<unlogged, trackerVars, dialerVars, wireVars, acceptorVars, historyVars>>

\* The same for an event the adapter's topic filter keeps out of the log ...
PublishUnlogged ==
    /\ LogHead + unlogged < MaxLog
    /\ SlotFree
    /\ unlogged' = unlogged + 1
    /\ UNCHANGED <<kinds, stage, ticket, trackerVars, dialerVars, wireVars, acceptorVars,
                   historyVars>>

\* ... which the publisher finds without an offset and reports as filtered.
AfterUnlogged ==
    /\ unlogged > 0
    /\ unlogged' = unlogged - 1
    /\ UNCHANGED <<kinds, stage, ticket, trackerVars, dialerVars, wireVars, acceptorVars,
                   historyVars>>

\* Still in the observer, after the append: register the wait.
OnLogged(o) ==
    /\ stage[o] = "logged"
    /\ stage' = [stage EXCEPT ![o] = "registered"]
    /\ waits' = waits \cup {o}
    /\ UNCHANGED <<kinds, unlogged, ticket, at, acked, sent, dialerVars, wireVars,
                   acceptorVars, historyVars>>

\* Mutant: the publisher does not look at the address again.
AfterUnchecked(o) ==
    /\ stage[o] = "registered"
    /\ stage' = [stage EXCEPT ![o] = "waiting"]
    /\ UNCHANGED <<kinds, unlogged, ticket, trackerVars, dialerVars, wireVars, acceptorVars,
                   historyVars>>

\* The publish returned: settle at once what no link will ever settle.
After(o) ==
    /\ stage[o] = "registered"
    /\ stage' = [stage EXCEPT ![o] = "waiting"]
    /\ CASE Forgot -> Resolve({o}, "unavailable")
         [] ~Forgot /\ o < Oldest -> Resolve({o}, "evicted")
         [] OTHER -> UNCHANGED ticket
    /\ UNCHANGED <<kinds, unlogged, trackerVars, dialerVars, wireVars, acceptorVars,
                   historyVars>>

Timeout(o) ==
    /\ stage[o] = "waiting"
    /\ ticket[o] = "open"
    /\ Resolve({o}, "timeout")
    /\ UNCHANGED <<publisherVars, trackerVars, dialerVars, wireVars, acceptorVars,
                   historyVars>>

-----------------------------------------------------------------------------
(* The dialer's link. *)

\* Mutant: one entry more is sent again.
RewoundBehind == IF acked < at THEN acked - 1 ELSE at

\* Where a new link starts: after what the peer acknowledged.
Rewound == IF acked < at THEN acked ELSE at

\* Mutant: a new link goes on from the last frame sent.
LinkUpNoRewind(l) ==
    /\ cur = NoLink /\ ~Forgot /\ side[l] = "free"
    /\ cur' = l
    /\ acks' = capable
    /\ side' = [side EXCEPT ![l] = "up"]
    /\ sent' = at
    /\ IF capable
       THEN UNCHANGED <<acked, waits, ticket, blind>>
       ELSE /\ acked' = at /\ waits' = {} /\ Resolve(waits, "unsupported")
            /\ blind' = blind \cup 1..at
    /\ UNCHANGED <<publisherVars, at, gone, breaks, down, back, acceptorVars, lost,
                   slipped, dropped>>

\* connect: ackTracker.linkUp, on the kept cursor.
LinkUp(l) ==
    /\ cur = NoLink /\ ~Forgot /\ side[l] = "free"
    /\ cur' = l
    /\ acks' = capable
    /\ side' = [side EXCEPT ![l] = "up"]
    /\ IF capable
       THEN /\ at' = Rewound
            /\ sent' = at'
            /\ UNCHANGED <<acked, waits, ticket, blind>>
       ELSE /\ acked' = at
            /\ sent' = at
            /\ waits' = {}
            /\ Resolve(waits, "unsupported")
            /\ blind' = blind \cup 1..at
            /\ UNCHANGED at
    /\ UNCHANGED <<publisherVars, gone, breaks, down, back, acceptorVars, lost,
                   slipped, dropped>>

Writing(l) == cur = l /\ side[l] = "up" /\ at < LogHead

\* drain: the log evicted entries before the writer reached them (onGap).
Gap(l) ==
    LET missed == at + 1 .. Oldest - 1
    IN  /\ Writing(l)
        /\ missed # {}
        /\ Resolve(waits \cap missed, "evicted")
        /\ waits' = waits \ missed
        /\ at' = Oldest - 1
        /\ lost' = lost \cup missed
        /\ slipped' = slipped \cup {o \in missed \ waits : ticket[o] = "open"}
        /\ UNCHANGED <<publisherVars, acked, sent, dialerVars, wireVars, acceptorVars,
                       blind, dropped>>

\* send: the link's filter drops the entry (onSkip).
Skip(l) ==
    /\ Writing(l)
    /\ at + 1 >= Oldest
    /\ kinds[at + 1] = "skipped"
    /\ Resolve({at + 1}, "filtered")
    /\ waits' = waits \ {at + 1}
    /\ at' = at + 1
    /\ UNCHANGED <<publisherVars, acked, sent, dialerVars, wireVars, acceptorVars,
                   historyVars>>

\* The next entry goes to the link.
Sending(l) == Writing(l) /\ at + 1 >= Oldest /\ kinds[at + 1] = "event"

\* onSend, before the write: on a link without acks the wait of the frame
\* fails and nothing more is known of it.
OnSend ==
    IF acks
    THEN /\ sent' = IF at + 1 > sent THEN at + 1 ELSE sent
         /\ waits' = waits \cup {at + 1}
         /\ UNCHANGED <<acked, ticket, blind>>
    ELSE /\ acked' = at + 1
         /\ sent' = at + 1
         /\ waits' = waits \ {at + 1}
         /\ Resolve({at + 1}, "unsupported")
         /\ blind' = blind \cup {at + 1}

\* The frame is on the wire; the frames of a link without acks, which are
\* never answered, are not followed further.
Put(l) ==
    IF acks
    THEN Len(down[l]) < MaxWire /\ down' = [down EXCEPT ![l] = Append(@, at + 1)]
    ELSE UNCHANGED down

\* send: written, or lost with the link later (Cut).
Send(l) ==
    /\ Sending(l)
    /\ OnSend
    /\ Put(l)
    /\ at' = at + 1
    /\ UNCHANGED <<publisherVars, dialerVars, side, back, acceptorVars, lost, slipped, dropped>>

\* The failed write of an outbox link: the frame was recorded as sent, the
\* cursor steps back, the link closes.  The frame may have got through.
SendFails(l) ==
    /\ Sending(l)
    /\ breaks < MaxBreaks /\ Faulty
    /\ breaks' = breaks + 1
    /\ OnSend
    /\ Put(l) \/ UNCHANGED down
    /\ cur' = NoLink
    /\ side' = [side EXCEPT ![l] = "half"]
    /\ back' = [back EXCEPT ![l] = <<>>]
    /\ acks' = FALSE
    /\ UNCHANGED <<publisherVars, at, gone, acceptorVars, lost, slipped, dropped>>

\* Waits that remain, pruned of settled tickets when they are too many.
Pruned(W) ==
    IF Cardinality(W) > 2 * MaxPending THEN {o \in W : ticket'[o] = "open"} ELSE W

\* onPuback: cumulative; a puback beyond what was sent would break the link.
OnPuback(l) ==
    LET p == Head(back[l])
    IN  /\ cur = l
        /\ back[l] # <<>>
        /\ p.off <= sent
        /\ back' = [back EXCEPT ![l] = Tail(@)]
        /\ IF p.off <= acked
           THEN UNCHANGED <<acked, ticket>> /\ waits' = Pruned(waits)
           ELSE /\ acked' = p.off
                /\ ticket' = [o \in Offsets |->
                     IF o \notin waits \/ o > p.off \/ ticket[o] # "open" THEN ticket[o]
                     ELSE IF o = p.off THEN p.st ELSE "ok"]
                /\ waits' = Pruned({o \in waits : o > p.off})
        /\ UNCHANGED <<publisherVars, at, sent, dialerVars, side, down, acceptorVars,
                       historyVars>>

\* The dialer's side ends: it reads no more; some of its frames get through.
Cut(l) ==
    /\ cur = l
    /\ Forgot \/ (breaks < MaxBreaks /\ Faulty)
    /\ breaks' = IF Forgot THEN breaks ELSE breaks + 1
    /\ cur' = NoLink
    /\ side' = [side EXCEPT ![l] = "half"]
    /\ \E n \in 0..Len(down[l]) : down' = [down EXCEPT ![l] = SubSeq(@, 1, n)]
    /\ back' = [back EXCEPT ![l] = <<>>]
    /\ acks' = FALSE
    /\ UNCHANGED <<publisherVars, ticket, trackerVars, gone, acceptorVars, historyVars>>

\* Disconnect: the address is forgotten ...
Disconnect ==
    /\ gone = "no" /\ Faulty
    /\ gone' = "forgotten"
    /\ UNCHANGED <<publisherVars, ticket, trackerVars, cur, acks, breaks, wireVars,
                   acceptorVars, historyVars>>

\* ... then every wait fails; its link is cut soon after (Cut).
FailAcks ==
    /\ gone = "forgotten"
    /\ gone' = "failed"
    /\ waits' = {}
    /\ Resolve(waits, "unavailable")
    /\ UNCHANGED <<publisherVars, at, acked, sent, cur, acks, breaks, wireVars, acceptorVars,
                   historyVars>>

-----------------------------------------------------------------------------
(* The acceptor. *)

NoFrame == [off |-> 0, copy |-> 0, st |-> "none", new |-> FALSE]

Forgotten == [present |-> FALSE, last |-> 0, floor |-> 0,
              inflight |-> [o \in Offsets |-> 0], errs |-> {}]

\* Mutant: a copy of a frame still being handled is answered like a handled one.
RedeliveryEarly(o) ==
    [off |-> o, copy |-> 0, new |-> FALSE,
     st |-> IF o \in seen.errs THEN "rejected" ELSE IF o <= seen.floor THEN "unknown" ELSE "ok"]

\* ackSeen.begin for a copy of a frame the stream has seen.
Redelivery(o) ==
    CASE seen.inflight[o] # 0 ->
           [off |-> o, copy |-> seen.inflight[o], st |-> "shared", new |-> FALSE]
      [] seen.inflight[o] = 0 /\ o \in seen.errs ->
           [off |-> o, copy |-> 0, st |-> "rejected", new |-> FALSE]
      [] seen.inflight[o] = 0 /\ o \notin seen.errs /\ o <= seen.floor ->
           [off |-> o, copy |-> 0, st |-> "unknown", new |-> FALSE]
      [] OTHER ->
           [off |-> o, copy |-> 0, st |-> "ok", new |-> FALSE]

\* Mutant: only the frame handled last is recognized as a copy.
IsCopyOfLast(o) == seen.present /\ o = seen.last

IsCopy(o) == seen.present /\ o <= seen.last

\* settle of a rejected or invalid frame: the result is kept; past the bound
\* the lowest is pruned and the floor rises.
Lowest(S) == CHOOSE o \in S : \A p \in S : o <= p

WithErr(s, o) ==
    LET errs == s.errs \cup {o}
        low == Lowest(errs)
    IN  IF Cardinality(errs) <= MaxErrors
        THEN [s EXCEPT !.errs = errs, !.inflight[o] = 0]
        ELSE [s EXCEPT !.errs = errs \ {low}, !.inflight[o] = 0,
                       !.floor = IF low > @ THEN low ELSE @]

\* The reader takes a frame and looks it up in, or enters it into, the
\* stream's memory (a forgotten stream starts afresh at the frame).  A new
\* frame that cannot be decoded is settled as invalid before it is queued.
Begin(l) ==
    LET o == Head(down[l])
        k == Len(copies[o]) + 1
        f == [off |-> o, copy |-> k, st |-> "shared", new |-> TRUE]
        entered == [seen EXCEPT !.present = TRUE, !.last = o, !.inflight[o] = k]
    IN  /\ side[l] # "free"
        /\ down[l] # <<>>
        /\ reader[l] = NoFrame
        /\ down' = [down EXCEPT ![l] = Tail(@)]
        /\ \/ /\ IsCopy(o)
              /\ reader' = [reader EXCEPT ![l] = Redelivery(o)]
              /\ UNCHANGED <<seen, copies>>
           \/ /\ ~IsCopy(o)
              /\ reader' = [reader EXCEPT ![l] = f]
              /\ seen' = entered
              /\ copies' = [copies EXCEPT ![o] = Append(@, [st |-> "begun", life |-> life])]
           \/ /\ ~IsCopy(o)
              /\ reader' = [reader EXCEPT ![l] = [f EXCEPT !.new = FALSE]]
              /\ seen' = WithErr(entered, o)
              /\ copies' = [copies EXCEPT ![o] = Append(@, [st |-> "rejected", life |-> life])]
        /\ UNCHANGED <<publisherVars, ticket, trackerVars, dialerVars, side, back, ackq,
                       capable, life, historyVars>>

\* queueAck, with room: the result joins the link's pubacks; a new frame is
\* published, and a veto settles it at once.
QueueAck(l) ==
    LET f == reader[l]
    IN  /\ f # NoFrame
        /\ Len(ackq[l]) < MaxPending
        /\ ackq' = [ackq EXCEPT ![l] = Append(@, f)]
        /\ reader' = [reader EXCEPT ![l] = NoFrame]
        /\ \/ ~f.new /\ UNCHANGED <<seen, copies>>
           \/ /\ f.new
              /\ copies' = [copies EXCEPT ![f.off][f.copy].st = "handling"]
              /\ UNCHANGED seen
           \/ /\ f.new
              /\ copies' = [copies EXCEPT ![f.off][f.copy].st = "rejected"]
              /\ seen' = IF seen.present THEN WithErr(seen, f.off) ELSE seen
        /\ UNCHANGED <<publisherVars, ticket, trackerVars, dialerVars, wireVars, capable,
                       life, historyVars>>

\* The last handler of a published frame returned.
HandlersDone(o, k) ==
    /\ copies[o][k].st = "handling"
    /\ copies' = [copies EXCEPT ![o][k].st = "ok"]
    /\ seen' = IF seen.present THEN [seen EXCEPT !.inflight[o] = 0] ELSE seen
    /\ UNCHANGED <<publisherVars, ticket, trackerVars, dialerVars, wireVars, ackq, reader,
                   capable, life, historyVars>>

Status(f) == IF f.st = "shared" THEN copies[f.off][f.copy].st ELSE f.st

Settled(f) == Status(f) \in {"ok", "rejected", "unknown"}

\* Mutant: any settled result may overtake the queue.
FlushAcksAnyOrder(l) ==
    /\ side[l] # "free"
    /\ side[l] = "up" => Len(back[l]) < MaxWire
    /\ \E i \in 1..Len(ackq[l]) :
        LET f == ackq[l][i]
        IN  /\ Settled(f)
            /\ ackq' = [ackq EXCEPT ![l] = SubSeq(@, 1, i - 1) \o SubSeq(@, i + 1, Len(@))]
            /\ IF side[l] = "up"
               THEN back' = [back EXCEPT ![l] = Append(@, [off |-> f.off, st |-> Status(f)])]
               ELSE UNCHANGED back
    /\ UNCHANGED <<publisherVars, ticket, trackerVars, dialerVars, side, down, reader,
                   capable, life, seen, copies, historyVars>>

\* flushAcks: pubacks go out in frame order; to a dialer that left, in vain.
FlushAcks(l) ==
    LET f == Head(ackq[l])
    IN  /\ side[l] # "free"
        /\ ackq[l] # <<>>
        /\ Settled(f)
        /\ ackq' = [ackq EXCEPT ![l] = Tail(@)]
        /\ IF side[l] = "up"
           THEN /\ Len(back[l]) < MaxWire
                /\ back' = [back EXCEPT ![l] = Append(@, [off |-> f.off, st |-> Status(f)])]
           ELSE UNCHANGED back
        /\ UNCHANGED <<publisherVars, ticket, trackerVars, dialerVars, side, down, reader,
                       capable, life, seen, copies, historyVars>>

\* The acceptor's side ends.  A reader that waits for room in the queue
\* gives up the frame it has begun; one with room does not.
LinkEnd(l) ==
    /\ side[l] = "half"
    /\ reader[l] = NoFrame \/ Len(ackq[l]) >= MaxPending
    /\ side' = [side EXCEPT ![l] = "free"]
    /\ down' = [down EXCEPT ![l] = <<>>]
    /\ ackq' = [ackq EXCEPT ![l] = <<>>]
    /\ reader' = [reader EXCEPT ![l] = NoFrame]
    /\ UNCHANGED <<publisherVars, ticket, trackerVars, dialerVars, back, capable, life,
                   seen, copies, historyVars>>

\* evictLocked: other streams of the peer push this one out of the memory.
ForgetStream ==
    /\ life < MaxLife /\ Faulty
    /\ seen.present
    /\ life' = life + 1
    /\ seen' = Forgotten
    /\ dropped' = dropped \cup {o \in Offsets : copies[o] # <<>>}
    /\ UNCHANGED <<publisherVars, ticket, trackerVars, dialerVars, wireVars, ackq, reader,
                   capable, copies, lost, slipped, blind>>

\* The acceptor restarts, perhaps as another build; its links ended before,
\* its handlers end with it.
Restart ==
    /\ life < MaxLife /\ Faulty
    /\ \A l \in Links : side[l] = "free"
    /\ life' = life + 1
    /\ capable' \in BOOLEAN
    /\ seen' = Forgotten
    /\ copies' = [o \in Offsets |-> [k \in 1..Len(copies[o]) |->
                    IF copies[o][k].st \in {"begun", "handling"}
                    THEN [copies[o][k] EXCEPT !.st = "dead"] ELSE copies[o][k]]]
    /\ UNCHANGED <<publisherVars, ticket, trackerVars, dialerVars, wireVars, ackq, reader,
                   historyVars>>

-----------------------------------------------------------------------------

Init ==
    /\ kinds = <<>>
    /\ stage = [o \in Offsets |-> "none"]
    /\ unlogged = 0
    /\ ticket = [o \in Offsets |-> "none"]
    /\ at = 0 /\ acked = 0 /\ sent = 0 /\ waits = {}
    /\ cur = NoLink /\ acks = FALSE /\ gone = "no" /\ breaks = 0
    /\ side = [l \in Links |-> "free"]
    /\ down = [l \in Links |-> <<>>]
    /\ back = [l \in Links |-> <<>>]
    /\ ackq = [l \in Links |-> <<>>]
    /\ reader = [l \in Links |-> NoFrame]
    /\ capable \in BOOLEAN
    /\ life = 1
    /\ seen = Forgotten
    /\ copies = [o \in Offsets |-> <<>>]
    /\ lost = {} /\ slipped = {} /\ blind = {} /\ dropped = {}

Publisher(o) == OnLogged(o) \/ After(o) \/ Timeout(o)

Writer(l) == Gap(l) \/ Skip(l) \/ Send(l)

Acceptor(l) == Begin(l) \/ QueueAck(l) \/ FlushAcks(l) \/ LinkEnd(l)

Next ==
    \/ \E k \in {"event", "skipped"} : PublishAcked(k)
    \/ PublishUnlogged \/ AfterUnlogged
    \/ \E o \in Offsets : Publisher(o)
    \/ \E l \in Links : LinkUp(l) \/ Writer(l) \/ SendFails(l) \/ OnPuback(l) \/ Cut(l)
    \/ Disconnect \/ FailAcks
    \/ \E l \in Links : Acceptor(l)
    \/ \E o \in Offsets : \E k \in 1..Len(copies[o]) : HandlersDone(o, k)
    \/ ForgetStream
    \/ Restart

Spec == Init /\ [][Next]_vars

-----------------------------------------------------------------------------
(* Properties. *)

Outcomes == {"ok", "rejected", "unknown", "timeout", "evicted", "unsupported",
             "unavailable", "filtered"}
CopyStates == {"begun", "handling", "ok", "rejected", "dead"}
FrameRecords == [off : Offsets, copy : Nat, st : {"shared", "ok", "rejected", "unknown"},
                 new : BOOLEAN]

\* Types; a queued result that is shared refers to a frame that was begun.
TypeOK ==
    /\ kinds \in Seq({"event", "skipped"})
    /\ stage \in [Offsets -> {"none", "logged", "registered", "waiting"}]
    /\ unlogged \in 0..MaxLog
    /\ ticket \in [Offsets -> {"none", "open"} \cup Outcomes]
    /\ at \in 0..LogHead /\ acked \in 0..LogHead /\ sent \in 0..LogHead
    /\ waits \subseteq 1..LogHead
    /\ cur \in Links \cup {NoLink} /\ acks \in BOOLEAN
    /\ gone \in {"no", "forgotten", "failed"}
    /\ breaks \in 0..MaxBreaks
    /\ side \in [Links -> {"free", "up", "half"}]
    /\ down \in [Links -> Seq(Offsets)]
    /\ back \in [Links -> Seq([off : Offsets, st : {"ok", "rejected", "unknown"}])]
    /\ ackq \in [Links -> Seq(FrameRecords)]
    /\ reader \in [Links -> FrameRecords \cup {NoFrame}]
    /\ capable \in BOOLEAN /\ life \in 1..MaxLife
    /\ seen \in [present : BOOLEAN, last : 0..MaxLog, floor : 0..MaxLog,
                 inflight : [Offsets -> Nat], errs : SUBSET Offsets]
    /\ copies \in [Offsets -> Seq([st : CopyStates, life : 1..MaxLife])]
    /\ lost \subseteq Offsets /\ slipped \subseteq lost
    /\ blind \subseteq Offsets /\ dropped \subseteq Offsets
    /\ \A l \in Links : \A i \in 1..Len(ackq[l]) :
         ackq[l][i].st = "shared" => ackq[l][i].copy \in 1..Len(copies[ackq[l][i].off])

HandledOK(o) == \E k \in 1..Len(copies[o]) : copies[o][k].st = "ok"

\* No false ok: a publish is confirmed only if the acceptor accepted it and
\* its handlers returned, through lost links, copies, pruned results and
\* restarts (onPuback, begin, settle).  Two ways around it are apart: frames
\* begun before the acceptor forgot the stream (see NeverFalseOk), and entries
\* evicted before their publisher registered them, which a later cumulative
\* puback confirms although they were never sent (ackGap finds no wait).
NoFalseOk ==
    \A o \in Offsets : ticket[o] = "ok" => HandledOK(o) \/ o \in dropped \cup slipped

\* The same without the exceptions: an acceptor that forgot a stream publishes
\* its frames again and never answers them with a false ok.
NeverFalseOk == \A o \in Offsets : ticket[o] = "ok" => HandledOK(o)

\* A frame is published once in one life of the acceptor's memory, however
\* often and on however many links it arrives (begin).
PublishedOnce ==
    \A o \in Offsets : \A j, k \in 1..Len(copies[o]) :
        copies[o][j].life = copies[o][k].life => j = k

\* The cumulative offset leaves nothing behind: since a new link rewinds to
\* it, every event at or below it was answered after handling, or its fate
\* was reported: evicted, or sent where nothing acknowledges.
AckedMeansAnswered ==
    \A o \in 1..acked :
        \/ kinds[o] = "skipped"
        \/ o \in lost \cup blind \cup dropped
        \/ \E k \in 1..Len(copies[o]) : copies[o][k].st \in {"ok", "rejected"}

\* An honest acceptor never breaks the link, nor repeats itself: the pubacks
\* under way to the dialer are for frames sent on that link, in frame order,
\* and not yet acknowledged (linkUp's rewind, onSend, flushAcks); only the
\* frame whose write failed on a link without acks is sent again although it
\* was counted as acknowledged.
PubacksExpected ==
    cur # NoLink =>
        /\ \A i \in 1..Len(back[cur]) :
               /\ back[cur][i].off \in acked..sent
               /\ back[cur][i].off = acked => acked \in blind
        /\ \A i, j \in 1..Len(back[cur]) : i < j => back[cur][i].off < back[cur][j].off

\* Disconnect strands no publisher: once the waits of a forgotten address
\* have failed, a publish past its own check has an outcome (failAcks, the check after publishing).
NoTicketStranded ==
    gone = "failed" => \A o \in Offsets : stage[o] = "waiting" => ticket[o] # "open"

\* A frame the acceptor began and gave up: it is remembered, and no reader
\* will ever publish it.
Orphan(o) ==
    \E k \in 1..Len(copies[o]) :
        /\ copies[o][k].st = "begun"
        /\ \A l \in Links : ~(reader[l].off = o /\ reader[l].copy = k)

\* Every frame an acceptor takes in gets handled and answered.
EveryFrameHandled == \A o \in Offsets : ~Orphan(o)

\* What the goroutines do by themselves: publishers, writers, readers and
\* handlers run on, a lost link is redialed, an ended one cleaned up.
Progress ==
    \/ AfterUnlogged
    \/ \E o \in Offsets : OnLogged(o) \/ After(o)
    \/ \E l \in Links : LinkUp(l) \/ Writer(l) \/ OnPuback(l) \/ Acceptor(l)
    \/ \E o \in Offsets : \E k \in 1..Len(copies[o]) : HandlersDone(o, k)

\* No publisher depends on its timeout: while a publish has no outcome, and
\* its address is not forgotten, something is left to run.  Every such step
\* uses something up (links break MaxBreaks times), so that each publish is
\* answered: the rewind and the dedupe get past whatever a lost link left
\* undone, unless a frame was orphaned (see EveryFrameHandled).
NothingStuck ==
    ~Forgot /\ Open # {} => ENABLED Progress \/ \E o \in Offsets : Orphan(o)
=============================================================================
