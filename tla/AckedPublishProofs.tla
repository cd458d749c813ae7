------------------------- MODULE AckedPublishProofs -------------------------
(***************************************************************************)
(* Proofs about AckedPublish, for any number of links, sizes of the ring,  *)
(* of the queues and of the memory, lives of the acceptor and breaks.      *)
(***************************************************************************)
EXTENDS AckedPublish, WellFoundedInduction, TLAPS

-----------------------------------------------------------------------------
(* The inductive invariant. *)

Elems(s) == {s[i] : i \in 1 .. Len(s)}
Offs(F) == {f.off : f \in F}
Increasing(s) == \A i, j \in 1 .. Len(s) : i < j => s[i] < s[j]
IncreasingOff(s) == \A i, j \in 1 .. Len(s) : i < j => s[i].off < s[j].off

\* What is under way on a link, from the newest to the oldest: frames to the
\* acceptor, the frame its reader holds, results in its queue, pubacks.
Reading(l) == IF reader[l] = NoFrame THEN {} ELSE {reader[l]}
Frames(l) == Elems(ackq[l]) \cup Reading(l)
Pipeline(l) == Elems(down[l]) \cup Offs(Frames(l)) \cup Offs(Elems(back[l]))

Skipped == {o \in 1 .. LogHead : kinds[o] = "skipped"}
SettledCopy(o) == \E k \in 1 .. Len(copies[o]) : copies[o][k].st \in {"ok", "rejected"}

\* The types, a group for each part of the state.
LogTypes ==
    /\ kinds \in Seq({"event", "skipped"}) /\ LogHead <= MaxLog
    /\ stage \in [Offsets -> {"none", "logged", "registered", "waiting"}]
    /\ unlogged \in 0 .. MaxLog

TicketTypes == ticket \in [Offsets -> {"none", "open"} \cup Outcomes]

TrackerTypes ==
    /\ at \in 0 .. LogHead /\ acked \in 0 .. LogHead /\ sent \in 0 .. LogHead
    /\ acked <= at \/ (acked = at + 1 /\ acked \in blind)
    /\ waits \subseteq 1 .. LogHead
    /\ blind \subseteq 1 .. LogHead
    /\ lost \subseteq 1 .. Oldest - 1 /\ slipped \subseteq lost

DialerTypes ==
    /\ cur \in Links \cup {NoLink} /\ acks \in BOOLEAN
    /\ gone \in {"no", "forgotten", "failed"} /\ breaks \in 0 .. MaxBreaks

WireTypes ==
    /\ side \in [Links -> {"free", "up", "half"}]
    /\ down \in [Links -> Seq(Offsets)]
    /\ back \in [Links -> Seq([off : Offsets, st : {"ok", "rejected", "unknown"}])]

QueueTypes ==
    /\ ackq \in [Links -> Seq(FrameRecords)]
    /\ reader \in [Links -> FrameRecords \cup {NoFrame}]

MemoryTypes ==
    /\ capable \in BOOLEAN /\ life \in 1 .. MaxLife
    /\ seen \in [present : BOOLEAN, last : 0 .. MaxLog, floor : 0 .. MaxLog,
                 inflight : [Offsets -> Nat], errs : SUBSET Offsets]
    /\ copies \in [Offsets -> Seq([st : CopyStates, life : 1 .. MaxLife])]
    /\ \A o \in Offsets : seen.inflight[o] <= Len(copies[o])
    /\ dropped \subseteq Offsets

Types ==
    /\ LogTypes /\ TicketTypes /\ TrackerTypes /\ DialerTypes /\ WireTypes /\ QueueTypes
    /\ MemoryTypes

\* The two sides of a link.
Sides ==
    /\ \A l \in Links : side[l] = "up" <=> cur = l
    /\ \A l \in Links :
           side[l] = "free" => down[l] = <<>> /\ ackq[l] = <<>> /\ reader[l] = NoFrame
    /\ \A l \in Links : cur # l => back[l] = <<>>
    /\ cur # NoLink /\ ~acks => Pipeline(cur) = {}

\* A result that is shared refers to a frame that was begun; a frame that a
\* reader has yet to publish is one that nothing else settles.
Readers ==
    /\ \A l \in Links : \A f \in Frames(l) :
           f.st = "shared" => f.copy \in 1 .. Len(copies[f.off])
    /\ \A l \in Links : reader[l].new =>
           reader[l].st = "shared" /\ copies[reader[l].off][reader[l].copy].st = "begun"
    /\ \A l, m \in Links :
           /\ reader[l].new /\ reader[m].new
           /\ reader[l].off = reader[m].off /\ reader[l].copy = reader[m].copy
           => l = m

\* What was begun in this life is below the last frame the stream remembers.
Lives ==
    \A o \in Offsets : \A k \in 1 .. Len(copies[o]) :
        /\ copies[o][k].life <= life
        /\ copies[o][k].life = life => seen.present /\ o <= seen.last

\* The dialer's link is a queue of frames that are not acknowledged.
Ordered ==
    cur # NoLink =>
        /\ Increasing(down[cur]) /\ IncreasingOff(ackq[cur]) /\ IncreasingOff(back[cur])
        /\ \A r \in Offs(Reading(cur)) : \A x \in Elems(down[cur]) : r < x
        /\ \A q \in Offs(Elems(ackq[cur])) :
               \A x \in Elems(down[cur]) \cup Offs(Reading(cur)) : q < x
        /\ \A b \in Offs(Elems(back[cur])) :
               \A x \in Elems(down[cur]) \cup Offs(Frames(cur)) : b < x
        /\ \A x \in Pipeline(cur) :
               /\ x \in acked .. at /\ (x = acked => x \in blind)
               /\ x <= sent /\ x \notin Skipped \cup lost

\* What the cursor of a link has passed is acknowledged, under way, or past help.
Tracked ==
    cur # NoLink =>
        \A o \in 1 .. at :
            o \in Skipped \cup lost \cup blind \/ (acks /\ (o <= acked \/ o \in Pipeline(cur)))

\* Nothing will be asked about o, or the acceptor remembers o.
Known(o) == o \in Skipped \cup lost \cup blind \cup dropped \/ o <= acked
Covered(o) == Known(o) \/ (seen.present /\ o <= seen.last)

\* No link brings a frame before the ones below it.
NoHoles ==
    /\ \A l \in Links : \A i \in 1 .. Len(down[l]) : \A p \in 1 .. down[l][i] - 1 :
           Covered(p) \/ \E j \in 1 .. i - 1 : down[l][j] = p
    /\ cur # NoLink => \A p \in 1 .. at : Covered(p) \/ p \in Elems(down[cur])

\* What the stream remembers of a frame is what became of it.
Remembered ==
    seen.present =>
        \A p \in 1 .. seen.last :
            \/ Known(p)
            \/ seen.inflight[p] # 0
            \/ SettledCopy(p) /\ (p \in seen.errs \/ p <= seen.floor \/ HandledOK(p))

\* An answer is the truth about a frame, unless the stream was forgotten or the
\* dialer gave up following the frame.
Truth(o, st) ==
    \/ o \in dropped \cup blind
    \/ SettledCopy(o) /\ (st = "ok" => HandledOK(o))

Answers ==
    cur # NoLink =>
        /\ \A f \in Frames(cur) : f.st # "shared" => Truth(f.off, f.st)
        /\ \A f \in Elems(back[cur]) : Truth(f.off, f.st)

\* A publish without an outcome is registered or about to be, and its entry
\* is neither acknowledged nor passed by the writer, except for one that was
\* evicted before it was registered.
Tickets ==
    /\ \A o \in Offsets : stage[o] = "logged" => o <= LogHead
    /\ \A o \in Offsets : ticket[o] = "open" =>
           /\ o \in waits \/ stage[o] = "logged"
           /\ o \in slipped \/ /\ o \in acked + 1 .. LogHead
                               /\ o \in waits \/ o > at
                               /\ o \notin lost \cup blind /\ (o <= at => o \notin Skipped)

IInv ==
    /\ Types /\ Sides /\ Readers /\ Lives /\ Ordered /\ Tracked /\ NoHoles /\ Remembered
    /\ Answers /\ Tickets
    /\ PublishedOnce /\ AckedMeansAnswered /\ NoFalseOk /\ NoTicketStranded

-----------------------------------------------------------------------------
(* Sequences. *)

LEMMA ElemsEmpty == Elems(<<>>) = {} /\ Increasing(<<>>) /\ IncreasingOff(<<>>)
BY DEF Elems, Increasing, IncreasingOff

LEMMA ElemsTail ==
    ASSUME NEW S, NEW s \in Seq(S), s # <<>>
    PROVE  /\ Elems(s) = {Head(s)} \cup Elems(Tail(s))
           /\ Head(s) \in S /\ Tail(s) \in Seq(S)
           /\ Increasing(s) => Increasing(Tail(s)) /\ \A x \in Elems(Tail(s)) : Head(s) < x
           /\ IncreasingOff(s) =>
                  IncreasingOff(Tail(s)) /\ \A x \in Elems(Tail(s)) : Head(s).off < x.off
<1>1. /\ Len(s) \in Nat /\ Len(s) >= 1 /\ Head(s) = s[1] /\ Tail(s) \in Seq(S)
      /\ Len(Tail(s)) = Len(s) - 1 /\ \A i \in 1 .. Len(s) - 1 : Tail(s)[i] = s[i + 1]
      /\ s[1] \in S
  OBVIOUS
<1>2. Elems(s) = {Head(s)} \cup Elems(Tail(s))
  <2>1. \A i \in 1 .. Len(s) : i = 1 \/ (i - 1 \in 1 .. Len(Tail(s)) /\ s[i] = Tail(s)[i - 1])
    BY <1>1
  <2>2. \A i \in 1 .. Len(Tail(s)) : i + 1 \in 1 .. Len(s) /\ s[i + 1] = Tail(s)[i]
    BY <1>1
  <2>3. 1 \in 1 .. Len(s) BY <1>1
  <2>4. Elems(s) \subseteq {Head(s)} \cup Elems(Tail(s)) BY <1>1, <2>1 DEF Elems
  <2>5. Head(s) \in Elems(s) BY <1>1, <2>3 DEF Elems
  <2>6. Elems(Tail(s)) \subseteq Elems(s) BY <1>1, <2>2 DEF Elems
  <2> QED BY <2>4, <2>5, <2>6
<1>3. Increasing(s) => Increasing(Tail(s)) /\ \A x \in Elems(Tail(s)) : Head(s) < x
  BY <1>1 DEF Increasing, Elems
<1>4. IncreasingOff(s) =>
          IncreasingOff(Tail(s)) /\ \A x \in Elems(Tail(s)) : Head(s).off < x.off
  BY <1>1 DEF IncreasingOff, Elems
<1> QED BY <1>1, <1>2, <1>3, <1>4

LEMMA ElemsAppend ==
    ASSUME NEW S, NEW s \in Seq(S), NEW e \in S
    PROVE  /\ Elems(Append(s, e)) = Elems(s) \cup {e}
           /\ Append(s, e) \in Seq(S)
           /\ Increasing(s) /\ (\A x \in Elems(s) : x < e) => Increasing(Append(s, e))
           /\ IncreasingOff(s) /\ (\A x \in Elems(s) : x.off < e.off)
                  => IncreasingOff(Append(s, e))
<1>1. /\ Len(s) \in Nat /\ Len(Append(s, e)) = Len(s) + 1 /\ Append(s, e) \in Seq(S)
      /\ Append(s, e)[Len(s) + 1] = e /\ \A i \in 1 .. Len(s) : Append(s, e)[i] = s[i]
  OBVIOUS
<1>2. Elems(Append(s, e)) = Elems(s) \cup {e}
  <2>1. 1 .. Len(s) + 1 = (1 .. Len(s)) \cup {Len(s) + 1} BY <1>1
  <2> QED BY <1>1, <2>1 DEF Elems
<1>3. Increasing(s) /\ (\A x \in Elems(s) : x < e) => Increasing(Append(s, e))
  <2>1. \A i, j \in 1 .. Len(s) + 1 : i < j =>
            i \in 1 .. Len(s) /\ (j \in 1 .. Len(s) \/ j = Len(s) + 1)
    BY <1>1
  <2> QED BY <1>1, <2>1 DEF Increasing, Elems
<1>4. IncreasingOff(s) /\ (\A x \in Elems(s) : x.off < e.off) => IncreasingOff(Append(s, e))
  <2>1. \A i, j \in 1 .. Len(s) + 1 : i < j =>
            i \in 1 .. Len(s) /\ (j \in 1 .. Len(s) \/ j = Len(s) + 1)
    BY <1>1
  <2> QED BY <1>1, <2>1 DEF IncreasingOff, Elems
<1> QED BY <1>1, <1>2, <1>3, <1>4

LEMMA ElemsPrefix ==
    ASSUME NEW S, NEW s \in Seq(S), NEW n \in 0 .. Len(s)
    PROVE  /\ SubSeq(s, 1, n) \in Seq(S) /\ Len(SubSeq(s, 1, n)) = n
           /\ \A i \in 1 .. n : SubSeq(s, 1, n)[i] = s[i]
OBVIOUS

LEMMA ElemsOf ==
    ASSUME NEW S, NEW s \in Seq(S)
    PROVE  /\ Elems(s) \subseteq S
           /\ \A i \in 1 .. Len(s) : s[i] \in Elems(s)
           /\ \A x \in Elems(s) : \E i \in 1 .. Len(s) : x = s[i]
BY DEF Elems

-----------------------------------------------------------------------------
(* What a step leaves as it is. *)

\* The log and the histories only grow, and so does what is acknowledged or
\* out of sight.
LogGrows ==
    /\ \A o \in 1 .. acked : o <= acked' \/ o \in blind'
    /\ lost \subseteq lost' /\ slipped \subseteq slipped' /\ blind \subseteq blind'
    /\ dropped \subseteq dropped' /\ Skipped \subseteq Skipped'

\* Copies are added, and one that is settled stays as it is.
CopiesGrow ==
    \A o \in Offsets :
        /\ Len(copies[o]) <= Len(copies'[o])
        /\ \A k \in 1 .. Len(copies[o]) :
               copies[o][k].st \in {"ok", "rejected"} => copies'[o][k].st = copies[o][k].st

LEMMA IntervalGrows ==
    ASSUME NEW a \in Nat, NEW b \in Nat, a <= b
    PROVE  1 .. a \subseteq 1 .. b /\ 1 .. a - 1 \subseteq 1 .. b - 1
OBVIOUS

LEMMA OffsetFacts ==
    ASSUME Types
    PROVE  /\ MaxLog \in Nat /\ LogHead \in Nat /\ LogHead <= MaxLog
           /\ at \in Nat /\ at <= LogHead
           /\ acked \in Nat /\ acked <= LogHead /\ acked <= at + 1
           /\ acked > at => acked \in blind
           /\ sent \in Nat /\ sent <= LogHead
           /\ Oldest \in Nat /\ Oldest >= 1 /\ Oldest <= LogHead + 1
           /\ LogHead >= 1 => Oldest <= LogHead
           /\ 1 .. LogHead \subseteq Offsets /\ 1 .. acked \subseteq Offsets
           /\ 1 .. at \subseteq Offsets
           /\ \A o \in Offsets : o \in Nat /\ o >= 1 /\ o <= MaxLog
           /\ RingSize \in Nat /\ RingSize >= 1
BY BoundsAssumption, SizesAssumption
   DEF Types, LogTypes, TrackerTypes, LogHead, Oldest, Offsets

LEMMA CopiesFacts ==
    ASSUME Types, NEW o \in Offsets
    PROVE  /\ copies[o] \in Seq([st : CopyStates, life : 1 .. MaxLife])
           /\ Len(copies[o]) \in Nat
<1>1. copies[o] \in Seq([st : CopyStates, life : 1 .. MaxLife]) BY DEF Types, MemoryTypes
<1> HIDE DEF CopyStates
<1> QED BY <1>1

LEMMA SeenFacts ==
    ASSUME Types
    PROVE  /\ seen.present \in BOOLEAN /\ seen.last \in 0 .. MaxLog /\ seen.floor \in 0 .. MaxLog
           /\ seen.inflight \in [Offsets -> Nat] /\ seen.errs \in SUBSET Offsets
           /\ \A o \in Offsets : seen.inflight[o] \in Nat
<1>1. seen \in [present : BOOLEAN, last : 0 .. MaxLog, floor : 0 .. MaxLog,
                inflight : [Offsets -> Nat], errs : SUBSET Offsets]
  BY DEF Types, MemoryTypes
<1> QED BY <1>1

LEMMA WireFacts ==
    ASSUME Types, NEW l \in Links
    PROVE  /\ down[l] \in Seq(Offsets)
           /\ back[l] \in Seq([off : Offsets, st : {"ok", "rejected", "unknown"}])
           /\ ackq[l] \in Seq(FrameRecords) /\ reader[l] \in FrameRecords \cup {NoFrame}
           /\ Elems(down[l]) \subseteq Offsets
           /\ Elems(back[l]) \subseteq [off : Offsets, st : {"ok", "rejected", "unknown"}]
           /\ Frames(l) \subseteq FrameRecords
           /\ \A f \in Frames(l) : f.off \in Offsets
           /\ \A f \in Elems(back[l]) : f.off \in Offsets
           /\ Pipeline(l) \subseteq Offsets
<1>1. /\ down[l] \in Seq(Offsets)
      /\ back[l] \in Seq([off : Offsets, st : {"ok", "rejected", "unknown"}])
      /\ ackq[l] \in Seq(FrameRecords) /\ reader[l] \in FrameRecords \cup {NoFrame}
  BY DEF Types, WireTypes, QueueTypes
<1>2. /\ Elems(down[l]) \subseteq Offsets
      /\ Elems(back[l]) \subseteq [off : Offsets, st : {"ok", "rejected", "unknown"}]
      /\ Elems(ackq[l]) \subseteq FrameRecords
  BY <1>1, ElemsOf
<1>3. Frames(l) \subseteq FrameRecords BY <1>1, <1>2 DEF Frames, Reading
<1>4. \A f \in FrameRecords : f.off \in Offsets BY DEF FrameRecords
<1>5. \A f \in Elems(back[l]) : f.off \in Offsets BY <1>2
<1>6. Pipeline(l) \subseteq Offsets BY <1>2, <1>3, <1>4, <1>5 DEF Pipeline, Offs
<1> QED BY <1>1, <1>2, <1>3, <1>4, <1>5, <1>6

LEMMA TruthGrows ==
    ASSUME Types, Types', CopiesGrow, LogGrows, NEW o \in Offsets
    PROVE  /\ SettledCopy(o) => SettledCopy(o)'
           /\ HandledOK(o) => HandledOK(o)'
           /\ \A st : Truth(o, st) => Truth(o, st)'
<1>1. /\ Len(copies[o]) \in Nat /\ Len(copies'[o]) \in Nat
      /\ Len(copies[o]) <= Len(copies'[o])
      /\ \A k \in 1 .. Len(copies[o]) :
             copies[o][k].st \in {"ok", "rejected"} => copies'[o][k].st = copies[o][k].st
  <2>1. Len(copies'[o]) \in Nat BY DEF Types, MemoryTypes
  <2> QED BY <2>1, CopiesFacts DEF CopiesGrow
<1>2. \A k \in 1 .. Len(copies[o]) : k \in 1 .. Len(copies'[o]) BY <1>1
<1>3. SettledCopy(o) => SettledCopy(o)' BY <1>1, <1>2 DEF SettledCopy
<1>4. HandledOK(o) => HandledOK(o)' BY <1>1, <1>2 DEF HandledOK
<1> QED BY <1>3, <1>4 DEF Truth, LogGrows

LEMMA KnownGrows ==
    ASSUME Types, Types', LogGrows, NEW o \in Nat
    PROVE  Known(o) => Known(o)'
BY OffsetFacts DEF Known, LogGrows, Types, TrackerTypes

\* Nothing of the log and its histories changes.
LEMMA LogKept ==
    ASSUME Types, UNCHANGED <<kinds, acked, lost, slipped, blind, dropped>>
    PROVE  LogGrows /\ Skipped' = Skipped /\ Oldest' = Oldest /\ LogHead' = LogHead
BY OffsetFacts DEF LogGrows, Skipped, Oldest, LogHead

LEMMA CopiesKept == ASSUME UNCHANGED copies PROVE CopiesGrow
BY DEF CopiesGrow

\* The links, and what is on them.
onLinks == <<cur, acks, side, down, back, ackq, reader>>

LEMMA PipelineKept ==
    ASSUME NEW l, UNCHANGED <<down, back, ackq, reader>>
    PROVE  /\ Pipeline(l)' = Pipeline(l) /\ Frames(l)' = Frames(l) /\ Reading(l)' = Reading(l)
BY DEF Pipeline, Frames, Reading

LEMMA SidesKept == ASSUME Sides, UNCHANGED onLinks PROVE Sides'
BY PipelineKept DEF Sides, onLinks

LEMMA ReadersKept == ASSUME Readers, UNCHANGED <<ackq, reader, copies>> PROVE Readers'
BY DEF Readers, Frames, Reading

LEMMA LivesKept == ASSUME Lives, UNCHANGED <<seen, copies, life>> PROVE Lives'
BY DEF Lives

LEMMA PublishedOnceKept == ASSUME PublishedOnce, UNCHANGED copies PROVE PublishedOnce'
BY DEF PublishedOnce

\* The links stay as they are, and what the log says of their frames too.
LEMMA OrderedKept ==
    ASSUME Types, Ordered, UNCHANGED <<onLinks, acked, blind>>,
           at <= at', sent <= sent', at' \in Nat, sent' \in Nat,
           \A x \in 1 .. at : x \in (Skipped \cup lost)' => x \in Skipped \cup lost
    PROVE  Ordered'
<1> SUFFICES ASSUME cur # NoLink PROVE Ordered'
  BY DEF Ordered, onLinks
<1>1. /\ down' = down /\ ackq' = ackq /\ back' = back /\ cur' = cur /\ acked' = acked
      /\ Pipeline(cur)' = Pipeline(cur) /\ Frames(cur)' = Frames(cur)
      /\ Reading(cur)' = Reading(cur)
  BY PipelineKept DEF onLinks
<1>2. \A x \in Pipeline(cur) :
          /\ x \in acked .. at' /\ (x = acked => x \in blind')
          /\ x <= sent' /\ x \notin (Skipped \cup lost)'
  <2>1. cur \in Links BY DEF Types, DialerTypes
  <2> SUFFICES ASSUME NEW x \in Pipeline(cur)
               PROVE  /\ x \in acked .. at' /\ (x = acked => x \in blind')
                      /\ x <= sent' /\ x \notin (Skipped \cup lost)'
    OBVIOUS
  <2>2. x \in Nat /\ x >= 1 BY <2>1, WireFacts, OffsetFacts
  <2>3. /\ x \in acked .. at /\ (x = acked => x \in blind)
        /\ x <= sent /\ x \notin Skipped \cup lost
    BY DEF Ordered
  <2>4. x \in 1 .. at /\ x <= at' /\ x <= sent' BY <2>2, <2>3, OffsetFacts
  <2>5. x \in acked .. at' BY <2>3, <2>4, OffsetFacts
  <2> QED BY <2>3, <2>4, <2>5
<1> QED BY <1>1, <1>2 DEF Ordered

LEMMA NoHolesKept ==
    ASSUME Types, Types', NoHoles, LogGrows, UNCHANGED <<seen, down, cur>>,
           cur # NoLink => at' = at
    PROVE  NoHoles'
<1>1. \A p \in Nat : Covered(p) => Covered(p)' BY KnownGrows DEF Covered
<1>2. \A l \in Links : \A i \in 1 .. Len(down[l]) : \A p \in 1 .. down[l][i] - 1 :
          p \in Nat
  OBVIOUS
<1>3. \A l \in Links : \A i \in 1 .. Len(down[l]) : \A p \in 1 .. down[l][i] - 1 :
          Covered(p)' \/ \E j \in 1 .. i - 1 : down[l][j] = p
  BY <1>1, <1>2 DEF NoHoles
<1>4. \A p \in 1 .. at : p \in Nat BY OffsetFacts
<1>5. cur # NoLink => \A p \in 1 .. at : Covered(p)' \/ p \in Elems(down[cur])
  BY <1>1, <1>4 DEF NoHoles
<1> QED BY <1>3, <1>5 DEF NoHoles

LEMMA RememberedKept ==
    ASSUME Types, Types', Remembered, LogGrows, CopiesGrow, UNCHANGED seen
    PROVE  Remembered'
<1>1. \A p \in 1 .. seen.last : p \in Nat /\ p \in Offsets
  BY SeenFacts, OffsetFacts DEF Offsets
<1> QED BY <1>1, KnownGrows, TruthGrows DEF Remembered

LEMMA AnswersKept ==
    ASSUME Types, Types', Answers, CopiesGrow, LogGrows, UNCHANGED onLinks
    PROVE  Answers'
<1> SUFFICES ASSUME cur # NoLink PROVE Answers' BY DEF Answers, onLinks
<1>1. Frames(cur)' = Frames(cur) /\ back' = back /\ cur' = cur BY PipelineKept DEF onLinks
<1>2. cur \in Links BY DEF Types, DialerTypes
<1>3. /\ \A f \in Frames(cur) : f.off \in Offsets
      /\ \A f \in Elems(back[cur]) : f.off \in Offsets
  BY <1>2, WireFacts
<1> QED BY <1>1, <1>2, <1>3, TruthGrows DEF Answers

LEMMA AckedKept ==
    ASSUME Types, Types', AckedMeansAnswered, LogGrows, CopiesGrow, UNCHANGED acked
    PROVE  AckedMeansAnswered'
<1>1. \A o \in 1 .. acked :
          /\ o \in Offsets /\ o \in 1 .. LogHead
          /\ (\E k \in 1 .. Len(copies[o]) : copies[o][k].st \in {"ok", "rejected"})
                 => SettledCopy(o)'
  <2>1. \A o \in 1 .. acked : o \in Offsets /\ o \in 1 .. LogHead BY OffsetFacts
  <2>2. \A o \in Offsets : SettledCopy(o) => SettledCopy(o)' BY TruthGrows
  <2>3. \A o : SettledCopy(o) <=>
            \E k \in 1 .. Len(copies[o]) : copies[o][k].st \in {"ok", "rejected"}
    BY DEF SettledCopy
  <2> QED BY <2>1, <2>2, <2>3
<1>2. \A o \in 1 .. acked : kinds[o] = "skipped" => kinds'[o] = "skipped"
  BY <1>1 DEF Skipped, LogGrows
<1> QED BY <1>1, <1>2 DEF AckedMeansAnswered, SettledCopy, LogGrows

LEMMA NoFalseOkKept ==
    ASSUME Types, Types', NoFalseOk, CopiesGrow, LogGrows,
           \A o \in Offsets : ticket'[o] = "ok" => ticket[o] = "ok"
    PROVE  NoFalseOk'
BY TruthGrows DEF NoFalseOk, LogGrows

-----------------------------------------------------------------------------
(* The publisher. *)

LEMMA Resolved ==
    ASSUME TicketTypes, NEW S, NEW code \in Outcomes, Resolve(S, code)
    PROVE  /\ TicketTypes'
           /\ \A o \in Offsets : ticket'[o] = ticket[o] \/ ticket'[o] = code
           /\ \A o \in Offsets : ticket'[o] = "open" => ticket[o] = "open" /\ o \notin S
           /\ \A o \in S : o \in Offsets => ticket'[o] # "open"
<1>1. "open" \notin Outcomes BY DEF Outcomes
<1> HIDE DEF Outcomes
<1> QED BY <1>1 DEF TicketTypes, Resolve

LEMMA InitInv == ASSUME Init PROVE IInv
<1> USE BoundsAssumption, SizesAssumption, LinksAssumption
<1>1. /\ kinds = <<>> /\ LogHead = 0 /\ Oldest = 1 /\ Skipped = {}
      /\ at = 0 /\ acked = 0 /\ sent = 0 /\ waits = {} /\ cur = NoLink /\ life = 1
      /\ lost = {} /\ slipped = {} /\ blind = {} /\ dropped = {} /\ seen = Forgotten
      /\ gone = "no" /\ unlogged = 0
      /\ \A o \in Offsets : stage[o] = "none" /\ ticket[o] = "none" /\ copies[o] = <<>>
      /\ \A l \in Links : /\ side[l] = "free" /\ down[l] = <<>> /\ back[l] = <<>>
                          /\ ackq[l] = <<>> /\ reader[l] = NoFrame
  BY DEF Init, LogHead, Oldest, Skipped
<1>2. Forgotten \in [present : BOOLEAN, last : 0 .. MaxLog, floor : 0 .. MaxLog,
                     inflight : [Offsets -> Nat], errs : SUBSET Offsets]
      /\ ~Forgotten.present /\ \A o \in Offsets : Forgotten.inflight[o] = 0
  BY DEF Forgotten
<1>3. Types
  <2>1. LogTypes /\ TicketTypes BY <1>1 DEF Init, LogTypes, TicketTypes
  <2>2. TrackerTypes BY <1>1 DEF TrackerTypes
  <2>3. DialerTypes
    <3>1. acks \in BOOLEAN /\ breaks = 0 BY DEF Init
    <3> QED BY <1>1, <3>1 DEF DialerTypes
  <2>4. WireTypes BY DEF Init, WireTypes
  <2>5. QueueTypes BY DEF Init, QueueTypes
  <2>6. MemoryTypes
    <3>1. copies \in [Offsets -> Seq([st : CopyStates, life : 1 .. MaxLife])] BY DEF Init
    <3>2. \A o \in Offsets : seen.inflight[o] <= Len(copies[o]) BY <1>1, <1>2
    <3>3. capable \in BOOLEAN /\ life \in 1 .. MaxLife BY DEF Init
    <3> QED BY <1>1, <1>2, <3>1, <3>2, <3>3 DEF MemoryTypes
  <2> QED BY <2>1, <2>2, <2>3, <2>4, <2>5, <2>6 DEF Types
<1>4. \A l \in Links : Frames(l) = {} /\ reader[l].new = FALSE
  BY <1>1, ElemsEmpty DEF Frames, Reading, NoFrame
<1>5. Sides BY <1>1, <1>4 DEF Sides
<1>6. Readers BY <1>1, <1>4 DEF Readers
<1>7. Lives BY <1>1 DEF Lives
<1>8. Ordered /\ Tracked /\ Answers BY <1>1 DEF Ordered, Tracked, Answers
<1>9. NoHoles BY <1>1 DEF NoHoles
<1>10. Remembered BY <1>1, <1>2 DEF Remembered
<1>11. Tickets BY <1>1 DEF Tickets
<1>12. PublishedOnce /\ NoFalseOk /\ NoTicketStranded
  BY <1>1 DEF PublishedOnce, NoFalseOk, NoTicketStranded
<1>13. AckedMeansAnswered BY <1>1 DEF AckedMeansAnswered
<1> QED
  BY <1>3, <1>5, <1>6, <1>7, <1>8, <1>9, <1>10, <1>11, <1>12, <1>13 DEF IInv

LEMMA PublishAckedInv ==
    ASSUME IInv, NEW k \in {"event", "skipped"}, PublishAcked(k)
    PROVE  IInv'
<1> DEFINE n == LogHead + 1
<1> USE DEF IInv
<1>1. /\ UNCHANGED onLinks /\ UNCHANGED <<at, acked, sent, waits, gone, breaks>>
      /\ UNCHANGED <<capable, life, seen, copies, lost, slipped, blind, dropped>>
  BY DEF PublishAcked, onLinks, trackerVars, dialerVars, wireVars, acceptorVars, historyVars
<1>2. /\ LogHead \in Nat /\ n \in Offsets /\ n <= MaxLog
      /\ unlogged \in 0 .. MaxLog
      /\ kinds' = Append(kinds, k) /\ LogHead' = n /\ kinds'[n] = k
      /\ \A o \in 1 .. LogHead : kinds'[o] = kinds[o]
  BY OffsetFacts DEF PublishAcked, Types, LogTypes, LogHead, Offsets
<1>3. /\ stage'[n] = "logged" /\ ticket'[n] = "open"
      /\ \A o \in Offsets : o # n => stage'[o] = stage[o] /\ ticket'[o] = ticket[o]
      /\ unlogged' = unlogged
  BY <1>2 DEF PublishAcked, Types, LogTypes, TicketTypes
<1>4. /\ Skipped \subseteq Skipped'
      /\ \A o \in 1 .. LogHead : o \in Skipped' => o \in Skipped
      /\ Oldest' \in Nat /\ Oldest <= Oldest'
  <2>1. RingSize \in Nat /\ RingSize >= 1 /\ LogHead \in Nat /\ LogHead' = LogHead + 1
    BY <1>2, OffsetFacts
  <2>2. Oldest' \in Nat /\ Oldest <= Oldest' BY <2>1 DEF Oldest
  <2>3. \A o \in 1 .. LogHead : o \in 1 .. LogHead' BY <2>1
  <2> QED BY <1>2, <2>2, <2>3 DEF Skipped
<1>5. LogGrows /\ CopiesGrow
  BY <1>1, <1>4, CopiesKept, OffsetFacts DEF LogGrows
<1>6. Types'
  <2>1. LogTypes'
    <3>1. kinds' \in Seq({"event", "skipped"}) BY <1>2 DEF Types, LogTypes
    <3>2. stage' \in [Offsets -> {"none", "logged", "registered", "waiting"}]
      BY DEF PublishAcked, Types, LogTypes
    <3> QED BY <1>2, <1>3, <3>1, <3>2 DEF LogTypes
  <2>2. TicketTypes' BY DEF PublishAcked, Types, TicketTypes
  <2>3. TrackerTypes'
    <3>1. TrackerTypes BY DEF Types
    <3>2. 1 .. LogHead \subseteq 1 .. LogHead' /\ 1 .. Oldest - 1 \subseteq 1 .. Oldest' - 1
      <4>1. LogHead \in Nat /\ LogHead' = LogHead + 1 BY <1>2
      <4>2. Oldest \in Nat /\ Oldest' \in Nat /\ Oldest <= Oldest' BY <1>4, OffsetFacts
      <4>3. LogHead' \in Nat /\ LogHead <= LogHead' BY ONLY <4>1
      <4>4. 1 .. LogHead \subseteq 1 .. LogHead' BY ONLY <4>1, <4>3, IntervalGrows
      <4>5. 1 .. Oldest - 1 \subseteq 1 .. Oldest' - 1 BY ONLY <4>2, IntervalGrows
      <4> QED BY ONLY <4>4, <4>5
    <3>3. 0 .. LogHead \subseteq 0 .. LogHead' BY <1>2
    <3> QED BY <1>1, <3>1, <3>2, <3>3 DEF TrackerTypes
  <2>4. DialerTypes' /\ WireTypes' /\ QueueTypes' /\ MemoryTypes'
    BY <1>1 DEF onLinks, Types, DialerTypes, WireTypes, QueueTypes, MemoryTypes
  <2> QED BY <2>1, <2>2, <2>3, <2>4 DEF Types
<1>7. Sides' /\ Readers' /\ Lives' /\ PublishedOnce'
  BY <1>1, SidesKept, ReadersKept, LivesKept, PublishedOnceKept DEF onLinks
<1>8. Ordered'
  <2>1. \A x \in 1 .. at : x \in (Skipped \cup lost)' => x \in Skipped \cup lost
    BY <1>1, <1>4, OffsetFacts
  <2> QED BY <1>1, <2>1, OrderedKept, OffsetFacts
<1>9. Tracked' BY <1>1, <1>4, PipelineKept DEF Tracked, onLinks
<1>10. NoHoles' BY <1>1, <1>5, <1>6, NoHolesKept DEF onLinks
<1>11. Remembered' /\ Answers' /\ AckedMeansAnswered'
  BY <1>1, <1>5, <1>6, RememberedKept, AnswersKept, AckedKept
<1>12. Tickets'
  <2>1. n \notin lost \cup blind /\ n > at /\ n > acked BY OffsetFacts DEF Types, TrackerTypes
  <2>2. n = LogHead' /\ n \in Nat /\ n = LogHead + 1 BY <1>2, OffsetFacts
  <2>3. \A o \in Offsets : stage'[o] = "logged" => o <= LogHead'
    BY <1>2, <1>3, <2>2, OffsetFacts DEF Tickets
  <2>4. ASSUME NEW o \in Offsets, ticket'[o] = "open"
        PROVE  /\ o \in waits' \/ stage'[o] = "logged"
               /\ o \in slipped' \/ /\ o \in acked' + 1 .. LogHead'
                                    /\ o \in waits' \/ o > at'
                                    /\ o \notin lost' \cup blind'
                                    /\ (o <= at' => o \notin Skipped')
    <3>1. CASE o = n
      <4>1. o \in acked' + 1 .. LogHead' /\ o > at' BY <1>1, <2>1, <2>2, <3>1, OffsetFacts
      <4>2. ~(o <= at') BY <1>1, <4>1, <2>2, <3>1, OffsetFacts
      <4> QED BY <1>1, <1>3, <2>1, <3>1, <4>1, <4>2
    <3>2. CASE o # n
      <4>1. ticket[o] = "open" /\ stage'[o] = stage[o] BY <1>3, <2>4, <3>2
      <4>2. /\ o \in waits \/ stage[o] = "logged"
            /\ o \in slipped \/ /\ o \in acked + 1 .. LogHead /\ (o \in waits \/ o > at)
                                /\ o \notin lost \cup blind /\ (o <= at => o \notin Skipped)
        BY <4>1 DEF Tickets
      <4>3. o \in acked + 1 .. LogHead => o \in acked + 1 .. LogHead' /\ o \in 1 .. LogHead
        BY <2>2, OffsetFacts
      <4> QED BY <1>1, <1>4, <4>1, <4>2, <4>3
    <3> QED BY <3>1, <3>2
  <2> QED BY <2>3, <2>4 DEF Tickets
<1>13. NoFalseOk' BY <1>1, <1>3, <1>5, <1>6, NoFalseOkKept
<1>14. NoTicketStranded' BY <1>1, <1>2, <1>3 DEF NoTicketStranded
<1> QED BY <1>6, <1>7, <1>8, <1>9, <1>10, <1>11, <1>12, <1>13, <1>14

\* A step of the publisher that only concerns tickets.
LEMMA QuietInv ==
    ASSUME IInv, UNCHANGED onLinks,
           UNCHANGED <<kinds, at, acked, sent, breaks, capable, life, seen, copies, lost, slipped,
                       blind, dropped>>,
           stage' \in [Offsets -> {"none", "logged", "registered", "waiting"}],
           unlogged' \in 0 .. MaxLog, TicketTypes', waits' \subseteq 1 .. LogHead,
           gone' \in {"no", "forgotten", "failed"},
           \A o \in Offsets : ticket'[o] = "ok" => ticket[o] = "ok",
           Tickets', NoTicketStranded'
    PROVE  IInv'
<1> USE DEF IInv
<1>1. LogGrows /\ CopiesGrow /\ Skipped' = Skipped /\ Oldest' = Oldest /\ LogHead' = LogHead
  BY LogKept, CopiesKept
<1>2. Types'
  <2>1. LogTypes' BY <1>1 DEF Types, LogTypes
  <2>2. TrackerTypes' BY <1>1 DEF Types, TrackerTypes
  <2>3. DialerTypes' /\ WireTypes' /\ QueueTypes' /\ MemoryTypes'
    BY DEF onLinks, Types, DialerTypes, WireTypes, QueueTypes, MemoryTypes
  <2> QED BY <2>1, <2>2, <2>3 DEF Types
<1>3. Sides' /\ Readers' /\ Lives' /\ PublishedOnce'
  BY SidesKept, ReadersKept, LivesKept, PublishedOnceKept DEF onLinks
<1>4. Ordered' BY <1>1, OrderedKept, OffsetFacts
<1>5. Tracked' BY <1>1, PipelineKept DEF Tracked, onLinks
<1>6. NoHoles' BY <1>1, <1>2, NoHolesKept DEF onLinks
<1>7. Remembered' /\ Answers' /\ AckedMeansAnswered' /\ NoFalseOk'
  BY <1>1, <1>2, RememberedKept, AnswersKept, AckedKept, NoFalseOkKept
<1> QED BY <1>2, <1>3, <1>4, <1>5, <1>6, <1>7

LEMMA OnLoggedInv ==
    ASSUME IInv, NEW o \in Offsets, OnLogged(o)
    PROVE  IInv'
<1>1. /\ UNCHANGED onLinks
      /\ UNCHANGED <<kinds, at, acked, sent, breaks, capable, life, seen, copies, lost, slipped,
                     blind, dropped>>
      /\ UNCHANGED <<unlogged, ticket, gone>>
  BY DEF OnLogged, onLinks, dialerVars, wireVars, acceptorVars, historyVars
<1>2. /\ stage[o] = "logged" /\ stage'[o] = "registered"
      /\ stage' \in [Offsets -> {"none", "logged", "registered", "waiting"}]
      /\ \A p \in Offsets : p # o => stage'[p] = stage[p]
      /\ waits' = waits \cup {o}
  BY DEF OnLogged, IInv, Types, LogTypes
<1>3. waits' \subseteq 1 .. LogHead
  <2>1. o <= LogHead BY <1>2 DEF IInv, Tickets
  <2>2. o \in 1 .. LogHead BY <2>1, OffsetFacts DEF IInv
  <2> QED BY <1>2, <2>2 DEF IInv, Types, TrackerTypes
<1>4. LogHead' = LogHead /\ Skipped' = Skipped BY <1>1, LogKept DEF IInv
<1>5. Tickets' BY <1>1, <1>2, <1>4 DEF IInv, Tickets
<1>6. NoTicketStranded' BY <1>1, <1>2 DEF IInv, NoTicketStranded
<1>7. TicketTypes' /\ gone' \in {"no", "forgotten", "failed"} /\ unlogged' \in 0 .. MaxLog
  BY <1>1 DEF IInv, Types, LogTypes, TicketTypes, DialerTypes
<1> QED BY <1>1, <1>2, <1>3, <1>5, <1>6, <1>7, QuietInv

LEMMA AfterInv ==
    ASSUME IInv, NEW o \in Offsets, After(o)
    PROVE  IInv'
<1>1. /\ UNCHANGED onLinks
      /\ UNCHANGED <<kinds, at, acked, sent, breaks, capable, life, seen, copies, lost, slipped,
                     blind, dropped>>
      /\ UNCHANGED <<unlogged, waits, gone>>
  BY DEF After, onLinks, trackerVars, dialerVars, wireVars, acceptorVars, historyVars
<1>2. /\ stage[o] = "registered" /\ stage'[o] = "waiting"
      /\ stage' \in [Offsets -> {"none", "logged", "registered", "waiting"}]
      /\ \A p \in Offsets : p # o => stage'[p] = stage[p]
  BY DEF After, IInv, Types, LogTypes
<1>3. /\ TicketTypes'
      /\ \A p \in Offsets : ticket'[p] = "ok" => ticket[p] = "ok"
      /\ \A p \in Offsets : ticket'[p] = "open" => ticket[p] = "open"
      /\ gone = "failed" => ticket'[o] # "open"
  <2>1. \/ Resolve({o}, "unavailable")
        \/ Resolve({o}, "evicted")
        \/ gone = "no" /\ ticket' = ticket
    BY DEF After, Forgot
  <2>2. {"unavailable", "evicted"} \subseteq Outcomes BY DEF Outcomes
  <2>3. TicketTypes BY DEF IInv, Types
  <2>4. CASE Resolve({o}, "unavailable") BY <2>2, <2>3, <2>4, Resolved
  <2>5. CASE Resolve({o}, "evicted") BY <2>2, <2>3, <2>5, Resolved
  <2>6. CASE gone = "no" /\ ticket' = ticket BY <2>3, <2>6 DEF TicketTypes
  <2> QED BY <2>1, <2>4, <2>5, <2>6
<1>4. LogHead' = LogHead /\ Skipped' = Skipped BY <1>1, LogKept DEF IInv
<1>5. Tickets' BY <1>1, <1>2, <1>3, <1>4 DEF IInv, Tickets
<1>6. NoTicketStranded' BY <1>1, <1>2, <1>3 DEF IInv, NoTicketStranded
<1>7. /\ waits' \subseteq 1 .. LogHead /\ gone' \in {"no", "forgotten", "failed"}
      /\ unlogged' \in 0 .. MaxLog
  BY <1>1 DEF IInv, Types, LogTypes, TrackerTypes, DialerTypes
<1> QED BY <1>1, <1>2, <1>3, <1>5, <1>6, <1>7, QuietInv

LEMMA TimeoutInv ==
    ASSUME IInv, NEW o \in Offsets, Timeout(o)
    PROVE  IInv'
<1>1. /\ UNCHANGED onLinks
      /\ UNCHANGED <<kinds, at, acked, sent, breaks, capable, life, seen, copies, lost, slipped,
                     blind, dropped>>
      /\ UNCHANGED <<stage, unlogged, waits, gone>>
  BY DEF Timeout, onLinks, publisherVars, trackerVars, dialerVars, wireVars, acceptorVars,
         historyVars
<1>2. /\ TicketTypes'
      /\ \A p \in Offsets : ticket'[p] = "ok" => ticket[p] = "ok"
      /\ \A p \in Offsets : ticket'[p] = "open" => ticket[p] = "open"
  <2>1. "timeout" \in Outcomes BY DEF Outcomes
  <2> QED BY <2>1, Resolved DEF IInv, Types, Timeout
<1>3. LogHead' = LogHead /\ Skipped' = Skipped BY <1>1, LogKept DEF IInv
<1>4. Tickets' BY <1>1, <1>2, <1>3 DEF IInv, Tickets
<1>5. NoTicketStranded' BY <1>1, <1>2 DEF IInv, NoTicketStranded
<1>6. /\ waits' \subseteq 1 .. LogHead /\ gone' \in {"no", "forgotten", "failed"}
      /\ unlogged' \in 0 .. MaxLog
      /\ stage' \in [Offsets -> {"none", "logged", "registered", "waiting"}]
  BY <1>1 DEF IInv, Types, LogTypes, TrackerTypes, DialerTypes
<1> QED BY <1>1, <1>2, <1>4, <1>5, <1>6, QuietInv

LEMMA DisconnectInv ==
    ASSUME IInv, Disconnect
    PROVE  IInv'
<1>1. /\ UNCHANGED onLinks
      /\ UNCHANGED <<kinds, at, acked, sent, breaks, capable, life, seen, copies, lost, slipped,
                     blind, dropped>>
      /\ UNCHANGED <<stage, unlogged, waits, ticket>> /\ gone' = "forgotten"
  BY DEF Disconnect, onLinks, publisherVars, trackerVars, wireVars, acceptorVars, historyVars
<1>2. LogHead' = LogHead /\ Skipped' = Skipped BY <1>1, LogKept DEF IInv
<1>3. Tickets' BY <1>1, <1>2 DEF IInv, Tickets
<1>4. NoTicketStranded' BY <1>1 DEF NoTicketStranded
<1>5. /\ waits' \subseteq 1 .. LogHead /\ TicketTypes' /\ unlogged' \in 0 .. MaxLog
      /\ stage' \in [Offsets -> {"none", "logged", "registered", "waiting"}]
  BY <1>1 DEF IInv, Types, LogTypes, TicketTypes, TrackerTypes
<1> QED BY <1>1, <1>3, <1>4, <1>5, QuietInv

LEMMA FailAcksInv ==
    ASSUME IInv, FailAcks
    PROVE  IInv'
<1>1. /\ UNCHANGED onLinks
      /\ UNCHANGED <<kinds, at, acked, sent, breaks, capable, life, seen, copies, lost, slipped,
                     blind, dropped>>
      /\ UNCHANGED <<stage, unlogged>> /\ gone' = "failed" /\ waits' = {}
  BY DEF FailAcks, onLinks, publisherVars, wireVars, acceptorVars, historyVars
<1>2. /\ TicketTypes'
      /\ \A p \in Offsets : ticket'[p] = "ok" => ticket[p] = "ok"
      /\ \A p \in Offsets : ticket'[p] = "open" => ticket[p] = "open" /\ p \notin waits
  <2>1. "unavailable" \in Outcomes BY DEF Outcomes
  <2> QED BY <2>1, Resolved DEF IInv, Types, FailAcks
<1>3. LogHead' = LogHead /\ Skipped' = Skipped BY <1>1, LogKept DEF IInv
<1>4. Tickets' BY <1>1, <1>2, <1>3 DEF IInv, Tickets
<1>5. NoTicketStranded' BY <1>1, <1>2 DEF IInv, Tickets, NoTicketStranded
<1>6. /\ stage' \in [Offsets -> {"none", "logged", "registered", "waiting"}]
      /\ unlogged' \in 0 .. MaxLog
  BY <1>1 DEF IInv, Types, LogTypes
<1> QED BY <1>1, <1>2, <1>4, <1>5, <1>6, QuietInv

\* A publisher whose event is not logged touches nothing but its own count.
LEMMA UnloggedInv ==
    ASSUME IInv, PublishUnlogged \/ AfterUnlogged
    PROVE  IInv'
<1>1. /\ UNCHANGED onLinks
      /\ UNCHANGED <<kinds, at, acked, sent, breaks, capable, life, seen, copies, lost, slipped,
                     blind, dropped>>
      /\ UNCHANGED <<stage, ticket, waits, gone>>
  BY DEF PublishUnlogged, AfterUnlogged, onLinks, trackerVars, dialerVars, wireVars,
         acceptorVars, historyVars
<1>2. unlogged' \in 0 .. MaxLog
  <2>1. unlogged \in 0 .. MaxLog /\ MaxLog \in Nat /\ LogHead \in Nat
    BY OffsetFacts DEF IInv, Types, LogTypes
  <2>2. CASE PublishUnlogged
    <3>1. LogHead + unlogged < MaxLog /\ unlogged' = unlogged + 1 BY <2>2 DEF PublishUnlogged
    <3> QED BY ONLY <2>1, <3>1
  <2>3. CASE AfterUnlogged
    <3>1. unlogged > 0 /\ unlogged' = unlogged - 1 BY <2>3 DEF AfterUnlogged
    <3> QED BY ONLY <2>1, <3>1
  <2> QED BY <2>2, <2>3
<1>3. LogHead' = LogHead /\ Skipped' = Skipped BY <1>1, LogKept DEF IInv
<1>4. Tickets' /\ NoTicketStranded' BY <1>1, <1>3 DEF IInv, Tickets, NoTicketStranded
<1>5. /\ stage' \in [Offsets -> {"none", "logged", "registered", "waiting"}]
      /\ TicketTypes' /\ waits' \subseteq 1 .. LogHead
      /\ gone' \in {"no", "forgotten", "failed"}
  BY <1>1 DEF IInv, Types, LogTypes, TicketTypes, TrackerTypes, DialerTypes
<1> QED BY <1>1, <1>2, <1>4, <1>5, QuietInv

-----------------------------------------------------------------------------
(* The dialer's link. *)

\* A link whose acceptor's side is free has nothing on it.
LEMMA FreeLink ==
    ASSUME IInv, NEW l \in Links, side[l] = "free"
    PROVE  /\ down[l] = <<>> /\ back[l] = <<>> /\ ackq[l] = <<>> /\ reader[l] = NoFrame
           /\ Frames(l) = {} /\ Reading(l) = {} /\ Pipeline(l) = {}
<1>1. down[l] = <<>> /\ back[l] = <<>> /\ ackq[l] = <<>> /\ reader[l] = NoFrame
  BY DEF IInv, Sides
<1>2. Reading(l) = {} BY <1>1 DEF Reading
<1>3. Frames(l) = {} BY <1>1, <1>2, ElemsEmpty DEF Frames
<1> QED BY <1>1, <1>2, <1>3, ElemsEmpty DEF Pipeline, Offs

LEMMA LinkUpInv ==
    ASSUME IInv, NEW l \in Links, LinkUp(l)
    PROVE  IInv'
<1> USE DEF IInv
<1>1. /\ UNCHANGED <<down, back, ackq, reader, capable, life, seen, copies, lost, slipped, dropped>>
      /\ UNCHANGED <<kinds, stage, unlogged, gone, breaks>>
      /\ cur = NoLink /\ cur' = l /\ acks' = capable /\ gone = "no" /\ side[l] = "free"
      /\ side' = [side EXCEPT ![l] = "up"]
  BY DEF LinkUp, publisherVars, acceptorVars, Forgot
<1>2. l # NoLink BY LinksAssumption
<1>3. /\ \/ /\ at' = Rewound /\ sent' = at' /\ capable
            /\ acked' = acked /\ waits' = waits /\ ticket' = ticket /\ blind' = blind
         \/ /\ acked' = at /\ sent' = at /\ waits' = {} /\ at' = at /\ ~capable
            /\ Resolve(waits, "unsupported") /\ blind' = blind \cup 1 .. at
  BY DEF LinkUp
<1>21. /\ Rewound \in Nat /\ Rewound <= acked /\ Rewound <= at
       /\ acked <= Rewound \/ (acked = Rewound + 1 /\ acked \in blind)
  BY OffsetFacts DEF Rewound
<1> HIDE DEF Rewound
<1>4. LogHead' = LogHead /\ Skipped' = Skipped /\ Oldest' = Oldest
  BY <1>1 DEF LogHead, Skipped, Oldest
<1>5. LogGrows
  <2>1. \A o \in 1 .. acked : o \in 1 .. at \/ o \in blind BY OffsetFacts
  <2> QED BY <1>1, <1>3, <1>4, <2>1, OffsetFacts DEF LogGrows
<1>6. CopiesGrow BY <1>1, CopiesKept
<1>7. /\ TicketTypes'
      /\ \A p \in Offsets : ticket'[p] = "ok" => ticket[p] = "ok"
      /\ \A p \in Offsets : ticket'[p] = "open" =>
             ticket[p] = "open" /\ (p \notin waits \/ waits' = waits)
  <2>1. "unsupported" \in Outcomes BY DEF Outcomes
  <2>2. TicketTypes BY DEF Types
  <2>3. CASE ticket' = ticket /\ waits' = waits BY <2>2, <2>3 DEF TicketTypes
  <2>4. CASE Resolve(waits, "unsupported") BY <2>1, <2>2, <2>4, Resolved
  <2> QED BY <1>3, <2>3, <2>4
<1>8. Types'
  <2>1. LogTypes' BY <1>1, <1>4 DEF Types, LogTypes
  <2>2. TrackerTypes'
    <3>1. TrackerTypes BY DEF Types
    <3>2. CASE /\ at' = Rewound /\ sent' = at'
               /\ acked' = acked /\ waits' = waits /\ blind' = blind
      BY <1>1, <1>4, <1>21, <3>1, <3>2, OffsetFacts DEF TrackerTypes
    <3>3. CASE /\ acked' = at /\ sent' = at /\ waits' = {} /\ at' = at
               /\ blind' = blind \cup 1 .. at
      <4>1. blind' \subseteq 1 .. LogHead BY <3>1, <3>3, OffsetFacts DEF TrackerTypes
      <4> QED BY <1>1, <1>4, <3>1, <3>3, <4>1, OffsetFacts DEF TrackerTypes
    <3> QED BY <1>3, <3>2, <3>3
  <2>3. DialerTypes'
    <3>1. capable \in BOOLEAN BY DEF Types, MemoryTypes
    <3> QED BY <1>1, <3>1 DEF Types, DialerTypes
  <2>4. WireTypes' BY <1>1 DEF Types, WireTypes
  <2>5. QueueTypes' /\ MemoryTypes' BY <1>1 DEF Types, QueueTypes, MemoryTypes
  <2> QED BY <1>7, <2>1, <2>2, <2>3, <2>4, <2>5 DEF Types
<1>9. Pipeline(l)' = {} /\ Frames(l)' = {} /\ Reading(l)' = {} /\ down'[l] = <<>> /\ back'[l] = <<>>
      /\ ackq'[l] = <<>>
  BY <1>1, FreeLink, PipelineKept
<1>10. Sides'
  <2>1. \A m \in Links : side[m] # "up" BY <1>1, <1>2, LinksAssumption DEF Sides
  <2>2. /\ side'[l] = "up" /\ \A m \in Links : m # l => side'[m] = side[m]
    BY <1>1 DEF Types, WireTypes
  <2>3. \A m \in Links : back[m] = <<>> BY <1>1, LinksAssumption DEF Sides
  <2> QED BY <1>1, <1>9, <2>1, <2>2, <2>3 DEF Sides
<1>11. Readers' /\ Lives' /\ PublishedOnce'
  BY <1>1, ReadersKept, LivesKept, PublishedOnceKept
<1>12. Ordered' BY <1>1, <1>9, ElemsEmpty DEF Ordered, Offs
<1>13. Tracked'
  <2>1. CASE at' = Rewound /\ acked' = acked /\ capable
    <3>1. \A o \in 1 .. at' : o <= acked' BY <1>21, <2>1, OffsetFacts
    <3> QED BY <1>1, <2>1, <3>1 DEF Tracked
  <2>2. CASE at' = at /\ blind' = blind \cup 1 .. at BY <2>2 DEF Tracked
  <2> QED BY <1>3, <2>1, <2>2
<1>14. NoHoles'
  <2>1. \A p \in Nat : Covered(p) => Covered(p)'
    BY <1>1, <1>5, <1>8, KnownGrows DEF Covered
  <2>2. \A p \in 1 .. at' : Covered(p)' BY <1>3, <1>21, OffsetFacts DEF Covered, Known
  <2>3. \A m \in Links : \A i \in 1 .. Len(down[m]) : \A p \in 1 .. down[m][i] - 1 : p \in Nat
    OBVIOUS
  <2>4. \A m \in Links : \A i \in 1 .. Len(down[m]) : \A p \in 1 .. down[m][i] - 1 :
            Covered(p)' \/ \E j \in 1 .. i - 1 : down[m][j] = p
    BY <2>1, <2>3 DEF NoHoles
  <2>5. down' = down BY <1>1
  <2> QED BY <2>2, <2>4, <2>5 DEF NoHoles
<1>15. Remembered' BY <1>1, <1>5, <1>6, <1>8, RememberedKept
<1>16. Answers' BY <1>1, <1>9, ElemsEmpty DEF Answers
<1>17. Tickets'
  <2>1. \A o \in Offsets : stage'[o] = "logged" => o <= LogHead' BY <1>1, <1>4 DEF Tickets
  <2>2. ASSUME NEW o \in Offsets, ticket'[o] = "open"
        PROVE  /\ o \in waits' \/ stage'[o] = "logged"
               /\ o \in slipped' \/ /\ o \in acked' + 1 .. LogHead'
                                    /\ o \in waits' \/ o > at'
                                    /\ o \notin lost' \cup blind'
                                    /\ (o <= at' => o \notin Skipped')
    <3>1. /\ ticket[o] = "open" /\ (o \notin waits \/ waits' = waits)
          /\ o \in waits \/ stage[o] = "logged"
          /\ o \in slipped \/ /\ o \in acked + 1 .. LogHead /\ (o \in waits \/ o > at)
                              /\ o \notin lost \cup blind /\ (o <= at => o \notin Skipped)
      BY <1>7, <2>2 DEF Tickets
    <3> QED BY <1>1, <1>3, <1>4, <1>21, <3>1, OffsetFacts
  <2> QED BY <2>1, <2>2 DEF Tickets
<1>18. AckedMeansAnswered'
  <2>1. CASE acked' = acked BY <1>5, <1>6, <1>8, <2>1, AckedKept
  <2>2. CASE acked' = at /\ blind' = blind \cup 1 .. at BY <2>2 DEF AckedMeansAnswered
  <2> QED BY <1>3, <2>1, <2>2
<1>19. NoFalseOk' BY <1>5, <1>6, <1>7, <1>8, NoFalseOkKept
<1>20. NoTicketStranded' BY <1>1 DEF NoTicketStranded
<1> QED BY <1>8, <1>10, <1>11, <1>12, <1>13, <1>14, <1>15, <1>16, <1>17, <1>18, <1>19, <1>20

\* A step of the writer that puts nothing on the link.
LEMMA PassedInv ==
    ASSUME IInv, cur # NoLink, UNCHANGED onLinks,
           UNCHANGED <<kinds, stage, unlogged, acked, sent, gone, breaks, capable, life, seen,
                       copies, blind, dropped>>,
           at' \in at .. LogHead, waits' \subseteq waits,
           lost \subseteq lost', lost' \subseteq 1 .. Oldest - 1,
           slipped \subseteq slipped', slipped' \subseteq lost',
           \A o \in lost' : o > at \/ o \in lost,
           \A o \in at + 1 .. at' : o \in Skipped \cup lost',
           TicketTypes',
           \A o \in Offsets : ticket'[o] = "ok" => ticket[o] = "ok",
           \A o \in Offsets : ticket'[o] = "open" =>
               /\ ticket[o] = "open" /\ (o \in waits => o \in waits')
               /\ o \in slipped' \/ (o \notin lost' /\ (o <= at' => o <= at))
    PROVE  IInv'
<1> USE DEF IInv
<1>1. LogHead' = LogHead /\ Skipped' = Skipped /\ Oldest' = Oldest
  BY DEF LogHead, Skipped, Oldest
<1>2. LogGrows /\ CopiesGrow BY <1>1, CopiesKept, OffsetFacts DEF LogGrows
<1>3. Types'
  <2>1. LogTypes' BY <1>1 DEF Types, LogTypes
  <2>2. TrackerTypes'
    <3>1. TrackerTypes BY DEF Types
    <3>2. at' \in 0 .. LogHead /\ (acked <= at' \/ (acked = at' + 1 /\ acked \in blind))
      <4>1. at \in Nat /\ acked \in Nat /\ LogHead \in Nat BY OffsetFacts
      <4>2. at' = at \/ at' >= at + 1 BY <4>1
      <4>3. acked <= at \/ (acked = at + 1 /\ acked \in blind) BY <3>1 DEF TrackerTypes
      <4>4. at' \in Nat /\ at' <= LogHead /\ at' \in 0 .. LogHead BY <4>1
      <4>5. CASE at' = at BY <4>3, <4>4, <4>5
      <4>6. CASE at' >= at + 1
        <5>1. acked <= at + 1 BY <4>1, <4>3
        <5>2. acked <= at' BY <4>1, <4>4, <4>6, <5>1
        <5> QED BY <4>4, <5>2
      <4> QED BY <4>2, <4>5, <4>6
    <3> QED BY <1>1, <3>1, <3>2 DEF TrackerTypes
  <2>3. DialerTypes' /\ WireTypes' /\ QueueTypes' /\ MemoryTypes'
    BY DEF onLinks, Types, DialerTypes, WireTypes, QueueTypes, MemoryTypes
  <2> QED BY <2>1, <2>2, <2>3 DEF Types
<1>4. Sides' /\ Readers' /\ Lives' /\ PublishedOnce'
  BY SidesKept, ReadersKept, LivesKept, PublishedOnceKept DEF onLinks
<1>5. Ordered'
  <2>1. \A x \in 1 .. at : x \in (Skipped \cup lost)' => x \in Skipped \cup lost
    BY <1>1, OffsetFacts
  <2>2. at <= at' /\ at' \in Nat /\ sent' = sent /\ sent \in Nat BY OffsetFacts
  <2> QED BY <2>1, <2>2, OrderedKept
<1>6. \A o \in 1 .. at' : o \in 1 .. at \/ o \in (Skipped \cup lost)' BY <1>1, OffsetFacts
<1>7. Tracked' BY <1>1, <1>6, PipelineKept DEF Tracked, onLinks
<1>8. NoHoles'
  <2>1. \A p \in Nat : Covered(p) => Covered(p)' BY <1>2, <1>3, KnownGrows DEF Covered
  <2>2. \A p \in 1 .. at' : p \in 1 .. at \/ Covered(p)' BY <1>6 DEF Covered, Known
  <2>3. \A m \in Links : \A i \in 1 .. Len(down[m]) : \A p \in 1 .. down[m][i] - 1 :
            p \in Nat
    OBVIOUS
  <2>4. down' = down /\ cur' = cur /\ \A p \in 1 .. at : p \in Nat BY OffsetFacts DEF onLinks
  <2>5. \A m \in Links : \A i \in 1 .. Len(down[m]) : \A p \in 1 .. down[m][i] - 1 :
            Covered(p)' \/ \E j \in 1 .. i - 1 : down[m][j] = p
    BY <2>1, <2>3 DEF NoHoles
  <2>6. \A p \in 1 .. at' : Covered(p)' \/ p \in Elems(down[cur])
    BY <2>1, <2>2, <2>4 DEF NoHoles
  <2> QED BY <2>4, <2>5, <2>6 DEF NoHoles
<1>9. Remembered' /\ Answers' /\ AckedMeansAnswered' /\ NoFalseOk'
  BY <1>2, <1>3, RememberedKept, AnswersKept, AckedKept, NoFalseOkKept
<1>10. Tickets'
  <2>1. \A o \in Offsets : stage'[o] = "logged" => o <= LogHead' BY <1>1 DEF Tickets
  <2>2. ASSUME NEW o \in Offsets, ticket'[o] = "open"
        PROVE  /\ o \in waits' \/ stage'[o] = "logged"
               /\ o \in slipped' \/ /\ o \in acked' + 1 .. LogHead'
                                    /\ o \in waits' \/ o > at'
                                    /\ o \notin lost' \cup blind'
                                    /\ (o <= at' => o \notin Skipped')
    <3>1. /\ o \in waits \/ stage[o] = "logged"
          /\ o \in slipped \/ /\ o \in acked + 1 .. LogHead /\ (o \in waits \/ o > at)
                              /\ o \notin lost \cup blind /\ (o <= at => o \notin Skipped)
      BY <2>2 DEF Tickets
    <3> QED BY <1>1, <2>2, <3>1, OffsetFacts
  <2> QED BY <2>1, <2>2 DEF Tickets
<1>11. NoTicketStranded' BY DEF NoTicketStranded
<1> QED BY <1>3, <1>4, <1>5, <1>7, <1>8, <1>9, <1>10, <1>11

LEMMA GapInv ==
    ASSUME IInv, NEW l \in Links, Gap(l)
    PROVE  IInv'
<1> DEFINE missed == at + 1 .. Oldest - 1
<1> USE DEF IInv
<1>1. /\ UNCHANGED onLinks
      /\ UNCHANGED <<kinds, stage, unlogged, acked, sent, gone, breaks, capable, life, seen, copies,
                     blind, dropped>>
      /\ cur = l /\ at < LogHead /\ missed # {}
      /\ Resolve(waits \cap missed, "evicted") /\ waits' = waits \ missed
      /\ at' = Oldest - 1 /\ lost' = lost \cup missed
      /\ slipped' = slipped \cup {o \in missed \ waits : ticket[o] = "open"}
  BY DEF Gap, Writing, onLinks, publisherVars, dialerVars, wireVars, acceptorVars
<1>2. /\ at \in Nat /\ Oldest \in Nat /\ LogHead \in Nat
      /\ Oldest <= LogHead /\ at + 1 <= Oldest - 1
  BY <1>1, OffsetFacts
<1>3. /\ at' \in at .. LogHead /\ lost' \subseteq 1 .. Oldest - 1
      /\ \A o \in lost' : o > at \/ o \in lost
      /\ \A o \in at + 1 .. at' : o \in Skipped \cup lost'
      /\ slipped \subseteq slipped' /\ slipped' \subseteq lost'
  <2>1. lost \subseteq 1 .. Oldest - 1 /\ slipped \subseteq lost BY DEF Types, TrackerTypes
  <2>2. at' \in at .. LogHead /\ missed \subseteq 1 .. Oldest - 1 /\ \A o \in missed : o > at
    BY <1>1, <1>2
  <2>3. \A o \in at + 1 .. at' : o \in missed BY <1>1, <1>2
  <2> HIDE DEF missed
  <2> QED BY <1>1, <2>1, <2>2, <2>3
<1>4. /\ TicketTypes'
      /\ \A o \in Offsets : ticket'[o] = "ok" => ticket[o] = "ok"
      /\ \A o \in Offsets : ticket'[o] = "open" =>
             ticket[o] = "open" /\ o \notin waits \cap missed
  <2>1. "evicted" \in Outcomes BY DEF Outcomes
  <2>2. TicketTypes BY DEF Types
  <2> HIDE DEF missed
  <2> QED BY <1>1, <2>1, <2>2, Resolved
<1>5. ASSUME NEW o \in Offsets, ticket'[o] = "open"
      PROVE  /\ ticket[o] = "open" /\ (o \in waits => o \in waits')
             /\ o \in slipped' \/ (o \notin lost' /\ (o <= at' => o <= at))
  <2>1. ticket[o] = "open" /\ o \notin waits \cap missed BY <1>4, <1>5
  <2>2. o \in slipped \/ o \notin lost BY <2>1 DEF Tickets
  <2>3. CASE o \in missed BY <1>1, <2>1, <2>3
  <2>4. CASE o \notin missed BY <1>1, <1>2, <2>1, <2>2, <2>4, OffsetFacts
  <2> QED BY <2>3, <2>4
<1>6. cur # NoLink BY <1>1, LinksAssumption
<1> HIDE DEF missed
<1> QED BY <1>1, <1>3, <1>4, <1>5, <1>6, PassedInv

LEMMA SkipInv ==
    ASSUME IInv, NEW l \in Links, Skip(l)
    PROVE  IInv'
<1> USE DEF IInv
<1>1. /\ UNCHANGED onLinks
      /\ UNCHANGED <<kinds, stage, unlogged, acked, sent, gone, breaks, capable, life, seen, copies,
                     blind, dropped, lost, slipped>>
      /\ cur = l /\ at < LogHead /\ kinds[at + 1] = "skipped"
      /\ Resolve({at + 1}, "filtered") /\ waits' = waits \ {at + 1} /\ at' = at + 1
  BY DEF Skip, Writing, onLinks, publisherVars, dialerVars, wireVars, acceptorVars, historyVars
<1>2. /\ at' \in at .. LogHead /\ at + 1 \in 1 .. LogHead
      /\ \A o \in at + 1 .. at' : o = at + 1
  BY <1>1, OffsetFacts
<1>3. /\ \A o \in at + 1 .. at' : o \in Skipped \cup lost'
      /\ lost' \subseteq 1 .. Oldest - 1 /\ slipped' \subseteq lost'
  BY <1>1, <1>2 DEF Skipped, Types, TrackerTypes
<1>4. /\ TicketTypes'
      /\ \A o \in Offsets : ticket'[o] = "ok" => ticket[o] = "ok"
      /\ \A o \in Offsets : ticket'[o] = "open" => ticket[o] = "open" /\ o # at + 1
  <2>1. "filtered" \in Outcomes BY DEF Outcomes
  <2>2. TicketTypes BY DEF Types
  <2> QED BY <1>1, <2>1, <2>2, Resolved
<1>5. ASSUME NEW o \in Offsets, ticket'[o] = "open"
      PROVE  /\ ticket[o] = "open" /\ (o \in waits => o \in waits')
             /\ o \in slipped' \/ (o \notin lost' /\ (o <= at' => o <= at))
  BY <1>1, <1>4, <1>5, OffsetFacts DEF Tickets
<1>6. cur # NoLink BY <1>1, LinksAssumption
<1> QED BY <1>1, <1>2, <1>3, <1>4, <1>5, <1>6, PassedInv

\* Frames with nothing missing before them: what is below each is covered.
Gapless(s) ==
    \A i \in 1 .. Len(s) : \A p \in 1 .. s[i] - 1 :
        Covered(p) \/ \E j \in 1 .. i - 1 : s[j] = p

LEMMA GaplessLinks == NoHoles => \A l \in Links : Gapless(down[l])
BY DEF NoHoles, Gapless

LEMMA GaplessNext ==
    ASSUME IInv, NEW l \in Links, cur = l
    PROVE  Gapless(Append(down[l], at + 1))
<1> DEFINE s == down[l]
           t == Append(s, at + 1)
<1>1. Gapless(s) /\ l # NoLink BY GaplessLinks, LinksAssumption DEF IInv
<1>2. s \in Seq(Offsets) /\ at \in Nat BY WireFacts, OffsetFacts DEF IInv
<1>3. /\ Len(s) \in Nat /\ Len(t) = Len(s) + 1 /\ t[Len(s) + 1] = at + 1
      /\ \A i \in 1 .. Len(s) : t[i] = s[i]
  BY <1>2
<1>4. \A p \in 1 .. at : Covered(p) \/ p \in Elems(s) BY <1>1 DEF IInv, NoHoles
<1>5. \A p \in Elems(s) : \E j \in 1 .. Len(s) : t[j] = p BY <1>3 DEF Elems
<1> HIDE DEF s, t
<1>6. ASSUME NEW i \in 1 .. Len(t), NEW p \in 1 .. t[i] - 1
      PROVE  Covered(p) \/ \E j \in 1 .. i - 1 : t[j] = p
  <2>1. CASE i \in 1 .. Len(s)
    <3>1. t[i] = s[i] /\ \A j \in 1 .. i - 1 : t[j] = s[j] BY <1>3, <2>1
    <3> QED BY <1>1, <2>1, <3>1 DEF Gapless
  <2>2. CASE i = Len(s) + 1
    <3>1. p \in 1 .. at BY <1>2, <1>3, <2>2
    <3> QED BY <1>3, <1>4, <1>5, <2>2, <3>1
  <2> QED BY <1>3, <2>1, <2>2
<1>7. Gapless(t) BY <1>6 DEF Gapless
<1> QED BY <1>7 DEF s, t

LEMMA GaplessPrefix ==
    ASSUME NEW S, NEW s \in Seq(S), Gapless(s), NEW n \in 0 .. Len(s)
    PROVE  Gapless(SubSeq(s, 1, n))
<1> DEFINE t == SubSeq(s, 1, n)
<1>1. Len(t) = n /\ Len(s) \in Nat /\ \A i \in 1 .. n : t[i] = s[i] BY ElemsPrefix
<1> HIDE DEF t
<1>2. ASSUME NEW i \in 1 .. Len(t), NEW p \in 1 .. t[i] - 1
      PROVE  Covered(p) \/ \E j \in 1 .. i - 1 : t[j] = p
  <2>1. i \in 1 .. Len(s) /\ t[i] = s[i] /\ \A j \in 1 .. i - 1 : t[j] = s[j] BY <1>1
  <2> QED BY <2>1 DEF Gapless
<1>3. Gapless(t) BY <1>2 DEF Gapless
<1> QED BY <1>3 DEF t

\* What is covered stays so.
LEMMA GaplessGrows ==
    ASSUME \A p \in Nat : Covered(p) => Covered(p)', NEW s, Gapless(s)
    PROVE  \A i \in 1 .. Len(s) : \A p \in 1 .. s[i] - 1 :
               Covered(p)' \/ \E j \in 1 .. i - 1 : s[j] = p
<1> SUFFICES ASSUME NEW i \in 1 .. Len(s), NEW p \in 1 .. s[i] - 1
             PROVE  Covered(p)' \/ \E j \in 1 .. i - 1 : s[j] = p
  OBVIOUS
<1> QED BY DEF Gapless

\* The next entry, when there is one to send.
LEMMA NextEntry ==
    ASSUME IInv, NEW l \in Links, Sending(l)
    PROVE  /\ at + 1 \in 1 .. LogHead /\ at + 1 \in Offsets /\ cur = l /\ l # NoLink
           /\ side[l] = "up" /\ at + 1 \notin Skipped \cup lost
           /\ acked <= at + 1 /\ (at + 1 = acked => acked \in blind)
           /\ \A x \in Pipeline(l) : x <= at /\ x < at + 1 /\ x \in Nat
<1> USE DEF IInv, Sending
<1>1. /\ at + 1 \in 1 .. LogHead /\ at + 1 \in Offsets /\ cur = l /\ side[l] = "up"
      /\ acked <= at + 1 /\ (at + 1 = acked => acked \in blind)
  BY OffsetFacts DEF Writing
<1>2. at + 1 \notin Skipped BY DEF Skipped
<1>3. at + 1 \notin lost BY OffsetFacts DEF Types, TrackerTypes
<1>4. l # NoLink BY LinksAssumption
<1> QED BY <1>1, <1>2, <1>3, <1>4, OffsetFacts DEF Ordered

LEMMA SendAcked ==
    ASSUME IInv, NEW l \in Links, Send(l), acks
    PROVE  IInv'
<1> USE DEF IInv
<1> DEFINE n == at + 1
<1>1. /\ UNCHANGED <<cur, acks, side, back, ackq, reader>>
      /\ UNCHANGED <<kinds, stage, unlogged, ticket, acked, gone, breaks, capable, life, seen,
                     copies, lost, slipped, blind, dropped>>
      /\ Sending(l)
      /\ at' = n /\ sent' = (IF n > sent THEN n ELSE sent) /\ waits' = waits \cup {n}
      /\ down' = [down EXCEPT ![l] = Append(@, n)]
  BY DEF Send, OnSend, Put, publisherVars, dialerVars, acceptorVars
<1>2. /\ n \in 1 .. LogHead /\ n \in Offsets /\ cur = l /\ l # NoLink
      /\ side[l] = "up" /\ n \notin Skipped \cup lost
      /\ acked <= n /\ (n = acked => acked \in blind)
      /\ \A x \in Pipeline(l) : x <= at /\ x < n /\ x \in Nat
  BY <1>1, NextEntry
<1>3. LogHead' = LogHead /\ Skipped' = Skipped /\ Oldest' = Oldest /\ LogGrows /\ CopiesGrow
  BY <1>1, LogKept, CopiesKept
<1>4. sent' \in Nat /\ sent' <= LogHead /\ sent <= sent' /\ n <= sent'
  BY <1>1, <1>2, OffsetFacts
<1>5. Types'
  <2>1. LogTypes' /\ TicketTypes' BY <1>1, <1>3 DEF Types, LogTypes, TicketTypes
  <2>2. TrackerTypes'
    <3>1. TrackerTypes BY DEF Types
    <3>2. at' \in 0 .. LogHead /\ acked <= at' /\ sent' \in 0 .. LogHead
      BY <1>1, <1>2, <1>4, OffsetFacts
    <3> QED BY <1>1, <1>2, <1>3, <3>1, <3>2 DEF TrackerTypes
  <2>3. DialerTypes' /\ QueueTypes' /\ MemoryTypes'
    BY <1>1 DEF Types, DialerTypes, QueueTypes, MemoryTypes
  <2>4. Append(down[l], n) \in Seq(Offsets) BY <1>2, WireFacts
  <2>5. WireTypes' BY <1>1, <2>4 DEF Types, WireTypes
  <2> QED BY <2>1, <2>2, <2>3, <2>5 DEF Types
<1>6. /\ down'[l] = Append(down[l], n) /\ \A m \in Links : m # l => down'[m] = down[m]
  BY <1>1 DEF Types, WireTypes
<1>7. /\ Elems(down'[l]) = Elems(down[l]) \cup {n}
      /\ Frames(l)' = Frames(l) /\ Reading(l)' = Reading(l)
      /\ Pipeline(l)' = Pipeline(l) \cup {n}
      /\ Elems(down[l]) \subseteq Pipeline(l) /\ Offs(Frames(l)) \subseteq Pipeline(l)
      /\ Offs(Elems(back[l])) \subseteq Pipeline(l)
      /\ Increasing(down[l]) => Increasing(down'[l])
  <2>1. down[l] \in Seq(Offsets) BY WireFacts
  <2>2. Elems(down[l]) \subseteq Pipeline(l) BY DEF Pipeline
  <2>3. \A x \in Elems(down[l]) : x < n BY <1>2, <2>2
  <2>4. /\ Elems(down'[l]) = Elems(down[l]) \cup {n}
        /\ Increasing(down[l]) => Increasing(down'[l])
    BY <1>2, <1>6, <2>1, <2>3, ElemsAppend
  <2>5. Frames(l)' = Frames(l) /\ Reading(l)' = Reading(l) BY <1>1 DEF Frames, Reading
  <2> QED BY <1>1, <2>2, <2>4, <2>5 DEF Pipeline
<1>8. Sides'
  <2>1. side[l] # "free" BY <1>2
  <2> QED BY <1>1, <1>2, <1>6, <2>1 DEF Sides
<1>9. Readers' /\ Lives' /\ PublishedOnce'
  BY <1>1, ReadersKept, LivesKept, PublishedOnceKept
<1>10. Ordered'
  <2>1. Ordered BY DEF IInv
  <2>2. cur' = l /\ Increasing(down'[l]) /\ IncreasingOff(ackq'[l]) /\ IncreasingOff(back'[l])
    BY <1>1, <1>2, <1>7, <2>1 DEF Ordered
  <2>3. \A r \in Offs(Reading(l)) : \A x \in Elems(down'[l]) : r < x
    <3>1. Offs(Reading(l)) \subseteq Pipeline(l) BY <1>7 DEF Frames, Offs
    <3> QED BY <1>2, <1>7, <2>1, <3>1 DEF Ordered
  <2>4. \A q \in Offs(Elems(ackq[l])) :
            \A x \in Elems(down'[l]) \cup Offs(Reading(l)) : q < x
    <3>1. Offs(Elems(ackq[l])) \subseteq Pipeline(l) BY <1>7 DEF Frames, Offs
    <3> QED BY <1>2, <1>7, <2>1, <3>1 DEF Ordered
  <2>5. \A b \in Offs(Elems(back[l])) :
            \A x \in Elems(down'[l]) \cup Offs(Frames(l)) : b < x
    BY <1>2, <1>7, <2>1 DEF Ordered
  <2>6. \A x \in Pipeline(l) : /\ x \in acked .. n /\ (x = acked => x \in blind)
                                /\ x <= sent' /\ x \notin Skipped \cup lost
    <3>1. \A x \in Pipeline(l) : /\ x \in acked .. at /\ (x = acked => x \in blind)
                                  /\ x <= sent /\ x \notin Skipped \cup lost
      BY <1>2, <2>1 DEF Ordered
    <3> QED BY <1>4, <3>1, OffsetFacts
  <2>7. /\ n \in acked .. n /\ (n = acked => n \in blind)
        /\ n <= sent' /\ n \notin Skipped \cup lost
    BY <1>2, <1>4, OffsetFacts
  <2> QED BY <1>1, <1>3, <1>7, <2>2, <2>3, <2>4, <2>5, <2>6, <2>7 DEF Ordered
<1>11. \A o \in 1 .. n : o \in 1 .. at \/ o = n BY OffsetFacts
<1>12. Tracked' BY <1>1, <1>2, <1>3, <1>7, <1>11 DEF Tracked
<1>13. NoHoles'
  <2>1. \A m \in Links : Gapless(down'[m])
    BY <1>2, <1>6, GaplessLinks, GaplessNext
  <2>2. \A p \in Nat : Covered(p) => Covered(p)' BY <1>1, <1>3, <1>5, KnownGrows DEF Covered
  <2>3. \A p \in 1 .. n : Covered(p)' \/ p \in Elems(down'[l])
    BY <1>2, <1>7, <1>11, <2>2 DEF NoHoles
  <2>4. \A m \in Links : \A i \in 1 .. Len(down'[m]) : \A p \in 1 .. down'[m][i] - 1 :
            Covered(p)' \/ \E j \in 1 .. i - 1 : down'[m][j] = p
    BY <2>1, <2>2, GaplessGrows
  <2> QED BY <1>1, <1>2, <2>3, <2>4 DEF NoHoles
<1>14. Remembered' BY <1>1, <1>3, <1>5, RememberedKept
<1>15. Answers'
  <2>1. Answers /\ dropped' = dropped BY <1>1
  <2>2. \A o, st : Truth(o, st)' <=> Truth(o, st) BY <1>1 DEF Truth, SettledCopy, HandledOK
  <2> QED BY <1>1, <1>2, <1>7, <2>1, <2>2 DEF Answers
<1>16. Tickets'
  <2>1. \A o \in Offsets : stage'[o] = "logged" => o <= LogHead' BY <1>1, <1>3 DEF Tickets
  <2>2. ASSUME NEW o \in Offsets, ticket'[o] = "open"
        PROVE  /\ o \in waits' \/ stage'[o] = "logged"
               /\ o \in slipped' \/ /\ o \in acked' + 1 .. LogHead'
                                    /\ o \in waits' \/ o > at'
                                    /\ o \notin lost' \cup blind'
                                    /\ (o <= at' => o \notin Skipped')
    <3>1. /\ o \in waits \/ stage[o] = "logged"
          /\ o \in slipped \/ /\ o \in acked + 1 .. LogHead /\ (o \in waits \/ o > at)
                              /\ o \notin lost \cup blind /\ (o <= at => o \notin Skipped)
      BY <1>1, <2>2 DEF Tickets
    <3> QED BY <1>1, <1>2, <1>3, <3>1, OffsetFacts
  <2> QED BY <2>1, <2>2 DEF Tickets
<1>17. AckedMeansAnswered' BY <1>1, <1>3, <1>5, AckedKept
<1>18. NoFalseOk' BY <1>1, <1>3, <1>5, NoFalseOkKept
<1>19. NoTicketStranded' BY <1>1 DEF NoTicketStranded
<1> QED
  BY <1>5, <1>8, <1>9, <1>10, <1>12, <1>13, <1>14, <1>15, <1>16, <1>17, <1>18, <1>19

\* A link without acks puts the next frame out of sight: of the tickets that
\* are open, all are beyond it, or slipped.
LEMMA OutOfSight ==
    ASSUME IInv, NEW l \in Links, Sending(l), OnSend, ~acks, at' \in {at, at + 1},
           UNCHANGED <<kinds, stage, gone, copies, lost, slipped, dropped>>
    PROVE  /\ acked' = at + 1 /\ blind' = blind \cup {at + 1}
           /\ \A o \in 1 .. at : o \in Skipped \cup lost \cup blind
           /\ LogGrows /\ TrackerTypes' /\ TicketTypes'
           /\ \A o \in Offsets : ticket'[o] = "ok" => ticket[o] = "ok"
           /\ Tickets' /\ AckedMeansAnswered' /\ NoTicketStranded'
<1> USE DEF IInv
<1> DEFINE n == at + 1
<1>1. /\ sent' = n /\ acked' = n /\ waits' = waits \ {n}
      /\ Resolve({n}, "unsupported") /\ blind' = blind \cup {n}
  BY DEF OnSend
<1>2. n \in 1 .. LogHead /\ n \in Offsets /\ cur = l /\ l # NoLink /\ acked <= n
  BY NextEntry
<1>3. LogHead' = LogHead /\ Skipped' = Skipped /\ Oldest' = Oldest
  BY DEF LogHead, Skipped, Oldest
<1>4. LogGrows BY <1>1, <1>2, <1>3, OffsetFacts DEF LogGrows
<1>5. /\ TicketTypes'
      /\ \A o \in Offsets : ticket'[o] = "ok" => ticket[o] = "ok"
      /\ \A o \in Offsets : ticket'[o] = "open" => ticket[o] = "open" /\ o # n
  <2>1. "unsupported" \in Outcomes BY DEF Outcomes
  <2>2. TicketTypes BY DEF Types
  <2> QED BY <1>1, <2>1, <2>2, Resolved
<1>6. TrackerTypes'
  <2>1. TrackerTypes BY DEF Types
  <2>2. n \in 0 .. LogHead /\ at' \in 0 .. LogHead /\ n \in blind' /\ blind' \subseteq 1 .. LogHead
    BY <1>1, <1>2, <2>1, OffsetFacts DEF TrackerTypes
  <2>3. n <= at' \/ n = at' + 1 BY OffsetFacts
  <2>4. waits' \subseteq 1 .. LogHead BY <1>1, <2>1 DEF TrackerTypes
  <2> HIDE DEF n
  <2> QED BY <1>1, <1>3, <2>1, <2>2, <2>3, <2>4 DEF TrackerTypes
<1>7. \A o \in 1 .. n : o \in 1 .. at \/ o = n BY OffsetFacts
<1>8. \A o \in 1 .. at : o \in Skipped \cup lost \cup blind BY <1>2 DEF Tracked
<1>9. Tickets'
  <2>1. \A o \in Offsets : stage'[o] = "logged" => o <= LogHead' BY <1>3 DEF Tickets
  <2>2. ASSUME NEW o \in Offsets, ticket'[o] = "open"
        PROVE  /\ o \in waits' \/ stage'[o] = "logged"
               /\ o \in slipped' \/ /\ o \in acked' + 1 .. LogHead'
                                    /\ o \in waits' \/ o > at'
                                    /\ o \notin lost' \cup blind'
                                    /\ (o <= at' => o \notin Skipped')
    <3>1. ticket[o] = "open" /\ o # n BY <1>5, <2>2
    <3>2. /\ o \in waits \/ stage[o] = "logged"
          /\ o \in slipped \/ /\ o \in acked + 1 .. LogHead
                              /\ o \notin lost \cup blind /\ (o <= at => o \notin Skipped)
      BY <3>1 DEF Tickets
    <3>3. o \in slipped \/ ~(o <= at) BY <1>8, <3>2, OffsetFacts
    <3>4. o \in slipped \/ (o > n /\ o \in n + 1 .. LogHead /\ o > at')
      BY <3>1, <3>2, <3>3, OffsetFacts
    <3> QED BY <1>1, <1>3, <3>1, <3>2, <3>4, OffsetFacts
  <2> QED BY <2>1, <2>2 DEF Tickets
<1>10. AckedMeansAnswered'
  <2>1. \A o \in 1 .. n : kinds[o] = "skipped" \/ o \in lost \cup blind'
    BY <1>1, <1>7, <1>8 DEF Skipped
  <2> QED BY <1>1, <2>1 DEF AckedMeansAnswered
<1>11. NoTicketStranded' BY <1>5 DEF NoTicketStranded
<1> QED BY <1>1, <1>4, <1>5, <1>6, <1>8, <1>9, <1>10, <1>11

LEMMA SendUnacked ==
    ASSUME IInv, NEW l \in Links, Send(l), ~acks
    PROVE  IInv'
<1> USE DEF IInv
<1> DEFINE n == at + 1
<1>1. /\ UNCHANGED onLinks
      /\ UNCHANGED <<kinds, stage, unlogged, gone, breaks, capable, life, seen, copies, lost,
                     slipped, dropped>>
      /\ Sending(l) /\ OnSend /\ at' = n
  BY DEF Send, Put, onLinks, publisherVars, dialerVars, acceptorVars
<1>2. cur = l /\ l # NoLink BY <1>1, NextEntry
<1>3. LogHead' = LogHead /\ Skipped' = Skipped BY <1>1 DEF LogHead, Skipped
<1>4. /\ acked' = n /\ blind' = blind \cup {n}
      /\ \A o \in 1 .. at : o \in Skipped \cup lost \cup blind
      /\ LogGrows /\ TrackerTypes' /\ TicketTypes'
      /\ \A o \in Offsets : ticket'[o] = "ok" => ticket[o] = "ok"
      /\ Tickets' /\ AckedMeansAnswered' /\ NoTicketStranded'
  BY <1>1, OutOfSight
<1>5. CopiesGrow BY <1>1, CopiesKept
<1>6. Types'
  <2>1. LogTypes' BY <1>1, <1>3 DEF Types, LogTypes
  <2>2. DialerTypes' /\ WireTypes' /\ QueueTypes' /\ MemoryTypes'
    BY <1>1 DEF onLinks, Types, DialerTypes, WireTypes, QueueTypes, MemoryTypes
  <2> QED BY <1>4, <2>1, <2>2 DEF Types
<1>7. Sides' /\ Readers' /\ Lives' /\ PublishedOnce'
  BY <1>1, SidesKept, ReadersKept, LivesKept, PublishedOnceKept DEF onLinks
<1>8. cur' = l /\ acks' = acks /\ Pipeline(l)' = {} /\ Pipeline(l) = {}
  BY <1>1, <1>2, PipelineKept DEF Sides, onLinks
<1>9. Ordered'
  <2>1. /\ Elems(down'[l]) = {} /\ Offs(Frames(l)') = {} /\ Offs(Elems(back'[l])) = {}
        /\ Offs(Elems(ackq'[l])) = {} /\ Offs(Reading(l)') = {}
    BY <1>8 DEF Pipeline, Frames, Offs
  <2>2. Increasing(down'[l]) /\ IncreasingOff(ackq'[l]) /\ IncreasingOff(back'[l])
    BY <1>1, <1>2 DEF Ordered, onLinks
  <2> QED BY <1>8, <2>1, <2>2 DEF Ordered
<1>10. \A o \in 1 .. n : o \in 1 .. at \/ o = n BY OffsetFacts
<1>11. Tracked' BY <1>1, <1>3, <1>4, <1>8, <1>10 DEF Tracked
<1>12. NoHoles'
  <2>1. \A p \in Nat : Covered(p) => Covered(p)' BY <1>1, <1>4, <1>6, KnownGrows DEF Covered
  <2>2. \A p \in 1 .. n : Covered(p)'
    BY <1>1, <1>3, <1>4, <1>10 DEF Covered, Known
  <2>3. \A m \in Links : \A i \in 1 .. Len(down[m]) : \A p \in 1 .. down[m][i] - 1 :
            p \in Nat
    OBVIOUS
  <2>4. down' = down /\ cur' = cur /\ at' = n BY <1>1 DEF onLinks
  <2>5. \A m \in Links : \A i \in 1 .. Len(down[m]) : \A p \in 1 .. down[m][i] - 1 :
            Covered(p)' \/ \E j \in 1 .. i - 1 : down[m][j] = p
    BY <2>1, <2>3 DEF NoHoles
  <2> QED BY <2>2, <2>4, <2>5 DEF NoHoles
<1>13. Remembered' BY <1>1, <1>4, <1>5, <1>6, RememberedKept
<1>14. Answers' BY <1>1, <1>4, <1>5, <1>6, AnswersKept
<1>15. NoFalseOk' BY <1>4, <1>5, <1>6, NoFalseOkKept
<1> QED BY <1>4, <1>6, <1>7, <1>9, <1>11, <1>12, <1>13, <1>14, <1>15

LEMMA SendInv == ASSUME IInv, NEW l \in Links, Send(l) PROVE IInv'
<1>1. acks \in BOOLEAN BY DEF IInv, Types, DialerTypes
<1> QED BY <1>1, SendAcked, SendUnacked

\* The dialer's side ends, and some of its frames may be lost.
LEMMA CutOffInv ==
    ASSUME IInv, NEW l \in Links, cur = l,
           UNCHANGED <<ackq, reader, kinds, stage, unlogged, at, gone, capable, life, seen,
                       copies, lost, slipped, dropped>>,
           LogGrows, TrackerTypes', TicketTypes', Tickets', AckedMeansAnswered',
           NoTicketStranded',
           \A o \in Offsets : ticket'[o] = "ok" => ticket[o] = "ok",
           cur' = NoLink, acks' = FALSE, breaks' \in 0 .. MaxBreaks,
           side' = [side EXCEPT ![l] = "half"], back' = [back EXCEPT ![l] = <<>>],
           down' \in [Links -> Seq(Offsets)], \A m \in Links : m # l => down'[m] = down[m],
           Gapless(down'[l])
    PROVE  IInv'
<1> USE DEF IInv
<1>1. LogHead' = LogHead /\ CopiesGrow BY CopiesKept DEF LogHead
<1>2. Types'
  <2>1. LogTypes' BY <1>1 DEF Types, LogTypes
  <2>2. DialerTypes' BY DEF Types, DialerTypes
  <2>3. QueueTypes' /\ MemoryTypes' BY DEF Types, QueueTypes, MemoryTypes
  <2>4. side' \in [Links -> {"free", "up", "half"}] BY DEF Types, WireTypes
  <2>5. back' \in [Links -> Seq([off : Offsets, st : {"ok", "rejected", "unknown"}])]
    <3> DEFINE B == [off : Offsets, st : {"ok", "rejected", "unknown"}]
    <3>1. back \in [Links -> Seq(B)] BY DEF Types, WireTypes
    <3>2. <<>> \in Seq(B) OBVIOUS
    <3> HIDE DEF B
    <3>3. [back EXCEPT ![l] = <<>>] \in [Links -> Seq(B)] BY <3>1, <3>2
    <3> QED BY <3>3 DEF B
  <2> QED BY <2>1, <2>2, <2>3, <2>4, <2>5 DEF Types, WireTypes
<1>3. Sides'
  <2>1. /\ side'[l] = "half" /\ back'[l] = <<>>
        /\ \A m \in Links : m # l => side'[m] = side[m] /\ back'[m] = back[m] /\ side[m] # "up"
    BY DEF Types, WireTypes, Sides
  <2> QED BY <2>1, LinksAssumption DEF Sides
<1>4. Readers' /\ Lives' /\ PublishedOnce' BY ReadersKept, LivesKept, PublishedOnceKept
<1>5. Ordered' /\ Tracked' /\ Answers' BY DEF Ordered, Tracked, Answers
<1>6. NoHoles'
  <2>1. \A p \in Nat : Covered(p) => Covered(p)' BY <1>2, KnownGrows DEF Covered
  <2>2. \A m \in Links : Gapless(down'[m]) BY GaplessLinks
  <2>3. \A m \in Links : \A i \in 1 .. Len(down'[m]) : \A p \in 1 .. down'[m][i] - 1 :
            Covered(p)' \/ \E j \in 1 .. i - 1 : down'[m][j] = p
    BY <2>1, <2>2, GaplessGrows
  <2> QED BY <2>3 DEF NoHoles
<1>7. Remembered' BY <1>1, <1>2, RememberedKept
<1>8. NoFalseOk' BY <1>1, <1>2, NoFalseOkKept
<1> QED BY <1>2, <1>3, <1>4, <1>5, <1>6, <1>7, <1>8

\* A link with acks ends: what waited for an answer waits on.
LEMMA WaitsStay ==
    ASSUME IInv, UNCHANGED <<kinds, stage, ticket, at, acked, gone, copies, lost, slipped, blind,
                             dropped>>,
           sent' \in 0 .. LogHead, waits' \subseteq 1 .. LogHead, waits \subseteq waits'
    PROVE  /\ LogGrows /\ TrackerTypes' /\ TicketTypes'
           /\ \A o \in Offsets : ticket'[o] = "ok" => ticket[o] = "ok"
           /\ Tickets' /\ AckedMeansAnswered' /\ NoTicketStranded'
<1> USE DEF IInv
<1>1. LogHead' = LogHead /\ Skipped' = Skipped /\ Oldest' = Oldest /\ LogGrows BY LogKept
<1>2. TicketTypes' BY DEF Types, TicketTypes
<1>3. TrackerTypes' BY <1>1 DEF Types, TrackerTypes
<1>4. Tickets' BY <1>1 DEF Tickets
<1>5. AckedMeansAnswered' BY DEF AckedMeansAnswered
<1>6. NoTicketStranded' BY DEF NoTicketStranded
<1> QED BY <1>1, <1>2, <1>3, <1>4, <1>5, <1>6

LEMMA SendFailsInv ==
    ASSUME IInv, NEW l \in Links, SendFails(l)
    PROVE  IInv'
<1> USE DEF IInv
<1>1. /\ UNCHANGED <<ackq, reader, kinds, stage, unlogged, at, gone, capable, life, seen,
                     copies, lost, slipped, dropped>>
      /\ Sending(l) /\ OnSend
      /\ down' = down \/ down' = [down EXCEPT ![l] = Append(@, at + 1)]
      /\ cur' = NoLink /\ acks' = FALSE /\ breaks < MaxBreaks /\ breaks' = breaks + 1
      /\ side' = [side EXCEPT ![l] = "half"] /\ back' = [back EXCEPT ![l] = <<>>]
  BY DEF SendFails, Put, publisherVars, acceptorVars
<1>2. at + 1 \in 1 .. LogHead /\ at + 1 \in Offsets /\ cur = l
  BY <1>1, NextEntry
<1>3. /\ LogGrows /\ TrackerTypes' /\ TicketTypes'
      /\ \A o \in Offsets : ticket'[o] = "ok" => ticket[o] = "ok"
      /\ Tickets' /\ AckedMeansAnswered' /\ NoTicketStranded'
  <2>1. CASE acks
    <3>1. /\ UNCHANGED <<ticket, acked, blind>>
          /\ sent' = (IF at + 1 > sent THEN at + 1 ELSE sent) /\ waits' = waits \cup {at + 1}
      BY <1>1, <2>1 DEF OnSend
    <3>2. sent' \in 0 .. LogHead /\ waits' \subseteq 1 .. LogHead /\ waits \subseteq waits'
      BY <1>2, <3>1, OffsetFacts DEF Types, TrackerTypes
    <3> QED BY <1>1, <3>1, <3>2, WaitsStay
  <2>2. CASE ~acks BY <1>1, <2>2, OutOfSight
  <2>3. acks \in BOOLEAN BY DEF Types, DialerTypes
  <2> QED BY <2>1, <2>2, <2>3
<1>4. breaks' \in 0 .. MaxBreaks BY <1>1, BoundsAssumption DEF Types, DialerTypes
<1>5. /\ down' \in [Links -> Seq(Offsets)] /\ \A m \in Links : m # l => down'[m] = down[m]
      /\ down'[l] = down[l] \/ down'[l] = Append(down[l], at + 1)
  <2>1. down \in [Links -> Seq(Offsets)] BY DEF Types, WireTypes
  <2>2. Append(down[l], at + 1) \in Seq(Offsets) BY <1>2, <2>1
  <2> QED BY <1>1, <2>1, <2>2
<1>6. Gapless(down'[l]) BY <1>2, <1>5, GaplessLinks, GaplessNext
<1> QED BY <1>1, <1>2, <1>3, <1>4, <1>5, <1>6, CutOffInv

LEMMA CutInv ==
    ASSUME IInv, NEW l \in Links, Cut(l)
    PROVE  IInv'
<1> USE DEF IInv
<1>1. /\ UNCHANGED <<ackq, reader, kinds, stage, unlogged, ticket, at, acked, gone, capable, life,
                     seen, copies, lost, slipped, blind, dropped>>
      /\ UNCHANGED <<sent, waits>> /\ cur = l
      /\ cur' = NoLink /\ acks' = FALSE
      /\ side' = [side EXCEPT ![l] = "half"] /\ back' = [back EXCEPT ![l] = <<>>]
  BY DEF Cut, publisherVars, trackerVars, acceptorVars, historyVars
<1>2. PICK n \in 0 .. Len(down[l]) : down' = [down EXCEPT ![l] = SubSeq(@, 1, n)] BY DEF Cut
<1>3. sent' \in 0 .. LogHead /\ waits' \subseteq 1 .. LogHead
  BY <1>1 DEF Types, TrackerTypes
<1>4. breaks' \in 0 .. MaxBreaks BY BoundsAssumption DEF Types, DialerTypes, Cut
<1>5. /\ down' \in [Links -> Seq(Offsets)] /\ \A m \in Links : m # l => down'[m] = down[m]
      /\ down'[l] = SubSeq(down[l], 1, n)
  <2>1. down \in [Links -> Seq(Offsets)] BY DEF Types, WireTypes
  <2>2. SubSeq(down[l], 1, n) \in Seq(Offsets) BY <2>1, ElemsPrefix
  <2> QED BY <1>2, <2>1, <2>2
<1>6. Gapless(down'[l]) BY <1>5, WireFacts, GaplessLinks, GaplessPrefix
<1>7. /\ LogGrows /\ TrackerTypes' /\ TicketTypes'
      /\ \A o \in Offsets : ticket'[o] = "ok" => ticket[o] = "ok"
      /\ Tickets' /\ AckedMeansAnswered' /\ NoTicketStranded'
  BY <1>1, <1>3, WaitsStay
<1> QED BY <1>1, <1>4, <1>5, <1>6, <1>7, CutOffInv

\* The puback the dialer reads is for the least frame under way; below it, nothing is
\* left to answer.
LEMMA PubackIsNext ==
    ASSUME IInv, NEW l \in Links, cur = l, back[l] # <<>>
    PROVE  LET p == Head(back[l]) IN
           /\ l # NoLink /\ acks
           /\ p \in [off : Offsets, st : {"ok", "rejected", "unknown"}]
           /\ p.off \in Offsets /\ p.off \in acked .. at /\ Truth(p.off, p.st)
           /\ Elems(back[l]) = {p} \cup Elems(Tail(back[l]))
           /\ \A x \in Elems(down[l]) \cup Offs(Frames(l)) \cup Offs(Elems(Tail(back[l]))) :
                  p.off < x
           /\ IncreasingOff(Tail(back[l]))
           /\ \A o \in 1 .. p.off :
                  o \in Skipped \cup lost \cup blind \/ o <= acked \/ o = p.off
<1> USE DEF IInv
<1> DEFINE p == Head(back[l])
           t == Tail(back[l])
           B == [off : Offsets, st : {"ok", "rejected", "unknown"}]
<1>1. back[l] \in Seq(B) /\ l # NoLink BY WireFacts, LinksAssumption
<1>2. Ordered /\ IncreasingOff(back[l]) BY <1>1 DEF Ordered
<1>3. /\ Elems(back[l]) = {p} \cup Elems(t) /\ p \in B
      /\ IncreasingOff(t) /\ \A x \in Elems(t) : p.off < x.off
  <2> HIDE DEF B
  <2> QED BY <1>1, <1>2, ElemsTail
<1>4. p.off \in Offsets BY <1>3
<1> HIDE DEF p, t, B
<1>5. p.off \in Offs(Elems(back[l])) BY <1>3 DEF Offs
<1>6. p.off \in Pipeline(l) BY <1>5 DEF Pipeline
<1>7. acks BY <1>1, <1>6 DEF Sides
<1>8. p.off \in acked .. at BY <1>1, <1>2, <1>6 DEF Ordered
<1>9. Truth(p.off, p.st) BY <1>1, <1>3 DEF Answers
<1>10. \A x \in Elems(down[l]) \cup Offs(Frames(l)) : p.off < x BY <1>1, <1>2, <1>5 DEF Ordered
<1>11. \A x \in Offs(Elems(t)) : p.off < x BY <1>3 DEF Offs
<1>12. \A x \in Pipeline(l) : x = p.off \/ p.off < x
  BY <1>3, <1>10, <1>11 DEF Pipeline, Offs
<1>13. ASSUME NEW o \in 1 .. p.off
       PROVE  o \in Skipped \cup lost \cup blind \/ o <= acked \/ o = p.off
  <2>1. o \in 1 .. at /\ ~(p.off < o) BY <1>4, <1>8, OffsetFacts
  <2> QED BY <1>1, <1>12, <2>1 DEF Tracked
<1> QED
  BY <1>1, <1>3, <1>4, <1>7, <1>8, <1>9, <1>10, <1>11, <1>13 DEF p, t, B

\* Of the tickets that are open, the puback resolves one, with the truth about it, and
\* those of entries that slipped.
LEMMA PubackResolves ==
    ASSUME IInv, NEW l \in Links, OnPuback(l)
    PROVE  LET p == Head(back[l]) IN
           /\ acked' = p.off
           /\ TicketTypes'
           /\ \A o \in Offsets : \/ ticket'[o] = ticket[o]
                                 \/ o = p.off /\ o \notin blind /\ ticket'[o] = p.st
                                 \/ o \in slipped
           /\ \A o \in Offsets : ticket'[o] = "open" =>
                  /\ ticket[o] = "open" /\ (o \in slipped \/ o > p.off)
                  /\ o \in waits => o \in waits'
           /\ waits' \subseteq waits
<1> USE DEF IInv
<1> DEFINE p == Head(back[l])
<1>1. cur = l /\ back[l] # <<>> BY DEF OnPuback
<1>2. /\ p \in [off : Offsets, st : {"ok", "rejected", "unknown"}]
      /\ p.off \in Offsets /\ p.off \in acked .. at
      /\ \A o \in 1 .. p.off :
             o \in Skipped \cup lost \cup blind \/ o <= acked \/ o = p.off
  BY <1>1, PubackIsNext
<1>3. \/ /\ p.off = acked /\ acked' = acked /\ ticket' = ticket /\ waits' = Pruned(waits)
      \/ /\ acked' = p.off
         /\ ticket' = [o \in Offsets |->
                IF o \notin waits \/ o > p.off \/ ticket[o] # "open" THEN ticket[o]
                ELSE IF o = p.off THEN p.st ELSE "ok"]
         /\ waits' = Pruned({o \in waits : o > p.off})
  BY <1>2, OffsetFacts DEF OnPuback
<1>4. p.st \in {"ok", "rejected", "unknown"} BY <1>2
<1> HIDE DEF p
<1>5. ASSUME NEW o \in Offsets, ticket[o] = "open", ~(o > p.off), o \notin slipped
      PROVE  o = p.off /\ o \in waits /\ o \notin blind /\ o > acked
  <2>1. /\ o \in acked + 1 .. LogHead /\ (o \in waits \/ o > at)
        /\ o \notin lost \cup blind /\ (o <= at => o \notin Skipped)
    BY <1>5 DEF Tickets
  <2>2. o \in 1 .. p.off /\ o <= at /\ ~(o <= acked) BY <1>2, <1>5, <2>1, OffsetFacts
  <2> QED BY <1>2, <2>1, <2>2, OffsetFacts
<1>6. CASE p.off = acked /\ acked' = acked /\ ticket' = ticket /\ waits' = Pruned(waits)
  <2>1. \A o \in Offsets : ticket[o] = "open" => o \in slipped \/ o > p.off
    BY <1>2, <1>5, <1>6, OffsetFacts
  <2>2. waits' \subseteq waits /\ \A o \in waits : ticket[o] = "open" => o \in waits'
    BY <1>6 DEF Pruned
  <2>3. TicketTypes' BY <1>6 DEF Types, TicketTypes
  <2> QED BY <1>6, <2>1, <2>2, <2>3 DEF p
<1>7. CASE /\ acked' = p.off
           /\ ticket' = [o \in Offsets |->
                  IF o \notin waits \/ o > p.off \/ ticket[o] # "open" THEN ticket[o]
                  ELSE IF o = p.off THEN p.st ELSE "ok"]
           /\ waits' = Pruned({o \in waits : o > p.off})
  <2>1. \A o \in Offsets : \/ ticket'[o] = ticket[o]
                           \/ o = p.off /\ o \notin blind /\ ticket'[o] = p.st
                           \/ o \in slipped
    BY <1>5, <1>7
  <2>2. TicketTypes'
    <3>1. {"ok", "rejected", "unknown"} \subseteq {"none", "open"} \cup Outcomes BY DEF Outcomes
    <3> HIDE DEF Outcomes
    <3>2. TicketTypes BY DEF Types
    <3> QED BY <1>4, <1>7, <3>1, <3>2 DEF TicketTypes
  <2>3. \A o \in Offsets : ticket'[o] = "open" =>
            ticket[o] = "open" /\ (o \notin waits \/ o > p.off)
    BY <1>4, <1>7
  <2>4. \A o \in Offsets : ticket'[o] = "open" => o \in slipped \/ o > p.off
    BY <1>5, <2>3
  <2>5. waits' \subseteq waits BY <1>7 DEF Pruned
  <2>6. \A o \in Offsets : ticket'[o] = "open" /\ o \in waits => o \in waits'
    BY <1>7, <2>3 DEF Pruned
  <2> QED BY <1>7, <2>1, <2>2, <2>3, <2>4, <2>5, <2>6 DEF p
<1> QED BY <1>3, <1>6, <1>7

LEMMA OnPubackInv ==
    ASSUME IInv, NEW l \in Links, OnPuback(l)
    PROVE  IInv'
<1> USE DEF IInv
<1> DEFINE p == Head(back[l])
           t == Tail(back[l])
<1>1. /\ UNCHANGED <<cur, acks, side, down, ackq, reader, kinds, stage, unlogged, at, sent, gone,
                     breaks>>
      /\ UNCHANGED <<capable, life, seen, copies, lost, slipped, blind, dropped>>
      /\ cur = l /\ back[l] # <<>> /\ back' = [back EXCEPT ![l] = t]
  BY DEF OnPuback, publisherVars, dialerVars, acceptorVars, historyVars
<1>2. /\ l # NoLink /\ acks
      /\ p.off \in Offsets /\ p.off \in acked .. at /\ Truth(p.off, p.st)
      /\ Elems(back[l]) = {p} \cup Elems(t)
      /\ \A x \in Elems(down[l]) \cup Offs(Frames(l)) \cup Offs(Elems(t)) : p.off < x
      /\ IncreasingOff(t)
      /\ \A o \in 1 .. p.off : o \in Skipped \cup lost \cup blind \/ o <= acked \/ o = p.off
  BY <1>1, PubackIsNext
<1>3. /\ acked' = p.off
      /\ TicketTypes'
      /\ \A o \in Offsets : \/ ticket'[o] = ticket[o]
                            \/ o = p.off /\ o \notin blind /\ ticket'[o] = p.st
                            \/ o \in slipped
      /\ \A o \in Offsets : ticket'[o] = "open" =>
             /\ ticket[o] = "open" /\ (o \in slipped \/ o > p.off)
             /\ o \in waits => o \in waits'
      /\ waits' \subseteq waits
  BY PubackResolves
<1>4. /\ t \in Seq([off : Offsets, st : {"ok", "rejected", "unknown"}])
  <2> DEFINE B == [off : Offsets, st : {"ok", "rejected", "unknown"}]
  <2>1. back[l] \in Seq(B) BY WireFacts
  <2> HIDE DEF B
  <2>2. t \in Seq(B) BY <1>1, <2>1, ElemsTail
  <2> QED BY <2>2 DEF B
<1> HIDE DEF p, t
<1>5. LogHead' = LogHead /\ Skipped' = Skipped /\ Oldest' = Oldest
  BY <1>1 DEF LogHead, Skipped, Oldest
<1>6. LogGrows /\ CopiesGrow BY <1>1, <1>2, <1>3, <1>5, CopiesKept, OffsetFacts DEF LogGrows
<1>7. Types'
  <2>1. LogTypes' BY <1>1, <1>5 DEF Types, LogTypes
  <2>2. TrackerTypes'
    <3>1. TrackerTypes BY DEF Types
    <3>2. p.off <= at /\ p.off \in 0 .. LogHead BY <1>2, OffsetFacts
    <3> QED BY <1>1, <1>3, <1>5, <3>1, <3>2 DEF TrackerTypes
  <2>3. DialerTypes' /\ QueueTypes' /\ MemoryTypes'
    BY <1>1 DEF Types, DialerTypes, QueueTypes, MemoryTypes
  <2>4. WireTypes'
    <3> DEFINE B == [off : Offsets, st : {"ok", "rejected", "unknown"}]
    <3>1. back \in [Links -> Seq(B)] /\ t \in Seq(B) BY <1>4 DEF Types, WireTypes
    <3> HIDE DEF B
    <3>2. back' \in [Links -> Seq(B)] BY <1>1, <3>1
    <3> QED BY <1>1, <3>2 DEF Types, WireTypes, B
  <2> QED BY <1>3, <2>1, <2>2, <2>3, <2>4 DEF Types
<1>8. back'[l] = t /\ \A m \in Links : m # l => back'[m] = back[m]
  BY <1>1 DEF Types, WireTypes
<1>9. /\ Frames(l)' = Frames(l) /\ Reading(l)' = Reading(l)
      /\ Pipeline(l) = Pipeline(l)' \cup {p.off}
      /\ Pipeline(l)' = Elems(down[l]) \cup Offs(Frames(l)) \cup Offs(Elems(t))
  <2>1. Frames(l)' = Frames(l) /\ Reading(l)' = Reading(l) BY <1>1 DEF Frames, Reading
  <2>2. Offs(Elems(back[l])) = Offs(Elems(t)) \cup {p.off} BY <1>2 DEF Offs
  <2> QED BY <1>1, <1>8, <2>1, <2>2 DEF Pipeline
<1>10. Sides' BY <1>1, <1>2, <1>8 DEF Sides
<1>11. Readers' /\ Lives' /\ PublishedOnce'
  BY <1>1, ReadersKept, LivesKept, PublishedOnceKept
<1>12. Ordered'
  <2>1. Ordered BY DEF IInv
  <2>2. Offs(Elems(t)) \subseteq Offs(Elems(back[l])) BY <1>2 DEF Offs
  <2>3. \A x \in Pipeline(l)' : /\ x \in acked' .. at /\ x # acked'
                                 /\ x <= sent /\ x \notin Skipped \cup lost
    <3>1. \A x \in Pipeline(l)' : x \in acked .. at /\ x <= sent /\ x \notin Skipped \cup lost
      BY <1>1, <1>2, <1>9, <2>1 DEF Ordered
    <3> QED BY <1>2, <1>3, <1>9, <3>1, OffsetFacts
  <2> QED BY <1>1, <1>2, <1>5, <1>8, <1>9, <2>1, <2>2, <2>3 DEF Ordered
<1>13. Tracked' BY <1>1, <1>2, <1>3, <1>5, <1>9, OffsetFacts DEF Tracked
<1>14. NoHoles' BY <1>1, <1>6, <1>7, NoHolesKept
<1>15. Remembered' BY <1>1, <1>6, <1>7, RememberedKept
<1>16. \A o, st : Truth(o, st)' <=> Truth(o, st) BY <1>1 DEF Truth, SettledCopy, HandledOK
<1>17. Answers' BY <1>1, <1>2, <1>8, <1>9, <1>16 DEF Answers
<1>18. Tickets'
  <2>1. \A o \in Offsets : stage'[o] = "logged" => o <= LogHead' BY <1>1, <1>5 DEF Tickets
  <2>2. ASSUME NEW o \in Offsets, ticket'[o] = "open"
        PROVE  /\ o \in waits' \/ stage'[o] = "logged"
               /\ o \in slipped' \/ /\ o \in acked' + 1 .. LogHead'
                                    /\ o \in waits' \/ o > at'
                                    /\ o \notin lost' \cup blind'
                                    /\ (o <= at' => o \notin Skipped')
    <3>1. /\ ticket[o] = "open" /\ (o \in slipped \/ o > p.off) /\ (o \in waits => o \in waits')
          /\ o \in waits \/ stage[o] = "logged"
          /\ o \in slipped \/ /\ o \in acked + 1 .. LogHead /\ (o \in waits \/ o > at)
                              /\ o \notin lost \cup blind /\ (o <= at => o \notin Skipped)
      BY <1>3, <2>2 DEF Tickets
    <3> QED BY <1>1, <1>2, <1>3, <1>5, <3>1, OffsetFacts
  <2> QED BY <2>1, <2>2 DEF Tickets
<1>19. AckedMeansAnswered'
  <2>1. ASSUME NEW o \in 1 .. p.off
        PROVE  \/ kinds[o] = "skipped"
               \/ o \in lost \cup blind \cup dropped
               \/ SettledCopy(o)
    <3>1. CASE o \in Skipped BY <3>1 DEF Skipped
    <3>2. CASE o <= acked
      <4>1. o \in 1 .. acked BY <3>2, OffsetFacts
      <4> QED BY <4>1 DEF AckedMeansAnswered, SettledCopy
    <3>3. CASE o = p.off BY <1>2, <3>3 DEF Truth
    <3> QED BY <1>2, <3>1, <3>2, <3>3
  <2> QED BY <1>1, <1>3, <2>1 DEF AckedMeansAnswered, SettledCopy
<1>20. NoFalseOk'
  <2>1. \A o \in Offsets : ticket'[o] = "ok" => HandledOK(o) \/ o \in dropped \cup slipped
    BY <1>2, <1>3 DEF NoFalseOk, Truth
  <2> QED BY <1>1, <2>1 DEF NoFalseOk, HandledOK
<1>21. NoTicketStranded' BY <1>1, <1>3 DEF NoTicketStranded
<1> QED
  BY <1>7, <1>10, <1>11, <1>12, <1>13, <1>14, <1>15, <1>17, <1>18, <1>19, <1>20, <1>21

-----------------------------------------------------------------------------
(* The acceptor. *)

\* A step of the acceptor, which the dialer does not see yet.
LEMMA AcceptorInv ==
    ASSUME IInv,
           UNCHANGED <<kinds, stage, unlogged, ticket, at, acked, sent, waits, cur, acks, gone,
                       breaks, lost, slipped, blind>>,
           WireTypes', QueueTypes', MemoryTypes', CopiesGrow, dropped \subseteq dropped',
           cur # NoLink => Pipeline(cur)' = Pipeline(cur),
           Sides', Readers', Lives', Ordered', NoHoles', Remembered', Answers', PublishedOnce'
    PROVE  IInv'
<1> USE DEF IInv
<1>1. LogHead' = LogHead /\ Skipped' = Skipped /\ Oldest' = Oldest
  BY DEF LogHead, Skipped, Oldest
<1>2. LogGrows BY <1>1, OffsetFacts DEF LogGrows
<1>3. Types'
  <2>1. LogTypes' /\ TicketTypes' /\ TrackerTypes' /\ DialerTypes'
    BY <1>1 DEF Types, LogTypes, TicketTypes, TrackerTypes, DialerTypes
  <2> QED BY <2>1 DEF Types
<1>4. Tracked' BY <1>1 DEF Tracked
<1>5. Tickets' BY <1>1 DEF Tickets
<1>6. AckedMeansAnswered' /\ NoFalseOk' BY <1>2, <1>3, AckedKept, NoFalseOkKept
<1>7. NoTicketStranded' BY DEF NoTicketStranded
<1> QED BY <1>3, <1>4, <1>5, <1>6, <1>7

\* What the acceptor's steps need of the log: nothing of it changes.
LEMMA LogStays ==
    ASSUME IInv, UNCHANGED <<kinds, acked, lost, slipped, blind>>, dropped \subseteq dropped'
    PROVE  /\ LogHead' = LogHead /\ Skipped' = Skipped /\ LogGrows
           /\ \A p : Known(p) => Known(p)'
<1>1. LogHead' = LogHead /\ Skipped' = Skipped BY DEF LogHead, Skipped
<1>2. LogGrows BY <1>1, OffsetFacts DEF LogGrows, IInv
<1> QED BY <1>1, <1>2 DEF Known

LEMMA RealFrame ==
    ASSUME NEW f \in FrameRecords
    PROVE  f # NoFrame /\ f.off \in Offsets /\ f.st \in {"shared", "ok", "rejected", "unknown"}
<1>1. f.off \in Offsets /\ f.st \in {"shared", "ok", "rejected", "unknown"} BY DEF FrameRecords
<1>2. NoFrame.off = 0 BY DEF NoFrame
<1> QED BY <1>1, <1>2, BoundsAssumption DEF Offsets

\* The reader takes the next frame of its link.
LEMMA TakeFrame ==
    ASSUME IInv, NEW l \in Links, NEW f \in FrameRecords,
           down[l] # <<>>, f.off = Head(down[l]), reader[l] = NoFrame, side[l] # "free",
           down' = [down EXCEPT ![l] = Tail(@)], reader' = [reader EXCEPT ![l] = f],
           UNCHANGED <<kinds, at, acked, sent, cur, acks, side, back, ackq, lost, blind>>
    PROVE  /\ WireTypes' /\ QueueTypes' /\ Sides' /\ Ordered'
           /\ f.off \in Offsets /\ f.off \in Pipeline(l)
           /\ Elems(down[l]) = {f.off} \cup Elems(Tail(down[l]))
           /\ down[l] \in Seq(Offsets) /\ down'[l] = Tail(down[l]) /\ reader'[l] = f
           /\ Frames(l)' = Frames(l) \cup {f} /\ Reading(l)' = {f}
           /\ \A m \in Links : Pipeline(m)' = Pipeline(m)
           /\ \A m \in Links : m # l => /\ down'[m] = down[m] /\ reader'[m] = reader[m]
                                        /\ Frames(m)' = Frames(m)
<1> USE DEF IInv
<1> DEFINE t == Tail(down[l])
<1>1. down[l] \in Seq(Offsets) /\ Head(down[l]) = f.off BY WireFacts
<1>2. /\ Elems(down[l]) = {f.off} \cup Elems(t) /\ f.off \in Offsets /\ t \in Seq(Offsets)
      /\ Increasing(down[l]) => Increasing(t) /\ \A x \in Elems(t) : f.off < x
  BY <1>1, ElemsTail
<1>3. WireTypes'
  <2>1. down \in [Links -> Seq(Offsets)] BY DEF Types, WireTypes
  <2>2. down' \in [Links -> Seq(Offsets)] BY <1>2, <2>1
  <2> QED BY <2>2 DEF Types, WireTypes
<1> HIDE DEF t
<1>4. QueueTypes'
  <2>1. reader \in [Links -> FrameRecords \cup {NoFrame}] BY DEF Types, QueueTypes
  <2>2. reader' \in [Links -> FrameRecords \cup {NoFrame}] BY <2>1
  <2> QED BY <2>2 DEF Types, QueueTypes
<1>5. /\ down'[l] = t /\ reader'[l] = f
      /\ \A m \in Links : m # l => down'[m] = down[m] /\ reader'[m] = reader[m]
  BY DEF Types, WireTypes, QueueTypes, t
<1>6. Reading(l) = {} /\ Reading(l)' = {f} BY <1>5, RealFrame DEF Reading
<1>7. Frames(l) = Elems(ackq[l]) /\ Frames(l)' = Frames(l) \cup {f} BY <1>6 DEF Frames
<1>8. \A m \in Links : m # l => Frames(m)' = Frames(m) /\ Reading(m)' = Reading(m)
  BY <1>5 DEF Frames, Reading
<1>9. \A m \in Links : Pipeline(m)' = Pipeline(m)
  <2>1. Offs(Frames(l) \cup {f}) = Offs(Frames(l)) \cup {f.off} BY DEF Offs
  <2>2. Pipeline(l)' = Pipeline(l) BY <1>2, <1>5, <1>7, <2>1 DEF Pipeline
  <2>3. \A m \in Links : m # l => Pipeline(m)' = Pipeline(m) BY <1>5, <1>8 DEF Pipeline
  <2> QED BY <2>2, <2>3
<1>10. f.off \in Pipeline(l) BY <1>2 DEF Pipeline
<1>11. Sides' 
  <2>1. cur # NoLink => cur \in Links BY DEF Types, DialerTypes
  <2> QED BY <1>5, <1>9, <2>1 DEF Sides
<1>12. LogHead' = LogHead /\ Skipped' = Skipped BY DEF LogHead, Skipped
<1>13. Ordered'
  <2>1. CASE cur = NoLink BY <2>1 DEF Ordered
  <2>2. CASE cur # NoLink /\ cur # l
    <3>1. cur \in Links BY <2>2 DEF Types, DialerTypes
    <3>2. /\ down'[cur] = down[cur] /\ Frames(cur)' = Frames(cur) /\ Reading(cur)' = Reading(cur)
          /\ Pipeline(cur)' = Pipeline(cur)
      BY <1>5, <1>8, <1>9, <2>2, <3>1
    <3> QED BY <1>12, <2>2, <3>2 DEF Ordered
  <2>3. CASE cur = l
    <3>1. Ordered /\ l # NoLink BY LinksAssumption
    <3>2. Increasing(t) /\ \A x \in Elems(t) : f.off < x BY <1>2, <2>3, <3>1 DEF Ordered
    <3>3. Offs(Reading(l)') = {f.off} BY <1>6 DEF Offs
    <3>4. \A q \in Offs(Elems(ackq[l])) : \A x \in Elems(t) \cup {f.off} : q < x
      BY <1>2, <2>3, <3>1 DEF Ordered
    <3>5. \A b \in Offs(Elems(back[l])) : \A x \in Elems(t) \cup Offs(Frames(l)') : b < x
      <4>1. Offs(Frames(l)') = Offs(Frames(l)) \cup {f.off} BY <1>7 DEF Offs
      <4> QED BY <1>2, <2>3, <3>1, <4>1 DEF Ordered
    <3> QED BY <1>5, <1>9, <1>12, <2>3, <3>1, <3>2, <3>3, <3>4, <3>5 DEF Ordered
  <2> QED BY <2>1, <2>2, <2>3
<1> QED BY <1>1, <1>2, <1>3, <1>4, <1>5, <1>6, <1>7, <1>8, <1>9, <1>10, <1>11, <1>13 DEF t

\* A frame that was taken is covered by now: nothing is missing on the links.
LEMMA TakenCovered ==
    ASSUME IInv, NEW l \in Links, NEW o \in Offsets, down[l] # <<>>, Head(down[l]) = o,
           \A m \in Links : m # l => down'[m] = down[m], down'[l] = Tail(down[l]),
           UNCHANGED <<at, cur>>, \A p \in Nat : Covered(p) => Covered(p)', Covered(o)'
    PROVE  NoHoles'
<1> USE DEF IInv
<1> DEFINE s == down[l]
           t == Tail(s)
<1>1. s \in Seq(Offsets) /\ Gapless(s) BY WireFacts, GaplessLinks
<1>2. /\ Len(s) \in Nat /\ Len(t) = Len(s) - 1 /\ o = s[1]
      /\ \A i \in 1 .. Len(t) : t[i] = s[i + 1]
  BY <1>1
<1>3. Elems(s) = {o} \cup Elems(t) BY <1>1, ElemsTail
<1> HIDE DEF s, t
<1>4. ASSUME NEW i \in 1 .. Len(t), NEW p \in 1 .. t[i] - 1
      PROVE  Covered(p)' \/ \E j \in 1 .. i - 1 : t[j] = p
  <2>1. i + 1 \in 1 .. Len(s) /\ t[i] = s[i + 1] BY <1>2
  <2>2. Covered(p) \/ \E j \in 1 .. (i + 1) - 1 : s[j] = p BY <1>1, <2>1 DEF Gapless
  <2>3. \A j \in 1 .. (i + 1) - 1 : j = 1 \/ (j - 1 \in 1 .. i - 1 /\ t[j - 1] = s[j])
    <3>1. \A j \in 1 .. (i + 1) - 1 :
              j = 1 \/ (j - 1 \in 1 .. i - 1 /\ j - 1 \in 1 .. Len(t) /\ (j - 1) + 1 = j)
      BY ONLY <1>2
    <3> QED BY ONLY <1>2, <3>1
  <2> QED BY <1>2, <2>2, <2>3
<1>5. ASSUME NEW m \in Links, m # l, NEW i \in 1 .. Len(down[m]), NEW p \in 1 .. down[m][i] - 1
      PROVE  Covered(p)' \/ \E j \in 1 .. i - 1 : down[m][j] = p
  BY <1>5, GaplessLinks, GaplessGrows
<1>6. \A m \in Links : \A i \in 1 .. Len(down'[m]) : \A p \in 1 .. down'[m][i] - 1 :
          Covered(p)' \/ \E j \in 1 .. i - 1 : down'[m][j] = p
  <2> TAKE m \in Links
  <2>1. CASE m = l
    <3>1. down'[m] = t BY <2>1 DEF s, t
    <3> QED BY <1>4, <3>1
  <2>2. CASE m # l
    <3>1. down'[m] = down[m] BY <2>2
    <3> QED BY <1>5, <2>2, <3>1
  <2> QED BY <2>1, <2>2
<1>7. cur # NoLink => \A p \in 1 .. at : Covered(p)' \/ p \in Elems(down'[cur])
  <2> SUFFICES ASSUME cur # NoLink, NEW p \in 1 .. at
               PROVE  Covered(p)' \/ p \in Elems(down'[cur])
    OBVIOUS
  <2>1. Covered(p) \/ p \in Elems(down[cur]) BY DEF NoHoles
  <2>2. cur \in Links BY DEF Types, DialerTypes
  <2>3. p \in Elems(down[cur]) => p \in Elems(down'[cur]) \/ p = o
    BY <1>3, <2>2 DEF s, t
  <2> QED BY <2>1, <2>3
<1> QED BY <1>6, <1>7 DEF NoHoles

\* What a frame that the stream has seen is answered with.
LEMMA RedeliveryFacts ==
    ASSUME IInv, NEW o \in Offsets, IsCopy(o)
    PROVE  /\ Redelivery(o) \in FrameRecords
           /\ Redelivery(o).off = o /\ Redelivery(o).new = FALSE
           /\ Redelivery(o).st = "shared" => Redelivery(o).copy \in 1 .. Len(copies[o])
           /\ Redelivery(o).st # "shared" /\ ~Known(o) => Truth(o, Redelivery(o).st)
           /\ o \in dropped \cup blind => Truth(o, Redelivery(o).st)
<1> USE DEF IInv
<1>1. /\ seen.inflight[o] \in Nat /\ seen.inflight[o] <= Len(copies[o]) /\ Len(copies[o]) \in Nat
      /\ seen.floor \in Nat /\ o \in Nat
  <2>1. seen.inflight[o] <= Len(copies[o]) BY DEF Types, MemoryTypes
  <2>2. seen.floor \in Nat BY SeenFacts, BoundsAssumption
  <2> QED BY <2>1, <2>2, SeenFacts, CopiesFacts, OffsetFacts
<1>2. seen.present /\ o \in 1 .. seen.last
  BY SeenFacts, OffsetFacts DEF IsCopy
<1>3. ~Known(o) =>
          \/ seen.inflight[o] # 0
          \/ SettledCopy(o) /\ (o \in seen.errs \/ o <= seen.floor \/ HandledOK(o))
  BY <1>2 DEF Remembered
<1>4. CASE seen.inflight[o] # 0
  <2>1. Redelivery(o) = [off |-> o, copy |-> seen.inflight[o], st |-> "shared", new |-> FALSE]
    BY <1>4 DEF Redelivery
  <2>2. seen.inflight[o] \in 1 .. Len(copies[o]) BY <1>1, <1>4
  <2> QED BY <1>1, <2>1, <2>2 DEF FrameRecords, Truth
<1>5. CASE seen.inflight[o] = 0 /\ o \in seen.errs
  <2>1. Redelivery(o) = [off |-> o, copy |-> 0, st |-> "rejected", new |-> FALSE]
    BY <1>5 DEF Redelivery
  <2>2. Redelivery(o) \in FrameRecords /\ Redelivery(o).off = o /\ Redelivery(o).new = FALSE
        /\ Redelivery(o).st = "rejected"
    BY <2>1 DEF FrameRecords
  <2> QED BY <1>3, <1>5, <2>2 DEF Truth
<1>6. CASE seen.inflight[o] = 0 /\ o \notin seen.errs /\ o <= seen.floor
  <2>1. Redelivery(o) = [off |-> o, copy |-> 0, st |-> "unknown", new |-> FALSE]
    BY <1>6 DEF Redelivery
  <2>2. Redelivery(o) \in FrameRecords /\ Redelivery(o).off = o /\ Redelivery(o).new = FALSE
        /\ Redelivery(o).st = "unknown"
    BY <2>1 DEF FrameRecords
  <2> QED BY <1>3, <1>6, <2>2 DEF Truth
<1>7. CASE seen.inflight[o] = 0 /\ o \notin seen.errs /\ ~(o <= seen.floor)
  <2>1. Redelivery(o) = [off |-> o, copy |-> 0, st |-> "ok", new |-> FALSE]
    BY <1>7 DEF Redelivery
  <2>2. Redelivery(o) \in FrameRecords /\ Redelivery(o).off = o /\ Redelivery(o).new = FALSE
        /\ Redelivery(o).st = "ok"
    BY <2>1 DEF FrameRecords
  <2> QED BY <1>3, <1>7, <2>2 DEF Truth
<1> QED BY <1>4, <1>5, <1>6, <1>7

\* What is under way to the dialer is known to it only if the acceptor forgot it, or the
\* dialer did not follow it before.
LEMMA UnderWay ==
    ASSUME IInv, NEW l \in Links, cur = l, NEW o \in Pipeline(l), Known(o)
    PROVE  o \in dropped \cup blind
<1>1. l # NoLink BY LinksAssumption
<1>2. o \in acked .. at /\ (o = acked => o \in blind) /\ o \notin Skipped \cup lost
  BY <1>1 DEF IInv, Ordered
<1>3. o <= acked => o = acked BY <1>2, OffsetFacts DEF IInv
<1> QED BY <1>2, <1>3 DEF Known

LEMMA BeginCopy ==
    ASSUME IInv, NEW l \in Links, Begin(l), IsCopy(Head(down[l]))
    PROVE  IInv'
<1> USE DEF IInv
<1> DEFINE o == Head(down[l])
           f == Redelivery(o)
<1>1. /\ UNCHANGED <<kinds, stage, unlogged, ticket, at, acked, sent, waits, cur, acks, gone,
                     breaks, lost, slipped, blind, dropped, side, back, ackq, capable, life, seen,
                     copies>>
      /\ side[l] # "free" /\ down[l] # <<>> /\ reader[l] = NoFrame
      /\ down' = [down EXCEPT ![l] = Tail(@)] /\ reader' = [reader EXCEPT ![l] = f]
  BY DEF Begin, publisherVars, trackerVars, dialerVars, historyVars
<1>2. o \in Offsets BY <1>1, WireFacts, ElemsTail
<1>3. /\ f \in FrameRecords /\ f.off = o /\ f.new = FALSE
      /\ f.st = "shared" => f.copy \in 1 .. Len(copies[o])
      /\ f.st # "shared" /\ ~Known(o) => Truth(o, f.st)
      /\ o \in dropped \cup blind => Truth(o, f.st)
  BY <1>2, RedeliveryFacts
<1>4. IsCopy(o) /\ Head(down[l]) = o OBVIOUS
<1> HIDE DEF o, f
<1>5. /\ WireTypes' /\ QueueTypes' /\ Sides' /\ Ordered' /\ o \in Pipeline(l)
      /\ down'[l] = Tail(down[l]) /\ reader'[l] = f
      /\ Frames(l)' = Frames(l) \cup {f}
      /\ \A m \in Links : Pipeline(m)' = Pipeline(m)
      /\ \A m \in Links : m # l => /\ down'[m] = down[m] /\ reader'[m] = reader[m]
                                   /\ Frames(m)' = Frames(m)
  BY <1>1, <1>3, <1>4, TakeFrame
<1>6. MemoryTypes' /\ CopiesGrow /\ Lives' /\ PublishedOnce'
  BY <1>1, CopiesKept, LivesKept, PublishedOnceKept DEF Types, MemoryTypes
<1>7. Readers'
  <2>1. \A m \in Links : \A g \in Frames(m)' :
            g.st = "shared" => g.copy \in 1 .. Len(copies[g.off])
    BY <1>3, <1>5 DEF Readers
  <2>2. \A m \in Links : reader'[m].new => m # l /\ reader'[m] = reader[m] BY <1>3, <1>5
  <2> QED BY <1>1, <2>1, <2>2 DEF Readers
<1>8. \A p : (Known(p)' <=> Known(p)) /\ (SettledCopy(p)' <=> SettledCopy(p))
             /\ (HandledOK(p)' <=> HandledOK(p))
  BY <1>1 DEF Known, SettledCopy, HandledOK, Skipped, LogHead
<1>9. NoHoles'
  <2>1. \A p : Covered(p)' <=> Covered(p) BY <1>1, <1>8 DEF Covered
  <2>2. Covered(o) BY <1>4 DEF Covered, IsCopy
  <2> QED BY <1>1, <1>2, <1>4, <1>5, <2>1, <2>2, TakenCovered
<1>10. Remembered' BY <1>1, <1>8 DEF Remembered
<1>11. Answers'
  <2>1. \A p, st : Truth(p, st)' <=> Truth(p, st) BY <1>1, <1>8 DEF Truth
  <2>2. cur = l => (f.st # "shared" => Truth(f.off, f.st)) BY <1>3, <1>5, UnderWay
  <2>3. cur # NoLink => cur \in Links BY DEF Types, DialerTypes
  <2> QED BY <1>1, <1>5, <2>1, <2>2, <2>3 DEF Answers
<1>12. cur # NoLink => Pipeline(cur)' = Pipeline(cur)
  <2>1. cur # NoLink => cur \in Links BY DEF Types, DialerTypes
  <2> QED BY <1>1, <1>5, <2>1
<1> QED
  BY <1>1, <1>5, <1>6, <1>7, <1>9, <1>10, <1>11, <1>12, AcceptorInv

LEMMA LowestFacts ==
    ASSUME NEW S \in SUBSET Offsets, S # {}
    PROVE  Lowest(S) \in S
<1>1. \E x \in S : \A y \in S : x <= y
  <2>1. S \subseteq Nat BY BoundsAssumption DEF Offsets
  <2>2. PICK x \in S : \A y \in S : ~(<<y, x>> \in OpToRel(<, Nat))
    BY <2>1, NatLessThanWellFounded, WFMin
  <2>3. \A y \in S : ~(y < x) BY <2>1, <2>2 DEF OpToRel
  <2> QED BY <2>1, <2>3
<1> QED BY <1>1 DEF Lowest

\* settle keeps a failed result, or raises the floor past the lowest one.
LEMMA WithErrFacts ==
    ASSUME NEW o \in Offsets,
           NEW r \in [present : BOOLEAN, last : 0 .. MaxLog, floor : 0 .. MaxLog,
                      inflight : [Offsets -> Nat], errs : SUBSET Offsets]
    PROVE  LET w == WithErr(r, o) IN
           /\ w \in [present : BOOLEAN, last : 0 .. MaxLog, floor : 0 .. MaxLog,
                     inflight : [Offsets -> Nat], errs : SUBSET Offsets]
           /\ w.present = r.present /\ w.last = r.last
           /\ w.inflight[o] = 0 /\ \A p \in Offsets : p # o => w.inflight[p] = r.inflight[p]
           /\ r.floor <= w.floor
           /\ \A p \in r.errs \cup {o} : p \in w.errs \/ p <= w.floor
<1> DEFINE D == [present : BOOLEAN, last : 0 .. MaxLog, floor : 0 .. MaxLog,
                 inflight : [Offsets -> Nat], errs : SUBSET Offsets]
           w == WithErr(r, o)
           g == [r.inflight EXCEPT ![o] = 0]
           errs == r.errs \cup {o}
           low == Lowest(errs)
           high == IF low > r.floor THEN low ELSE r.floor
<1>1. r \in D OBVIOUS
<1>2. /\ g \in [Offsets -> Nat] /\ g[o] = 0
      /\ \A p \in Offsets : p # o => g[p] = r.inflight[p]
  <2>1. r.inflight \in [Offsets -> Nat] OBVIOUS
  <2> QED BY <2>1
<1>3. r.floor \in 0 .. MaxLog /\ r.floor <= r.floor /\ MaxLog \in Nat
  <2>1. r.floor \in 0 .. MaxLog /\ MaxLog \in Nat BY BoundsAssumption
  <2> QED BY <2>1
<1>4. errs \in SUBSET Offsets /\ errs # {} /\ low \in errs
  <2>1. errs \in SUBSET Offsets /\ errs # {} OBVIOUS
  <2> HIDE DEF errs
  <2> QED BY <2>1, LowestFacts
<1>5. low \in Nat /\ low <= MaxLog
  <2>1. \A x \in Offsets : x \in Nat /\ x <= MaxLog BY BoundsAssumption DEF Offsets
  <2> HIDE DEF low, errs
  <2> QED BY <1>4, <2>1
<1>6. high \in 0 .. MaxLog /\ low <= high /\ r.floor <= high
  <2> HIDE DEF low
  <2> QED BY <1>3, <1>5
<1>7. \/ w = [r EXCEPT !.errs = errs, !.inflight = g]
      \/ w = [r EXCEPT !.errs = errs \ {low}, !.inflight = g, !.floor = high]
  BY DEF WithErr
<1> HIDE DEF g, errs, low, high, w
<1>8. CASE w = [r EXCEPT !.errs = errs, !.inflight = g]
  <2>1. /\ w \in D /\ w.present = r.present /\ w.last = r.last
        /\ w.floor = r.floor /\ w.errs = errs /\ w.inflight = g
    BY <1>1, <1>2, <1>4, <1>8
  <2> QED BY <1>2, <1>3, <2>1 DEF errs, w
<1>9. CASE w = [r EXCEPT !.errs = errs \ {low}, !.inflight = g, !.floor = high]
  <2>1. /\ w \in D /\ w.present = r.present /\ w.last = r.last
        /\ w.floor = high /\ w.errs = errs \ {low} /\ w.inflight = g
    BY <1>1, <1>2, <1>4, <1>6, <1>9
  <2> QED BY <1>2, <1>6, <2>1 DEF errs, w
<1> QED BY <1>7, <1>8, <1>9

\* A new frame is entered into the memory, to be published or as invalid.
LEMMA FrameEntered ==
    ASSUME IInv, NEW l \in Links, NEW o \in Offsets, NEW s \in {"begun", "rejected"},
           UNCHANGED <<kinds, stage, unlogged, ticket, at, acked, sent, waits, cur, acks, gone,
                       breaks, lost, slipped, blind, dropped, side, back, ackq, capable, life>>,
           side[l] # "free", down[l] # <<>>, reader[l] = NoFrame,
           Head(down[l]) = o, ~IsCopy(o), down' = [down EXCEPT ![l] = Tail(@)],
           reader' = [reader EXCEPT ![l] = [off |-> o, copy |-> Len(copies[o]) + 1,
                                            st |-> "shared", new |-> s = "begun"]],
           copies' = [copies EXCEPT ![o] = Append(@, [st |-> s, life |-> life])],
           seen' \in [present : BOOLEAN, last : 0 .. MaxLog, floor : 0 .. MaxLog,
                      inflight : [Offsets -> Nat], errs : SUBSET Offsets],
           seen'.present = TRUE, seen'.last = o, seen.floor <= seen'.floor,
           \A p \in Offsets : p # o => seen'.inflight[p] = seen.inflight[p],
           \A p \in seen.errs : p \in seen'.errs \/ p <= seen'.floor,
           \/ seen'.inflight[o] = Len(copies[o]) + 1
           \/ /\ s = "rejected" /\ seen'.inflight[o] = 0
              /\ o \in seen'.errs \/ o <= seen'.floor
    PROVE  IInv'
<1> USE DEF IInv
<1> DEFINE k == Len(copies[o]) + 1
           f == [off |-> o, copy |-> k, st |-> "shared", new |-> s = "begun"]
           c == [st |-> s, life |-> life]
           C == [st : CopyStates, life : 1 .. MaxLife]
<1>1. /\ reader' = [reader EXCEPT ![l] = f] /\ copies' = [copies EXCEPT ![o] = Append(@, c)]
      /\ seen'.inflight[o] = k \/ seen'.inflight[o] = 0
  OBVIOUS
<1>2. seen.floor \in Nat /\ seen'.floor \in Nat /\ seen.floor <= seen'.floor
  <2>1. seen'.floor \in 0 .. MaxLog OBVIOUS
  <2> QED BY <2>1, SeenFacts, BoundsAssumption
<1>3. copies \in [Offsets -> Seq(C)] /\ copies[o] \in Seq(C) /\ Len(copies[o]) \in Nat /\ k \in Nat
  <2>1. copies \in [Offsets -> Seq(C)] BY DEF Types, MemoryTypes
  <2>2. Len(copies[o]) \in Nat BY CopiesFacts
  <2> HIDE DEF C
  <2> QED BY <2>1, <2>2
<1>4. f \in FrameRecords /\ f.off = o /\ f.copy = k /\ f.st = "shared"
      /\ f.new = (s = "begun")
  BY <1>3 DEF FrameRecords
<1>5. c \in C /\ c.st = s /\ c.life = life BY DEF Types, MemoryTypes, CopyStates
<1>6. ~(seen.present /\ o <= seen.last) BY DEF IsCopy
<1>7. k = Len(copies[o]) + 1 OBVIOUS
<1> HIDE DEF k, f, c, C
<1>8. /\ copies' \in [Offsets -> Seq(C)]
      /\ copies'[o] = Append(copies[o], c)
      /\ Len(copies'[o]) = k /\ copies'[o][k] = c
      /\ \A j \in 1 .. Len(copies[o]) : copies'[o][j] = copies[o][j]
      /\ \A p \in Offsets : p # o => copies'[p] = copies[p]
      /\ \A p \in Offsets : /\ Len(copies[p]) \in Nat
                            /\ Len(copies'[p]) \in {Len(copies[p]), Len(copies[p]) + 1}
                            /\ \A j \in 1 .. Len(copies[p]) : copies'[p][j] = copies[p][j]
                            /\ \A j \in 1 .. Len(copies'[p]) :
                                   j \in 1 .. Len(copies[p]) \/ (p = o /\ j = k)
  <2>1. Append(copies[o], c) \in Seq(C) BY <1>3, <1>5
  <2>2. /\ copies' \in [Offsets -> Seq(C)] /\ copies'[o] = Append(copies[o], c)
        /\ \A p \in Offsets : p # o => copies'[p] = copies[p]
    BY <1>1, <1>3, <2>1
  <2>3. /\ Len(Append(copies[o], c)) = Len(copies[o]) + 1
        /\ Append(copies[o], c)[Len(copies[o]) + 1] = c
        /\ \A j \in 1 .. Len(copies[o]) : Append(copies[o], c)[j] = copies[o][j]
    BY <1>3, <1>5
  <2>4. /\ Len(copies'[o]) = k /\ copies'[o][k] = c
        /\ \A j \in 1 .. Len(copies[o]) : copies'[o][j] = copies[o][j]
    BY <1>7, <2>2, <2>3
  <2>5. \A p \in Offsets : Len(copies[p]) \in Nat BY CopiesFacts
  <2>6. \A j \in 1 .. Len(copies'[o]) : j \in 1 .. Len(copies[o]) \/ j = k BY <1>3, <1>7, <2>4
  <2> QED BY <1>7, <2>2, <2>4, <2>5, <2>6
<1>9. /\ k \in 1 .. k /\ k # 0 /\ 0 <= k BY <1>3, <1>7
<1>10. \A p \in Offsets : seen'.inflight[p] \in {0, k, seen.inflight[p]}
                          /\ (p # o => seen'.inflight[p] = seen.inflight[p])
  BY <1>1
<1>11. MemoryTypes'
  <2>1. \A p \in Offsets : seen'.inflight[p] <= Len(copies'[p])
    <3>1. \A p \in Offsets : seen.inflight[p] <= Len(copies[p]) BY DEF Types, MemoryTypes
    <3>2. \A p \in Offsets : seen.inflight[p] \in Nat BY SeenFacts
    <3>3. seen'.inflight[o] <= Len(copies'[o]) BY <1>1, <1>3, <1>8, <1>9
    <3>4. ASSUME NEW p \in Offsets, p # o PROVE seen'.inflight[p] <= Len(copies'[p])
      BY <1>8, <3>1, <3>4
    <3> QED BY <3>3, <3>4
  <2> QED BY <1>8, <2>1 DEF Types, MemoryTypes, C
<1>12. CopiesGrow
  <2>1. \A p \in Offsets : Len(copies[p]) <= Len(copies'[p]) BY <1>8
  <2> QED BY <1>8, <2>1 DEF CopiesGrow
<1>13. /\ WireTypes' /\ QueueTypes' /\ Sides' /\ Ordered' /\ o \in Pipeline(l)
       /\ down'[l] = Tail(down[l]) /\ reader'[l] = f
       /\ Frames(l)' = Frames(l) \cup {f}
       /\ \A m \in Links : Pipeline(m)' = Pipeline(m)
       /\ \A m \in Links : m # l => /\ down'[m] = down[m] /\ reader'[m] = reader[m]
                                    /\ Frames(m)' = Frames(m)
  <2>1. UNCHANGED <<kinds, at, acked, sent, cur, acks, side, back, ackq, lost, blind>> OBVIOUS
  <2>2. f.off = Head(down[l]) BY <1>4
  <2>3. IInv /\ side[l] # "free" /\ down[l] # <<>> /\ reader[l] = NoFrame OBVIOUS
  <2>4. /\ down' = [down EXCEPT ![l] = Tail(@)] /\ reader' = [reader EXCEPT ![l] = f]
        /\ f \in FrameRecords
    BY <1>1, <1>4
  <2> HIDE DEF IInv
  <2>5. /\ WireTypes' /\ QueueTypes' /\ Sides' /\ Ordered' /\ f.off \in Pipeline(l)
        /\ down'[l] = Tail(down[l]) /\ reader'[l] = f
        /\ Frames(l)' = Frames(l) \cup {f}
        /\ \A m \in Links : Pipeline(m)' = Pipeline(m)
        /\ \A m \in Links : m # l => /\ down'[m] = down[m] /\ reader'[m] = reader[m]
                                     /\ Frames(m)' = Frames(m)
    BY ONLY <2>1, <2>2, <2>3, <2>4, TakeFrame
  <2> QED BY <1>4, <2>5
<1>14. Types'
  <2>1. LogTypes' /\ TicketTypes' /\ TrackerTypes' /\ DialerTypes'
    BY DEF Types, LogTypes, TicketTypes, TrackerTypes, DialerTypes, LogHead, Oldest
  <2> QED BY <1>11, <1>13, <2>1 DEF Types
<1>15. LogHead' = LogHead /\ Skipped' = Skipped /\ LogGrows /\ \A p : Known(p) => Known(p)'
  BY LogStays
<1>16. \A p \in Offsets : \A st : /\ SettledCopy(p) => SettledCopy(p)'
                                  /\ HandledOK(p) => HandledOK(p)'
                                  /\ Truth(p, st) => Truth(p, st)'
  BY <1>12, <1>14, <1>15, TruthGrows
<1>17. Readers'
  <2>1. \A m \in Links : \A g \in Frames(m) :
            g.st = "shared" => g.copy \in 1 .. Len(copies'[g.off])
    <3>1. \A p \in Offsets : /\ Len(copies[p]) \in Nat
                             /\ 1 .. Len(copies[p]) \subseteq 1 .. Len(copies'[p])
      BY <1>8
    <3> QED BY <3>1, WireFacts DEF Readers
  <2>2. f.copy \in 1 .. Len(copies'[f.off]) BY <1>3, <1>4, <1>7, <1>8
  <2>3. \A m \in Links : \A g \in Frames(m)' :
            g.st = "shared" => g.copy \in 1 .. Len(copies'[g.off])
    <3>1. \A g \in Frames(l)' : g \in Frames(l) \/ g = f BY ONLY <1>13
    <3>2. \A m \in Links : m # l => Frames(m)' = Frames(m) BY ONLY <1>13
    <3> QED BY ONLY <2>1, <2>2, <3>1, <3>2, l \in Links
  <2>4. ASSUME NEW m \in Links, m # l, reader[m].new
        PROVE  /\ reader[m].off \in Offsets /\ reader[m].copy \in 1 .. Len(copies[reader[m].off])
               /\ reader[m].st = "shared"
               /\ copies'[reader[m].off][reader[m].copy].st = "begun"
               /\ ~(reader[m].off = o /\ reader[m].copy = k)
    <3>1. reader[m] # NoFrame BY <2>4 DEF NoFrame
    <3>2. reader[m] \in Frames(m) BY <3>1 DEF Frames, Reading
    <3>3. reader[m].st = "shared" /\ copies[reader[m].off][reader[m].copy].st = "begun"
      BY <2>4 DEF Readers
    <3>4. reader[m].off \in Offsets /\ reader[m].copy \in 1 .. Len(copies[reader[m].off])
      BY <3>2, <3>3, WireFacts DEF Readers
    <3> QED BY <1>3, <1>7, <1>8, <3>3, <3>4
  <2>5. \A m \in Links : reader'[m].new =>
            reader'[m].st = "shared" /\ copies'[reader'[m].off][reader'[m].copy].st = "begun"
    <3>1. f.new => f.st = "shared" /\ copies'[f.off][f.copy].st = "begun"
      <4>1. copies'[f.off][f.copy] = c /\ f.st = "shared" BY ONLY <1>4, <1>8
      <4>2. f.new => c.st = "begun" BY ONLY <1>4, <1>5
      <4> QED BY ONLY <4>1, <4>2
    <3>2. reader'[l].new => reader'[l].st = "shared"
                            /\ copies'[reader'[l].off][reader'[l].copy].st = "begun"
      BY <1>13, <3>1
    <3>3. ASSUME NEW m \in Links, m # l, reader'[m].new
          PROVE  reader'[m].st = "shared"
                 /\ copies'[reader'[m].off][reader'[m].copy].st = "begun"
      <4>1. reader'[m] = reader[m] BY <1>13, <3>3
      <4> QED BY <2>4, <3>3, <4>1
    <3> QED BY ONLY <3>2, <3>3
  <2>6. \A m, n \in Links :
            /\ reader'[m].new /\ reader'[n].new
            /\ reader'[m].off = reader'[n].off /\ reader'[m].copy = reader'[n].copy
            => m = n
    BY <1>4, <1>13, <2>4 DEF Readers
  <2> QED BY <2>3, <2>5, <2>6 DEF Readers
<1>18. Lives'
  <2>1. ASSUME NEW p \in Offsets, NEW j \in 1 .. Len(copies'[p])
        PROVE  /\ copies'[p][j].life <= life
               /\ copies'[p][j].life = life => p <= o
    <3>1. CASE p = o /\ j = k
      <4>1. copies'[p][j].life = life BY <1>5, <1>8, <3>1
      <4>2. life \in Nat BY BoundsAssumption DEF Types, MemoryTypes
      <4>3. o \in Nat BY OffsetFacts
      <4> QED BY <3>1, <4>1, <4>2, <4>3
    <3>2. CASE ~(p = o /\ j = k)
      <4>1. j \in 1 .. Len(copies[p]) /\ copies'[p][j] = copies[p][j] BY <1>8, <3>2
      <4>2. /\ copies[p][j].life <= life
            /\ copies[p][j].life = life => seen.present /\ p <= seen.last
        BY <4>1 DEF Lives
      <4>3. p \in Nat /\ o \in Nat /\ seen.last \in Nat BY SeenFacts, OffsetFacts
      <4>4. seen.present /\ p <= seen.last => p <= o BY <1>6, <4>3
      <4> QED BY <4>1, <4>2, <4>4
    <3> QED BY <3>1, <3>2
  <2> QED BY <2>1 DEF Lives
<1>19. PublishedOnce'
  <2>1. \A j \in 1 .. Len(copies[o]) : copies[o][j].life # life BY <1>6 DEF Lives
  <2>2. ASSUME NEW p \in Offsets, NEW i \in 1 .. Len(copies'[p]), NEW j \in 1 .. Len(copies'[p]),
               copies'[p][i].life = copies'[p][j].life
        PROVE  i = j
    <3>1. CASE p # o
      <4>1. copies'[p] = copies[p] BY <1>8, <3>1
      <4>2. copies[p][i].life = copies[p][j].life /\ i \in 1 .. Len(copies[p])
            /\ j \in 1 .. Len(copies[p])
        BY <2>2, <4>1
      <4> QED BY <4>2 DEF PublishedOnce
    <3>2. CASE p = o
      <4>1. \A x \in 1 .. Len(copies'[o]) : x = k \/ x \in 1 .. Len(copies[o]) BY <1>3, <1>7, <1>8
      <4>2. copies'[o][k].life = life BY <1>5, <1>8
      <4> QED BY <1>8, <2>1, <2>2, <3>2, <4>1, <4>2 DEF PublishedOnce
    <3> QED BY <3>1, <3>2
  <2> QED BY <2>2 DEF PublishedOnce
<1>20. NoHoles'
  <2>1. \A p \in Nat : Covered(p) => Covered(p)'
    <3>1. seen.present => \A p \in Nat : p <= seen.last => p <= o
      BY <1>6, SeenFacts, OffsetFacts
    <3> QED BY <1>15, <3>1 DEF Covered
  <2>2. Covered(o)' BY OffsetFacts DEF Covered
  <2> QED BY <1>13, <2>1, <2>2, TakenCovered
<1>21. Remembered'
  <2>1. ASSUME NEW p \in 1 .. o, p # o
        PROVE  \/ Known(p)'
               \/ seen'.inflight[p] # 0
               \/ SettledCopy(p)' /\ (p \in seen'.errs \/ p <= seen'.floor \/ HandledOK(p)')
    <3>1. p \in Offsets /\ p \in 1 .. o - 1 BY <2>1, OffsetFacts DEF Offsets
    <3>2. down[l] \in Seq(Offsets) /\ down[l][1] = o /\ 1 \in 1 .. Len(down[l])
      BY WireFacts
    <3>3. Covered(p)
      <4>1. Covered(p) \/ \E j \in 1 .. 1 - 1 : down[l][j] = p
        BY <3>1, <3>2 DEF NoHoles
      <4> QED BY <4>1
    <3>4. CASE Known(p) BY <1>15, <3>4
    <3>5. CASE ~Known(p)
      <4>1. seen.present /\ p \in 1 .. seen.last
        BY <3>1, <3>3, <3>5, SeenFacts, OffsetFacts DEF Covered
      <4>2. \/ seen.inflight[p] # 0
            \/ SettledCopy(p) /\ (p \in seen.errs \/ p <= seen.floor \/ HandledOK(p))
        BY <3>5, <4>1 DEF Remembered
      <4>3. seen'.inflight[p] = seen.inflight[p] BY <1>10, <2>1, <3>1
      <4>4. SettledCopy(p) => SettledCopy(p)' BY <1>16, <3>1
      <4>5. HandledOK(p) => HandledOK(p)' BY <1>16, <3>1
      <4>6. p \in seen.errs => p \in seen'.errs \/ p <= seen'.floor OBVIOUS
      <4>7. p <= seen.floor => p <= seen'.floor
        <5>1. p \in Nat BY <3>1, OffsetFacts
        <5> QED BY ONLY <1>2, <5>1
      <4> QED BY <4>2, <4>3, <4>4, <4>5, <4>6, <4>7
    <3> QED BY <3>4, <3>5
  <2>2. \/ seen'.inflight[o] # 0
        \/ SettledCopy(o)' /\ (o \in seen'.errs \/ o <= seen'.floor)
    <3>1. CASE seen'.inflight[o] = k BY <1>9, <3>1
    <3>2. CASE s = "rejected" /\ (o \in seen'.errs \/ o <= seen'.floor)
      <4>1. k \in 1 .. Len(copies'[o]) /\ copies'[o][k].st = "rejected" BY <1>5, <1>8, <1>9, <3>2
      <4>2. SettledCopy(o)' BY <4>1 DEF SettledCopy
      <4> QED BY <3>2, <4>2
    <3> QED BY <3>1, <3>2 DEF k
  <2> QED BY <2>1, <2>2 DEF Remembered
<1>22. Answers'
  <2>1. cur # NoLink => cur \in Links BY DEF Types, DialerTypes
  <2>2. cur # NoLink => /\ \A g \in Frames(cur) : g.off \in Offsets
                        /\ \A g \in Elems(back[cur]) : g.off \in Offsets
    BY <2>1, WireFacts
  <2> QED BY <1>4, <1>13, <1>16, <2>1, <2>2 DEF Answers
<1>23. cur # NoLink => Pipeline(cur)' = Pipeline(cur)
  <2>1. cur # NoLink => cur \in Links BY DEF Types, DialerTypes
  <2> QED BY <1>13, <2>1
<1> QED
  BY <1>11, <1>12, <1>13, <1>17, <1>18, <1>19, <1>20, <1>21, <1>22, <1>23, AcceptorInv

LEMMA BeginNew ==
    ASSUME IInv, NEW l \in Links, Begin(l), ~IsCopy(Head(down[l]))
    PROVE  IInv'
<1> USE DEF IInv
<1> DEFINE o == Head(down[l])
           k == Len(copies[o]) + 1
           D == [present : BOOLEAN, last : 0 .. MaxLog, floor : 0 .. MaxLog,
                 inflight : [Offsets -> Nat], errs : SUBSET Offsets]
           e == [seen EXCEPT !.present = TRUE, !.last = o, !.inflight[o] = k]
<1>1. /\ UNCHANGED <<kinds, stage, unlogged, ticket, at, acked, sent, waits, cur, acks, gone,
                     breaks, lost, slipped, blind, dropped, side, back, ackq, capable, life>>
      /\ side[l] # "free" /\ down[l] # <<>> /\ reader[l] = NoFrame
      /\ down' = [down EXCEPT ![l] = Tail(@)]
  BY DEF Begin, publisherVars, trackerVars, dialerVars, historyVars
<1>2. \/ /\ reader' = [reader EXCEPT ![l] =
                           [off |-> o, copy |-> k, st |-> "shared", new |-> TRUE]]
         /\ seen' = e
         /\ copies' = [copies EXCEPT ![o] = Append(@, [st |-> "begun", life |-> life])]
      \/ /\ reader' = [reader EXCEPT ![l] =
                           [off |-> o, copy |-> k, st |-> "shared", new |-> FALSE]]
         /\ seen' = WithErr(e, o)
         /\ copies' = [copies EXCEPT ![o] = Append(@, [st |-> "rejected", life |-> life])]
  BY DEF Begin
<1>3. o \in Offsets BY <1>1, WireFacts, ElemsTail
<1>4. k \in Nat BY <1>3, CopiesFacts
<1>5. Head(down[l]) = o /\ ~IsCopy(o) OBVIOUS
<1>6. /\ e \in D /\ e.present = TRUE /\ e.last = o /\ e.floor = seen.floor /\ e.errs = seen.errs
      /\ e.inflight = [seen.inflight EXCEPT ![o] = k]
  <2>1. seen \in D BY DEF Types, MemoryTypes
  <2>2. o \in 0 .. MaxLog BY <1>3, BoundsAssumption DEF Offsets
  <2>3. [seen.inflight EXCEPT ![o] = k] \in [Offsets -> Nat] BY <1>3, <1>4, SeenFacts
  <2> HIDE DEF o, k
  <2> QED BY <2>1, <2>2, <2>3
<1>7. k = Len(copies[o]) + 1 OBVIOUS
<1> HIDE DEF o, k, e
<1>8. e.inflight[o] = k /\ \A p \in Offsets : p # o => e.inflight[p] = seen.inflight[p]
  BY <1>3, <1>6, SeenFacts
<1>9. CASE /\ reader' = [reader EXCEPT ![l] =
                             [off |-> o, copy |-> k, st |-> "shared", new |-> TRUE]]
           /\ seen' = e
           /\ copies' = [copies EXCEPT ![o] = Append(@, [st |-> "begun", life |-> life])]
  <2>1. seen.floor <= seen'.floor BY <1>6, <1>9, SeenFacts, BoundsAssumption
  <2>2. [off |-> o, copy |-> k, st |-> "shared", new |-> "begun" = "begun"]
            = [off |-> o, copy |-> k, st |-> "shared", new |-> TRUE]
    OBVIOUS
  <2>3. "begun" \in {"begun", "rejected"} OBVIOUS
  <2> QED BY <1>1, <1>3, <1>5, <1>6, <1>7, <1>8, <1>9, <2>1, <2>2, <2>3, FrameEntered
<1>10. CASE /\ reader' = [reader EXCEPT ![l] =
                              [off |-> o, copy |-> k, st |-> "shared", new |-> FALSE]]
            /\ seen' = WithErr(e, o)
            /\ copies' = [copies EXCEPT ![o] = Append(@, [st |-> "rejected", life |-> life])]
  <2>1. /\ seen' \in D /\ seen'.present = e.present /\ seen'.last = e.last
        /\ seen'.inflight[o] = 0 /\ \A p \in Offsets : p # o => seen'.inflight[p] = e.inflight[p]
        /\ e.floor <= seen'.floor
        /\ \A p \in e.errs \cup {o} : p \in seen'.errs \/ p <= seen'.floor
    BY <1>3, <1>6, <1>10, WithErrFacts
  <2>2. [off |-> o, copy |-> k, st |-> "shared", new |-> "rejected" = "begun"]
            = [off |-> o, copy |-> k, st |-> "shared", new |-> FALSE]
    OBVIOUS
  <2>3. "rejected" \in {"begun", "rejected"} OBVIOUS
  <2>4. seen'.present = TRUE /\ seen'.last = o /\ seen.floor <= seen'.floor BY <1>6, <2>1
  <2>5. \A p \in Offsets : p # o => seen'.inflight[p] = seen.inflight[p] BY <1>8, <2>1
  <2>6. \A p \in seen.errs : p \in seen'.errs \/ p <= seen'.floor BY <1>6, <2>1
  <2>7. seen'.inflight[o] = 0 /\ (o \in seen'.errs \/ o <= seen'.floor) BY <2>1
  <2>8. reader' = [reader EXCEPT ![l] = [off |-> o, copy |-> Len(copies[o]) + 1,
                                         st |-> "shared", new |-> "rejected" = "begun"]]
    BY <1>7, <1>10, <2>2
  <2>9. /\ seen' \in D
        /\ copies' = [copies EXCEPT ![o] = Append(@, [st |-> "rejected", life |-> life])]
    BY <1>10, <2>1
  <2> QED
    BY <1>1, <1>3, <1>5, <2>3, <2>4, <2>5, <2>6, <2>7, <2>8, <2>9, FrameEntered
<1> QED BY <1>2, <1>9, <1>10

LEMMA BeginInv == ASSUME IInv, NEW l \in Links, Begin(l) PROVE IInv'
BY BeginCopy, BeginNew

\* One copy, which was not settled, changes its state.
LEMMA CopyStep ==
    ASSUME IInv, NEW o \in Offsets, NEW k \in 1 .. Len(copies[o]), NEW s \in CopyStates,
           copies[o][k].st \notin {"ok", "rejected"},
           copies' = [copies EXCEPT ![o][k].st = s]
    PROVE  /\ copies' \in [Offsets -> Seq([st : CopyStates, life : 1 .. MaxLife])]
           /\ \A p \in Offsets : Len(copies'[p]) = Len(copies[p])
           /\ \A p \in Offsets : \A j \in 1 .. Len(copies[p]) :
                  /\ copies'[p][j].life = copies[p][j].life
                  /\ copies'[p][j] = copies[p][j] \/ (p = o /\ j = k)
           /\ copies'[o][k].st = s
           /\ CopiesGrow /\ PublishedOnce'
<1> USE DEF IInv
<1> DEFINE C == [st : CopyStates, life : 1 .. MaxLife]
           c == [copies[o][k] EXCEPT !.st = s]
           q == [copies[o] EXCEPT ![k] = c]
<1>1. copies \in [Offsets -> Seq(C)] BY DEF Types, MemoryTypes
<1>2. copies[o] \in Seq(C) BY <1>1
<1>3. Len(copies[o]) \in Nat /\ copies[o][k] \in C
  <2>1. Len(copies[o]) \in Nat BY CopiesFacts
  <2> HIDE DEF C
  <2> QED BY <1>2, <2>1
<1>4. c \in C /\ c.st = s /\ c.life = copies[o][k].life BY <1>3
<1>5. copies' = [copies EXCEPT ![o] = q] OBVIOUS
<1> HIDE DEF C, c
<1>6. /\ q \in Seq(C) /\ Len(q) = Len(copies[o]) /\ q[k] = c
      /\ \A j \in 1 .. Len(copies[o]) : j # k => q[j] = copies[o][j]
  BY <1>2, <1>4
<1> HIDE DEF q
<1>7. /\ copies' \in [Offsets -> Seq(C)] /\ copies'[o] = q
      /\ \A p \in Offsets : p # o => copies'[p] = copies[p]
  BY <1>1, <1>5, <1>6
<1>8. \A p \in Offsets : Len(copies'[p]) = Len(copies[p]) BY <1>6, <1>7
<1>9. \A p \in Offsets : \A j \in 1 .. Len(copies[p]) :
          /\ copies'[p][j].life = copies[p][j].life
          /\ copies'[p][j] = copies[p][j] \/ (p = o /\ j = k)
  BY <1>4, <1>6, <1>7
<1>10. copies'[o][k].st = s BY <1>4, <1>6, <1>7
<1>11. CopiesGrow
  <2>1. \A p \in Offsets : Len(copies[p]) <= Len(copies'[p]) BY <1>8, CopiesFacts
  <2> QED BY <1>9, <2>1 DEF CopiesGrow
<1>12. PublishedOnce' BY <1>8, <1>9 DEF PublishedOnce
<1> QED BY <1>7, <1>8, <1>9, <1>10, <1>11, <1>12 DEF C

\* The memory of the stream settles frame o.
LEMMA SettleSeen ==
    ASSUME IInv, NEW o \in Offsets,
           seen' = IF seen.present THEN [seen EXCEPT !.inflight[o] = 0] ELSE seen
    PROVE  /\ seen' \in [present : BOOLEAN, last : 0 .. MaxLog, floor : 0 .. MaxLog,
                         inflight : [Offsets -> Nat], errs : SUBSET Offsets]
           /\ seen'.present = seen.present /\ seen'.last = seen.last
           /\ seen'.floor = seen.floor /\ seen'.errs = seen.errs
           /\ \A p \in Offsets : seen'.inflight[p] \in {0, seen.inflight[p]}
           /\ \A p \in Offsets : p # o => seen'.inflight[p] = seen.inflight[p]
<1> USE DEF IInv
<1> DEFINE D == [present : BOOLEAN, last : 0 .. MaxLog, floor : 0 .. MaxLog,
                 inflight : [Offsets -> Nat], errs : SUBSET Offsets]
           g == [seen.inflight EXCEPT ![o] = 0]
<1>1. seen \in D BY DEF Types, MemoryTypes
<1>2. /\ g \in [Offsets -> Nat] /\ g[o] = 0
      /\ \A p \in Offsets : p # o => g[p] = seen.inflight[p]
  BY SeenFacts
<1>3. CASE ~seen.present BY <1>1, <1>3
<1>4. CASE seen.present
  <2>1. seen' = [seen EXCEPT !.inflight = g] BY <1>4
  <2> HIDE DEF g
  <2> QED BY <1>1, <1>2, <2>1
<1> QED BY <1>3, <1>4

\* The memory of the stream keeps a failed result, or raises its floor.
LEMMA WithErrSeen ==
    ASSUME IInv, NEW o \in Offsets,
           seen' = IF seen.present THEN WithErr(seen, o) ELSE seen
    PROVE  /\ seen' \in [present : BOOLEAN, last : 0 .. MaxLog, floor : 0 .. MaxLog,
                         inflight : [Offsets -> Nat], errs : SUBSET Offsets]
           /\ seen'.present = seen.present /\ seen'.last = seen.last
           /\ \A p \in Offsets : seen'.inflight[p] \in {0, seen.inflight[p]}
           /\ \A p \in Offsets : p # o => seen'.inflight[p] = seen.inflight[p]
           /\ seen.floor <= seen'.floor
           /\ seen.present => \A p \in seen.errs \cup {o} : p \in seen'.errs \/ p <= seen'.floor
<1> DEFINE D == [present : BOOLEAN, last : 0 .. MaxLog, floor : 0 .. MaxLog,
                 inflight : [Offsets -> Nat], errs : SUBSET Offsets]
           w == WithErr(seen, o)
<1>1. seen \in D BY DEF IInv, Types, MemoryTypes
<1>2. /\ w \in D /\ w.present = seen.present /\ w.last = seen.last
      /\ w.inflight[o] = 0 /\ \A p \in Offsets : p # o => w.inflight[p] = seen.inflight[p]
      /\ seen.floor <= w.floor
      /\ \A p \in seen.errs \cup {o} : p \in w.errs \/ p <= w.floor
  BY <1>1, WithErrFacts
<1>3. seen.floor <= seen.floor BY SeenFacts, BoundsAssumption DEF IInv
<1> HIDE DEF w, D
<1>4. CASE ~seen.present /\ seen' = seen BY <1>1, <1>3, <1>4 DEF D
<1>5. CASE seen.present /\ seen' = w BY <1>2, <1>5 DEF D
<1> QED BY <1>4, <1>5 DEF w

\* A frame in hand is settled, in its copies and in the memory.
LEMMA RememberedSettled ==
    ASSUME IInv, NEW o \in Offsets, \A p : Known(p) => Known(p)',
           seen'.present = seen.present, seen'.last = seen.last, seen.floor <= seen'.floor,
           seen'.floor \in Nat,
           \A p \in Offsets : p # o => seen'.inflight[p] = seen.inflight[p],
           seen.present => \A p \in seen.errs : p \in seen'.errs \/ p <= seen'.floor,
           \A p \in Offsets : /\ SettledCopy(p) => SettledCopy(p)'
                              /\ HandledOK(p) => HandledOK(p)',
           SettledCopy(o)',
           seen.present => o \in seen'.errs \/ o <= seen'.floor \/ HandledOK(o)'
    PROVE  Remembered'
<1> USE DEF IInv
<1> SUFFICES ASSUME seen.present, NEW p \in 1 .. seen.last
             PROVE  \/ Known(p)'
                    \/ seen'.inflight[p] # 0
                    \/ SettledCopy(p)' /\ (p \in seen'.errs \/ p <= seen'.floor \/ HandledOK(p)')
  BY DEF Remembered
<1>1. p \in Offsets /\ p \in Nat /\ seen.floor \in Nat
  BY SeenFacts, OffsetFacts, BoundsAssumption DEF Offsets
<1>2. CASE p = o BY <1>2
<1>3. CASE p # o
  <2>1. \/ Known(p)
        \/ seen.inflight[p] # 0
        \/ SettledCopy(p) /\ (p \in seen.errs \/ p <= seen.floor \/ HandledOK(p))
    BY DEF Remembered
  <2> QED BY <1>1, <1>3, <2>1
<1> QED BY <1>2, <1>3

\* The frame in the reader's hands joins the queue of its link.
LEMMA QueueFrame ==
    ASSUME IInv, NEW l \in Links, reader[l] # NoFrame,
           ackq' = [ackq EXCEPT ![l] = Append(@, reader[l])],
           reader' = [reader EXCEPT ![l] = NoFrame],
           UNCHANGED <<kinds, at, acked, sent, cur, acks, side, down, back, lost, blind>>
    PROVE  /\ reader[l] \in FrameRecords /\ reader[l] \in Frames(l)
           /\ WireTypes' /\ QueueTypes' /\ Sides' /\ Ordered'
           /\ reader'[l] = NoFrame
           /\ \A m \in Links : Frames(m)' = Frames(m) /\ Pipeline(m)' = Pipeline(m)
           /\ \A m \in Links : m # l => reader'[m] = reader[m]
<1> USE DEF IInv
<1> DEFINE f == reader[l]
           a == Append(ackq[l], f)
<1>1. ackq[l] \in Seq(FrameRecords) /\ f \in FrameRecords BY WireFacts
<1>2. side[l] # "free" BY DEF Sides
<1>3. /\ a \in Seq(FrameRecords) /\ Elems(a) = Elems(ackq[l]) \cup {f}
      /\ IncreasingOff(ackq[l]) /\ (\A x \in Elems(ackq[l]) : x.off < f.off) => IncreasingOff(a)
  BY <1>1, ElemsAppend
<1> HIDE DEF a
<1>4. /\ QueueTypes'
      /\ ackq'[l] = a /\ reader'[l] = NoFrame
      /\ \A m \in Links : m # l => ackq'[m] = ackq[m] /\ reader'[m] = reader[m]
  <2>1. ackq' = [ackq EXCEPT ![l] = a] BY DEF a
  <2> QED BY <1>3, <2>1 DEF Types, QueueTypes
<1>5. WireTypes' BY DEF Types, WireTypes
<1>6. Reading(l) = {f} /\ Reading(l)' = {} BY <1>4 DEF Reading
<1>7. Frames(l) = Elems(ackq[l]) \cup {f} /\ Frames(l)' = Frames(l) BY <1>3, <1>4, <1>6 DEF Frames
<1>8. \A m \in Links : m # l => Frames(m)' = Frames(m) /\ Reading(m)' = Reading(m)
  BY <1>4 DEF Frames, Reading
<1>9. \A m \in Links : Frames(m)' = Frames(m) /\ Pipeline(m)' = Pipeline(m)
  BY <1>7, <1>8 DEF Pipeline
<1>10. Sides'
  <2>1. cur # NoLink => cur \in Links BY DEF Types, DialerTypes
  <2> QED BY <1>2, <1>4, <1>9, <2>1 DEF Sides
<1>11. LogHead' = LogHead /\ Skipped' = Skipped BY DEF LogHead, Skipped
<1>12. Ordered'
  <2>1. CASE cur = NoLink BY <2>1 DEF Ordered
  <2>2. CASE cur # NoLink /\ cur # l
    <3>1. cur \in Links BY <2>2 DEF Types, DialerTypes
    <3>2. /\ ackq'[cur] = ackq[cur] /\ Frames(cur)' = Frames(cur) /\ Reading(cur)' = Reading(cur)
          /\ Pipeline(cur)' = Pipeline(cur)
      BY <1>4, <1>8, <1>9, <2>2, <3>1
    <3> QED BY <1>11, <2>2, <3>2 DEF Ordered
  <2>3. CASE cur = l
    <3>1. Ordered /\ l # NoLink BY LinksAssumption
    <3>2. f.off \in Offs(Reading(l)) BY <1>6 DEF Offs
    <3>3. \A x \in Elems(ackq[l]) : x.off \in Offs(Elems(ackq[l])) BY DEF Offs
    <3>4. \A x \in Elems(ackq[l]) : x.off < f.off BY <2>3, <3>1, <3>2, <3>3 DEF Ordered
    <3>5. IncreasingOff(a) BY <1>3, <2>3, <3>1, <3>4 DEF Ordered
    <3>6. Offs(Reading(l)') = {} BY <1>6 DEF Offs
    <3>7. Offs(Elems(a)) = Offs(Elems(ackq[l])) \cup {f.off} BY <1>3 DEF Offs
    <3>8. \A q \in Offs(Elems(a)) : \A x \in Elems(down[l]) : q < x
      BY <2>3, <3>1, <3>2, <3>7 DEF Ordered
    <3> QED BY <1>4, <1>9, <1>11, <2>3, <3>1, <3>5, <3>6, <3>8 DEF Ordered
  <2> QED BY <2>1, <2>2, <2>3
<1>13. f \in Frames(l) BY <1>7
<1> QED BY <1>1, <1>4, <1>5, <1>9, <1>10, <1>12, <1>13

\* The answers on the dialer's link stay true while copies are added and settled.
LEMMA AnswersGrow ==
    ASSUME IInv, Types', CopiesGrow, LogGrows, UNCHANGED <<cur, back>>,
           \A m \in Links : \A f \in Frames(m)' : f \in Frames(m)
    PROVE  Answers'
<1> USE DEF IInv
<1>1. cur # NoLink => cur \in Links BY DEF Types, DialerTypes
<1>2. cur # NoLink => /\ \A g \in Frames(cur) : g.off \in Offsets
                      /\ \A g \in Elems(back[cur]) : g.off \in Offsets
  BY <1>1, WireFacts
<1>3. \A p \in Offsets : \A st : Truth(p, st) => Truth(p, st)' BY TruthGrows
<1> QED BY <1>1, <1>2, <1>3 DEF Answers

\* Nothing happens to what is under way to the acceptor, nor to what is covered.
LEMMA NoHolesStay ==
    ASSUME IInv, UNCHANGED <<down, at, cur>>, \A p \in Nat : Covered(p) => Covered(p)'
    PROVE  NoHoles'
<1> USE DEF IInv
<1>1. \A m \in Links : \A i \in 1 .. Len(down[m]) : \A p \in 1 .. down[m][i] - 1 :
          Covered(p)' \/ \E j \in 1 .. i - 1 : down[m][j] = p
  BY GaplessLinks, GaplessGrows
<1>2. cur # NoLink => \A p \in 1 .. at : Covered(p)' \/ p \in Elems(down[cur])
  BY OffsetFacts DEF NoHoles
<1> QED BY <1>1, <1>2 DEF NoHoles

\* Copy k of o, which is not settled, changes its state to s; the memory follows.
Settles(o, k, s) ==
    /\ UNCHANGED <<kinds, stage, unlogged, ticket, at, acked, sent, waits, cur, acks, gone, breaks,
                   lost, slipped, blind, dropped, side, down, back, capable, life>>
    /\ copies[o][k].st \notin {"ok", "rejected"}
    /\ copies' = [copies EXCEPT ![o][k].st = s]
    /\ \A m \in Links : reader'[m] \in {reader[m], NoFrame}
    /\ \A m \in Links : reader'[m].new => ~(reader[m].off = o /\ reader[m].copy = k)
    /\ seen'.present = seen.present /\ seen'.last = seen.last /\ seen.floor <= seen'.floor
    /\ \A p \in Offsets : seen'.inflight[p] \in {0, seen.inflight[p]}
    /\ \A p \in Offsets : p # o => seen'.inflight[p] = seen.inflight[p]
    /\ seen.present => \A p \in seen.errs : p \in seen'.errs \/ p <= seen'.floor
    /\ \/ seen' = seen
       \/ /\ s \in {"ok", "rejected"}
          /\ seen.present => o \in seen'.errs \/ o <= seen'.floor \/ s = "ok"

LEMMA SettleInv ==
    ASSUME IInv, NEW o \in Offsets, NEW k \in 1 .. Len(copies[o]), NEW s \in CopyStates,
           Settles(o, k, s), QueueTypes', Sides', Ordered',
           \A m \in Links : Frames(m)' = Frames(m) /\ Pipeline(m)' = Pipeline(m),
           seen' \in [present : BOOLEAN, last : 0 .. MaxLog, floor : 0 .. MaxLog,
                      inflight : [Offsets -> Nat], errs : SUBSET Offsets]
    PROVE  IInv'
<1> USE DEF IInv, Settles
<1>1. /\ copies' \in [Offsets -> Seq([st : CopyStates, life : 1 .. MaxLife])]
      /\ \A p \in Offsets : Len(copies'[p]) = Len(copies[p])
      /\ \A p \in Offsets : \A j \in 1 .. Len(copies[p]) :
             /\ copies'[p][j].life = copies[p][j].life
             /\ copies'[p][j] = copies[p][j] \/ (p = o /\ j = k)
      /\ copies'[o][k].st = s
      /\ CopiesGrow /\ PublishedOnce'
  BY CopyStep
<1>2. LogHead' = LogHead /\ Skipped' = Skipped /\ LogGrows /\ \A p : Known(p) => Known(p)'
  BY LogStays
<1>3. MemoryTypes'
  <2>1. \A p \in Offsets : seen'.inflight[p] <= Len(copies'[p])
    <3>1. \A p \in Offsets : seen.inflight[p] <= Len(copies[p]) /\ Len(copies[p]) \in Nat
      BY CopiesFacts DEF Types, MemoryTypes
    <3>2. \A p \in Offsets : seen'.inflight[p] = 0 \/ seen'.inflight[p] = seen.inflight[p]
      OBVIOUS
    <3>3. \A p \in Offsets : Len(copies'[p]) = Len(copies[p]) /\ 0 <= Len(copies[p])
      BY <1>1, <3>1
    <3> QED BY <3>1, <3>2, <3>3
  <2> QED BY <1>1, <2>1 DEF Types, MemoryTypes
<1>4. WireTypes' BY DEF Types, WireTypes
<1>5. Types'
  <2>1. LogTypes' /\ TicketTypes' /\ TrackerTypes' /\ DialerTypes'
    BY DEF Types, LogTypes, TicketTypes, TrackerTypes, DialerTypes, LogHead, Oldest
  <2> QED BY <1>3, <1>4, <2>1 DEF Types
<1>6. \A p \in Offsets : /\ SettledCopy(p) => SettledCopy(p)'
                         /\ HandledOK(p) => HandledOK(p)'
  BY <1>1, <1>2, <1>5, TruthGrows
<1>7. Readers'
  <2>1. \A m \in Links : \A f \in Frames(m) :
            /\ f.off \in Offsets
            /\ f.st = "shared" => f.copy \in 1 .. Len(copies[f.off])
    BY WireFacts DEF Readers
  <2>2. \A m \in Links : \A f \in Frames(m)' :
            f.st = "shared" => f.copy \in 1 .. Len(copies'[f.off])
    BY <1>1, <2>1
  <2>3. ASSUME NEW m \in Links, reader'[m].new
        PROVE  /\ reader'[m] = reader[m] /\ reader[m].st = "shared"
               /\ copies'[reader[m].off][reader[m].copy].st = "begun"
    <3>1. reader'[m] = reader[m] /\ reader[m] # NoFrame
      <4>1. reader'[m] \in {reader[m], NoFrame} OBVIOUS
      <4>2. ~NoFrame.new BY DEF NoFrame
      <4> QED BY ONLY <2>3, <4>1, <4>2
    <3>2. reader[m] \in Frames(m) BY <3>1 DEF Frames, Reading
    <3>3. reader[m].st = "shared" /\ copies[reader[m].off][reader[m].copy].st = "begun"
      BY <2>3, <3>1 DEF Readers
    <3>4. ~(reader[m].off = o /\ reader[m].copy = k) BY <2>3
    <3> QED BY <1>1, <2>1, <3>1, <3>2, <3>3, <3>4
  <2> QED BY <2>2, <2>3 DEF Readers
<1>8. Lives'
  <2>1. life' = life /\ seen'.present = seen.present /\ seen'.last = seen.last /\ Lives OBVIOUS
  <2> QED BY ONLY <1>1, <2>1 DEF Lives
<1>9. Remembered'
  <2>1. CASE seen' = seen BY <1>2, <1>6, <2>1, SeenFacts, OffsetFacts DEF Remembered, Offsets
  <2>2. CASE /\ s \in {"ok", "rejected"}
             /\ seen.present => o \in seen'.errs \/ o <= seen'.floor \/ s = "ok"
    <3>1. SettledCopy(o)' /\ (s = "ok" => HandledOK(o)')
      BY <1>1, <2>2 DEF SettledCopy, HandledOK
    <3>2. seen'.floor \in Nat
      <4>1. seen'.floor \in 0 .. MaxLog OBVIOUS
      <4> QED BY <4>1, BoundsAssumption
    <3> QED BY <1>2, <1>6, <2>2, <3>1, <3>2, RememberedSettled
  <2> QED BY <2>1, <2>2
<1>10. NoHoles'
  <2>1. \A p \in Nat : Covered(p) => Covered(p)' BY <1>2 DEF Covered
  <2> QED BY <2>1, NoHolesStay
<1>11. Answers' BY <1>1, <1>2, <1>5, AnswersGrow
<1>12. cur # NoLink => Pipeline(cur)' = Pipeline(cur)
  <2>1. cur # NoLink => cur \in Links BY DEF Types, DialerTypes
  <2> QED BY <2>1
<1> QED BY <1>1, <1>3, <1>4, <1>7, <1>8, <1>9, <1>10, <1>11, <1>12, AcceptorInv

LEMMA QueueAckInv ==
    ASSUME IInv, NEW l \in Links, QueueAck(l)
    PROVE  IInv'
<1> USE DEF IInv
<1> DEFINE f == reader[l]
<1>1. /\ UNCHANGED <<kinds, stage, unlogged, ticket, at, acked, sent, waits, cur, acks, gone,
                     breaks, lost, slipped, blind, dropped, side, down, back, capable, life>>
      /\ f # NoFrame /\ ackq' = [ackq EXCEPT ![l] = Append(@, f)]
      /\ reader' = [reader EXCEPT ![l] = NoFrame]
      /\ \/ UNCHANGED <<seen, copies>>
         \/ /\ f.new /\ copies' = [copies EXCEPT ![f.off][f.copy].st = "handling"]
            /\ UNCHANGED seen
         \/ /\ f.new /\ copies' = [copies EXCEPT ![f.off][f.copy].st = "rejected"]
            /\ seen' = IF seen.present THEN WithErr(seen, f.off) ELSE seen
  BY DEF QueueAck, publisherVars, trackerVars, dialerVars, wireVars, historyVars
<1>2. /\ f \in FrameRecords /\ f \in Frames(l)
      /\ WireTypes' /\ QueueTypes' /\ Sides' /\ Ordered'
      /\ reader'[l] = NoFrame
      /\ \A m \in Links : Frames(m)' = Frames(m) /\ Pipeline(m)' = Pipeline(m)
      /\ \A m \in Links : m # l => reader'[m] = reader[m]
  BY <1>1, QueueFrame
<1>3. f.off \in Offsets BY <1>2, RealFrame
<1>4. CASE UNCHANGED <<seen, copies>>
  <2>1. MemoryTypes' /\ CopiesGrow /\ Lives' /\ PublishedOnce'
    BY <1>1, <1>4, CopiesKept, LivesKept, PublishedOnceKept DEF Types, MemoryTypes
  <2>2. \A m \in Links : reader'[m].new => reader'[m] = reader[m] BY <1>2 DEF NoFrame
  <2>3. Readers' BY <1>2, <1>4, <2>2 DEF Readers
  <2>4. \A p : (Known(p)' <=> Known(p)) /\ (SettledCopy(p)' <=> SettledCopy(p))
               /\ (HandledOK(p)' <=> HandledOK(p))
    BY <1>1, <1>4 DEF Known, SettledCopy, HandledOK, Skipped, LogHead
  <2>5. Remembered' BY <1>4, <2>4 DEF Remembered
  <2>6. NoHoles'
    <3>1. \A p \in Nat : Covered(p) => Covered(p)' BY <1>4, <2>4 DEF Covered
    <3> QED BY <1>1, <3>1, NoHolesStay
  <2>7. Answers'
    <3>1. \A p, st : Truth(p, st)' <=> Truth(p, st) BY <1>1, <2>4 DEF Truth
    <3>2. cur # NoLink => cur \in Links BY DEF Types, DialerTypes
    <3> QED BY <1>1, <1>2, <3>1, <3>2 DEF Answers
  <2>8. cur # NoLink => Pipeline(cur)' = Pipeline(cur)
    <3>1. cur # NoLink => cur \in Links BY DEF Types, DialerTypes
    <3> QED BY <1>1, <1>2, <3>1
  <2> QED BY <1>1, <1>2, <2>1, <2>3, <2>5, <2>6, <2>7, <2>8, AcceptorInv
<1>5. ASSUME f.new
      PROVE  /\ f.copy \in 1 .. Len(copies[f.off])
             /\ copies[f.off][f.copy].st = "begun"
             /\ copies[f.off][f.copy].st \notin {"ok", "rejected"}
             /\ \A m \in Links : reader'[m].new =>
                    ~(reader[m].off = f.off /\ reader[m].copy = f.copy)
  <2>1. f.st = "shared" /\ copies[f.off][f.copy].st = "begun" BY <1>5 DEF Readers
  <2>2. f.copy \in 1 .. Len(copies[f.off]) BY <1>2, <2>1 DEF Readers
  <2>3. \A m \in Links : reader'[m].new => m # l /\ reader'[m] = reader[m] BY <1>2 DEF NoFrame
  <2> QED BY <1>5, <2>1, <2>2, <2>3 DEF Readers
<1>6. \A m \in Links : reader'[m] \in {reader[m], NoFrame} BY <1>2
<1> HIDE DEF f
<1>7. CASE /\ f.new /\ copies' = [copies EXCEPT ![f.off][f.copy].st = "handling"]
           /\ UNCHANGED seen
  <2>1. "handling" \in CopyStates BY DEF CopyStates
  <2>2. /\ seen' \in [present : BOOLEAN, last : 0 .. MaxLog, floor : 0 .. MaxLog,
                      inflight : [Offsets -> Nat], errs : SUBSET Offsets]
        /\ seen.floor <= seen'.floor
    BY <1>7, SeenFacts, BoundsAssumption DEF Types, MemoryTypes
  <2>3. Settles(f.off, f.copy, "handling") BY <1>1, <1>5, <1>6, <1>7, <2>2 DEF Settles
  <2> QED BY <1>2, <1>3, <1>5, <1>7, <2>1, <2>2, <2>3, SettleInv
<1>8. CASE /\ f.new /\ copies' = [copies EXCEPT ![f.off][f.copy].st = "rejected"]
           /\ seen' = IF seen.present THEN WithErr(seen, f.off) ELSE seen
  <2>1. "rejected" \in CopyStates BY DEF CopyStates
  <2>2. /\ seen' \in [present : BOOLEAN, last : 0 .. MaxLog, floor : 0 .. MaxLog,
                      inflight : [Offsets -> Nat], errs : SUBSET Offsets]
        /\ seen'.present = seen.present /\ seen'.last = seen.last
        /\ \A p \in Offsets : seen'.inflight[p] \in {0, seen.inflight[p]}
        /\ \A p \in Offsets : p # f.off => seen'.inflight[p] = seen.inflight[p]
        /\ seen.floor <= seen'.floor
        /\ seen.present => \A p \in seen.errs \cup {f.off} : p \in seen'.errs \/ p <= seen'.floor
    BY <1>3, <1>8, WithErrSeen
  <2>3. /\ seen.present => \A p \in seen.errs : p \in seen'.errs \/ p <= seen'.floor
        /\ seen.present => f.off \in seen'.errs \/ f.off <= seen'.floor
    BY <2>2
  <2>4. Settles(f.off, f.copy, "rejected")
    BY <1>1, <1>5, <1>6, <1>8, <2>2, <2>3 DEF Settles
  <2> QED BY <1>2, <1>3, <1>5, <1>8, <2>1, <2>2, <2>4, SettleInv
<1> QED BY <1>1, <1>4, <1>7, <1>8

LEMMA HandlersDoneInv ==
    ASSUME IInv, NEW o \in Offsets, NEW k \in 1 .. Len(copies[o]), HandlersDone(o, k)
    PROVE  IInv'
<1> USE DEF IInv
<1>1. /\ UNCHANGED <<kinds, stage, unlogged, ticket, at, acked, sent, waits, cur, acks, gone,
                     breaks, lost, slipped, blind, dropped, side, down, back, capable, life>>
      /\ UNCHANGED <<ackq, reader>>
      /\ copies[o][k].st = "handling" /\ copies' = [copies EXCEPT ![o][k].st = "ok"]
      /\ seen' = IF seen.present THEN [seen EXCEPT !.inflight[o] = 0] ELSE seen
  BY DEF HandlersDone, publisherVars, trackerVars, dialerVars, wireVars, historyVars
<1>2. "ok" \in CopyStates BY DEF CopyStates
<1>3. UNCHANGED onLinks BY <1>1 DEF onLinks
<1>4. /\ seen' \in [present : BOOLEAN, last : 0 .. MaxLog, floor : 0 .. MaxLog,
                    inflight : [Offsets -> Nat], errs : SUBSET Offsets]
      /\ seen'.present = seen.present /\ seen'.last = seen.last
      /\ seen'.floor = seen.floor /\ seen'.errs = seen.errs
      /\ \A p \in Offsets : seen'.inflight[p] \in {0, seen.inflight[p]}
      /\ \A p \in Offsets : p # o => seen'.inflight[p] = seen.inflight[p]
  BY <1>1, SettleSeen
<1>5. QueueTypes' BY <1>1 DEF Types, QueueTypes
<1>6. Sides' BY <1>3, SidesKept
<1>7. Skipped' = Skipped BY <1>1 DEF Skipped, LogHead
<1>8. Ordered' BY <1>1, <1>3, <1>7, OrderedKept, OffsetFacts
<1>9. \A m \in Links : Frames(m)' = Frames(m) /\ Pipeline(m)' = Pipeline(m)
  BY <1>1, PipelineKept
<1>10. \A m \in Links : reader'[m].new => ~(reader[m].off = o /\ reader[m].copy = k)
  BY <1>1 DEF Readers
<1>11. seen.floor <= seen'.floor BY <1>4, SeenFacts, BoundsAssumption
<1>12. copies[o][k].st \notin {"ok", "rejected"} BY <1>1
<1>13. /\ \A m \in Links : reader'[m] \in {reader[m], NoFrame}
       /\ seen.present => \A p \in seen.errs : p \in seen'.errs \/ p <= seen'.floor
  BY <1>1, <1>4
<1>14. Settles(o, k, "ok") BY <1>1, <1>4, <1>10, <1>11, <1>12, <1>13 DEF Settles
<1> QED BY <1>2, <1>4, <1>5, <1>6, <1>8, <1>9, <1>14, SettleInv

\* A settled frame at the head of the queue is answered with the truth.
LEMMA StatusTrue ==
    ASSUME IInv, NEW l \in Links, NEW f \in Frames(l), Settled(f)
    PROVE  /\ [off |-> f.off, st |-> Status(f)]
                  \in [off : Offsets, st : {"ok", "rejected", "unknown"}]
           /\ cur = l => Truth(f.off, Status(f))
<1> USE DEF IInv
<1>1. f.off \in Offsets /\ f \in FrameRecords BY WireFacts
<1>2. Status(f) \in {"ok", "rejected", "unknown"} BY DEF Settled
<1>3. ASSUME cur = l PROVE Truth(f.off, Status(f))
  <2>1. CASE f.st = "shared"
    <3>1. Status(f) = copies[f.off][f.copy].st BY <2>1 DEF Status
    <3>2. f.copy \in 1 .. Len(copies[f.off]) BY <2>1 DEF Readers
    <3>3. copies[f.off][f.copy].st \in CopyStates
      <4> DEFINE C == [st : CopyStates, life : 1 .. MaxLife]
      <4>1. copies[f.off] \in Seq(C) /\ Len(copies[f.off]) \in Nat BY <1>1, CopiesFacts
      <4> HIDE DEF C
      <4>2. copies[f.off][f.copy] \in C BY <3>2, <4>1
      <4> QED BY <4>2 DEF C
    <3>4. Status(f) \in {"ok", "rejected"} BY <1>2, <3>1, <3>3 DEF CopyStates
    <3>5. SettledCopy(f.off) BY <3>1, <3>2, <3>4 DEF SettledCopy
    <3>6. Status(f) = "ok" => HandledOK(f.off) BY <3>1, <3>2 DEF HandledOK
    <3> QED BY <3>5, <3>6 DEF Truth
  <2>2. CASE f.st # "shared"
    <3>1. Status(f) = f.st BY <2>2 DEF Status
    <3>2. cur # NoLink BY <1>3, LinksAssumption
    <3> QED BY <1>3, <2>2, <3>1, <3>2 DEF Answers
  <2> QED BY <2>1, <2>2
<1> QED BY <1>1, <1>2, <1>3

LEMMA FlushAcksInv ==
    ASSUME IInv, NEW l \in Links, FlushAcks(l)
    PROVE  IInv'
<1> USE DEF IInv
<1> DEFINE f == Head(ackq[l])
           t == Tail(ackq[l])
           b == [off |-> f.off, st |-> Status(f)]
           B == [off : Offsets, st : {"ok", "rejected", "unknown"}]
           n == Append(back[l], b)
<1>1. /\ UNCHANGED <<kinds, stage, unlogged, ticket, at, acked, sent, waits, cur, acks, gone,
                     breaks, lost, slipped, blind, dropped, side, down, reader, capable, life,
                     seen, copies>>
      /\ side[l] # "free" /\ ackq[l] # <<>> /\ Settled(f)
      /\ ackq' = [ackq EXCEPT ![l] = t]
      /\ \/ side[l] = "up" /\ back' = [back EXCEPT ![l] = n]
         \/ side[l] # "up" /\ back' = back
  BY DEF FlushAcks, publisherVars, trackerVars, dialerVars, historyVars
<1>2. ackq[l] \in Seq(FrameRecords) /\ back[l] \in Seq(B) BY WireFacts
<1>3. /\ Elems(ackq[l]) = {f} \cup Elems(t) /\ f \in FrameRecords /\ t \in Seq(FrameRecords)
      /\ IncreasingOff(ackq[l]) =>
             IncreasingOff(t) /\ \A x \in Elems(t) : f.off < x.off
  BY <1>1, <1>2, ElemsTail
<1>4. f \in Frames(l) BY <1>3 DEF Frames
<1>5. b \in B /\ (cur = l => Truth(f.off, Status(f))) BY <1>1, <1>4, StatusTrue
<1>6. b.off = f.off /\ b.st = Status(f) OBVIOUS
<1> HIDE DEF B, f, t, b
<1>7. /\ Elems(n) = Elems(back[l]) \cup {b} /\ n \in Seq(B)
      /\ IncreasingOff(back[l]) /\ (\A x \in Elems(back[l]) : x.off < b.off) => IncreasingOff(n)
  BY <1>2, <1>5, ElemsAppend
<1> HIDE DEF n
<1>8. /\ QueueTypes' /\ ackq'[l] = t /\ \A m \in Links : m # l => ackq'[m] = ackq[m]
  BY <1>1, <1>3 DEF Types, QueueTypes
<1>9. /\ WireTypes'
      /\ side[l] = "up" => back'[l] = n
      /\ \A m \in Links : m # l \/ side[l] # "up" => back'[m] = back[m]
  <2>1. back \in [Links -> Seq(B)] BY DEF Types, WireTypes, B
  <2>2. /\ back' \in [Links -> Seq(B)] /\ (side[l] = "up" => back'[l] = n)
        /\ \A m \in Links : m # l \/ side[l] # "up" => back'[m] = back[m]
    BY <1>1, <1>7, <2>1
  <2> QED BY <1>1, <2>2 DEF Types, WireTypes, B
<1>10. \A m \in Links : Reading(m)' = Reading(m) BY <1>1 DEF Reading
<1>11. /\ Frames(l)' = Elems(t) \cup Reading(l) /\ Frames(l) = Frames(l)' \cup {f}
       /\ \A m \in Links : m # l => Frames(m)' = Frames(m)
  BY <1>3, <1>8, <1>10 DEF Frames
<1>12. \A m \in Links : \A g \in Frames(m)' : g \in Frames(m) BY <1>11
<1>13. side[l] = "up" => Pipeline(l)' = Pipeline(l)
  <2>1. Offs(Frames(l)) = Offs(Frames(l)') \cup {f.off} BY <1>11 DEF Offs
  <2>2. Offs(Elems(n)) = Offs(Elems(back[l])) \cup {f.off} BY <1>6, <1>7 DEF Offs
  <2> QED BY <1>1, <1>9, <2>1, <2>2 DEF Pipeline
<1>14. \A m \in Links : m # l => Pipeline(m)' = Pipeline(m) BY <1>1, <1>9, <1>11 DEF Pipeline
<1>15. side[l] = "up" <=> cur = l BY DEF Sides
<1>16. cur # NoLink => cur \in Links BY DEF Types, DialerTypes
<1>17. cur # NoLink => Pipeline(cur)' = Pipeline(cur) BY <1>1, <1>13, <1>14, <1>15, <1>16
<1>18. Sides'
  <2>1. \A m \in Links : side'[m] = "up" <=> cur' = m BY <1>1 DEF Sides
  <2>2. \A m \in Links :
            side'[m] = "free" => down'[m] = <<>> /\ ackq'[m] = <<>> /\ reader'[m] = NoFrame
    BY <1>1, <1>8 DEF Sides
  <2>3. \A m \in Links : cur' # m => back'[m] = <<>> BY <1>1, <1>9, <1>15 DEF Sides
  <2>4. cur' # NoLink /\ ~acks' => Pipeline(cur)' = {} BY <1>1, <1>17 DEF Sides
  <2> QED BY <2>1, <2>2, <2>3, <2>4 DEF Sides
<1>19. Readers' BY <1>1, <1>12 DEF Readers
<1>20. MemoryTypes' /\ CopiesGrow /\ Lives' /\ PublishedOnce'
  BY <1>1, CopiesKept, LivesKept, PublishedOnceKept DEF Types, MemoryTypes
<1>21. LogHead' = LogHead /\ Skipped' = Skipped BY <1>1 DEF LogHead, Skipped
<1>22. Ordered'
  <2>1. CASE cur = NoLink BY <1>1, <2>1 DEF Ordered
  <2>2. CASE cur # NoLink /\ cur # l
    <3>1. /\ ackq'[cur] = ackq[cur] /\ back'[cur] = back[cur]
          /\ Frames(cur)' = Frames(cur) /\ Reading(cur)' = Reading(cur)
      BY <1>1, <1>8, <1>9, <1>10, <1>11, <1>16, <2>2
    <3> QED BY <1>1, <1>17, <1>21, <2>2, <3>1 DEF Ordered
  <2>3. CASE cur = l
    <3>1. Ordered /\ l # NoLink /\ back'[l] = n BY <1>9, <1>15, <2>3, LinksAssumption
    <3>2. IncreasingOff(t) /\ \A x \in Elems(t) : f.off < x.off BY <1>3, <2>3, <3>1 DEF Ordered
    <3>3. Offs(Elems(t)) \subseteq Offs(Elems(ackq[l])) /\ f.off \in Offs(Elems(ackq[l]))
      BY <1>3 DEF Offs
    <3>4. f.off \in Offs(Frames(l)) /\ Offs(Frames(l)') \subseteq Offs(Frames(l))
      BY <1>11 DEF Offs
    <3>5. \A x \in Elems(back[l]) : x.off \in Offs(Elems(back[l])) BY DEF Offs
    <3>6. IncreasingOff(n)
      <4>1. \A x \in Elems(back[l]) : x.off < b.off
        BY <1>6, <2>3, <3>1, <3>4, <3>5 DEF Ordered
      <4> QED BY <1>7, <2>3, <3>1, <4>1 DEF Ordered
    <3>7. \A x \in Elems(down[l]) \cup Offs(Frames(l)') : f.off < x
      <4>1. \A x \in Elems(down[l]) \cup Offs(Reading(l)) : f.off < x
        BY <2>3, <3>1, <3>3 DEF Ordered
      <4>2. \A x \in Offs(Frames(l)') : x \in Offs(Reading(l)) \/ \E y \in Elems(t) : x = y.off
        BY <1>11 DEF Offs
      <4> QED BY <3>2, <4>1, <4>2
    <3>8. \A z \in Offs(Elems(n)) : \A x \in Elems(down[l]) \cup Offs(Frames(l)') : z < x
      <4>1. Offs(Elems(n)) = Offs(Elems(back[l])) \cup {f.off} BY <1>6, <1>7 DEF Offs
      <4> QED BY <2>3, <3>1, <3>4, <3>7, <4>1 DEF Ordered
    <3>9. \A q \in Offs(Elems(t)) : \A x \in Elems(down[l]) \cup Offs(Reading(l)) : q < x
      BY <2>3, <3>1, <3>3 DEF Ordered
    <3>10. Pipeline(l)' = Pipeline(l) BY <1>13, <1>15, <2>3
    <3> QED
      BY <1>1, <1>8, <1>10, <1>21, <2>3, <3>1, <3>2, <3>6, <3>8, <3>9, <3>10 DEF Ordered
  <2> QED BY <2>1, <2>2, <2>3
<1>23. \A p : (Known(p)' <=> Known(p)) /\ (SettledCopy(p)' <=> SettledCopy(p))
              /\ (HandledOK(p)' <=> HandledOK(p))
  BY <1>1 DEF Known, SettledCopy, HandledOK, Skipped, LogHead
<1>24. Remembered' BY <1>1, <1>23 DEF Remembered
<1>25. NoHoles'
  <2>1. \A p \in Nat : Covered(p) => Covered(p)' BY <1>1, <1>23 DEF Covered
  <2> QED BY <1>1, <2>1, NoHolesStay
<1>26. Answers'
  <2>1. \A p, st : Truth(p, st)' <=> Truth(p, st) BY <1>1, <1>23 DEF Truth
  <2>2. cur # NoLink => \A g \in Frames(cur)' : g.st # "shared" => Truth(g.off, g.st)
    BY <1>1, <1>12, <1>16 DEF Answers
  <2>3. cur # NoLink => \A g \in Elems(back'[cur]) : Truth(g.off, g.st)
    BY <1>5, <1>6, <1>7, <1>9, <1>15, <1>16 DEF Answers
  <2> QED BY <1>1, <2>1, <2>2, <2>3 DEF Answers
<1> QED
  BY <1>1, <1>8, <1>9, <1>17, <1>18, <1>19, <1>20, <1>22, <1>24, <1>25, <1>26, AcceptorInv

LEMMA LinkEndInv ==
    ASSUME IInv, NEW l \in Links, LinkEnd(l)
    PROVE  IInv'
<1> USE DEF IInv
<1>1. /\ UNCHANGED <<kinds, stage, unlogged, ticket, at, acked, sent, waits, cur, acks, gone,
                     breaks, lost, slipped, blind, dropped, back, capable, life, seen, copies>>
      /\ side[l] = "half" /\ side' = [side EXCEPT ![l] = "free"]
      /\ down' = [down EXCEPT ![l] = <<>>] /\ ackq' = [ackq EXCEPT ![l] = <<>>]
      /\ reader' = [reader EXCEPT ![l] = NoFrame]
  BY DEF LinkEnd, publisherVars, trackerVars, dialerVars, historyVars
<1>2. cur # l /\ (cur # NoLink => cur \in Links) BY <1>1 DEF Sides, Types, DialerTypes
<1>3. WireTypes'
  <2>1. side' \in [Links -> {"free", "up", "half"}] BY <1>1 DEF Types, WireTypes
  <2>2. down' \in [Links -> Seq(Offsets)] BY <1>1 DEF Types, WireTypes
  <2> QED BY <1>1, <2>1, <2>2 DEF Types, WireTypes
<1>4. QueueTypes'
  <2>1. ackq \in [Links -> Seq(FrameRecords)] BY DEF Types, QueueTypes
  <2>2. ackq' \in [Links -> Seq(FrameRecords)] BY <1>1, <2>1
  <2>3. reader' \in [Links -> FrameRecords \cup {NoFrame}] BY <1>1 DEF Types, QueueTypes
  <2> QED BY <2>2, <2>3 DEF QueueTypes
<1>5. /\ side'[l] = "free" /\ down'[l] = <<>> /\ ackq'[l] = <<>> /\ reader'[l] = NoFrame
      /\ \A m \in Links : m # l => /\ side'[m] = side[m] /\ down'[m] = down[m]
                                   /\ ackq'[m] = ackq[m] /\ reader'[m] = reader[m]
  BY <1>1 DEF Types, WireTypes, QueueTypes
<1>6. \A m \in Links : m # l => /\ Frames(m)' = Frames(m) /\ Reading(m)' = Reading(m)
                                /\ Pipeline(m)' = Pipeline(m)
  BY <1>1, <1>5 DEF Frames, Reading, Pipeline
<1>7. Frames(l)' = {} BY <1>5, ElemsEmpty DEF Frames, Reading
<1>8. cur # NoLink => /\ Pipeline(cur)' = Pipeline(cur) /\ Frames(cur)' = Frames(cur)
                      /\ Reading(cur)' = Reading(cur)
  BY <1>1, <1>2, <1>6
<1>9. Sides' BY <1>1, <1>2, <1>5, <1>8 DEF Sides
<1>10. Readers'
  <2>1. \A m \in Links : reader'[m].new => reader'[m] = reader[m] BY <1>5 DEF NoFrame
  <2>2. \A m \in Links : \A g \in Frames(m)' : g \in Frames(m) BY <1>6, <1>7
  <2> QED BY <1>1, <2>1, <2>2 DEF Readers
<1>11. MemoryTypes' /\ CopiesGrow /\ Lives' /\ PublishedOnce'
  BY <1>1, CopiesKept, LivesKept, PublishedOnceKept DEF Types, MemoryTypes
<1>12. LogHead' = LogHead /\ Skipped' = Skipped BY <1>1 DEF LogHead, Skipped
<1>13. Ordered' BY <1>1, <1>2, <1>5, <1>8, <1>12 DEF Ordered
<1>14. \A p : (Known(p)' <=> Known(p)) /\ (SettledCopy(p)' <=> SettledCopy(p))
              /\ (HandledOK(p)' <=> HandledOK(p))
  BY <1>1 DEF Known, SettledCopy, HandledOK, Skipped, LogHead
<1>15. Remembered' BY <1>1, <1>14 DEF Remembered
<1>16. NoHoles'
  <2>1. \A p : Covered(p)' <=> Covered(p) BY <1>1, <1>14 DEF Covered
  <2>2. \A m \in Links : Gapless(down'[m])
    <3>1. Gapless(<<>>) BY DEF Gapless
    <3> QED BY <1>5, <3>1, GaplessLinks
  <2>3. \A m \in Links : \A i \in 1 .. Len(down'[m]) : \A p \in 1 .. down'[m][i] - 1 :
            Covered(p)' \/ \E j \in 1 .. i - 1 : down'[m][j] = p
    BY <2>1, <2>2, GaplessGrows
  <2>4. cur # NoLink => down'[cur] = down[cur] BY <1>2, <1>5
  <2> QED BY <1>1, <2>1, <2>3, <2>4 DEF NoHoles
<1>17. Answers'
  <2>1. \A p, st : Truth(p, st)' <=> Truth(p, st) BY <1>1, <1>14 DEF Truth
  <2> QED BY <1>1, <1>8, <2>1 DEF Answers
<1> QED
  BY <1>1, <1>3, <1>4, <1>8, <1>9, <1>10, <1>11, <1>13, <1>15, <1>16, <1>17, AcceptorInv

LEMMA ForgottenFacts ==
    /\ Forgotten \in [present : BOOLEAN, last : 0 .. MaxLog, floor : 0 .. MaxLog,
                      inflight : [Offsets -> Nat], errs : SUBSET Offsets]
    /\ Forgotten.present = FALSE /\ \A o \in Offsets : Forgotten.inflight[o] = 0
BY BoundsAssumption DEF Forgotten

LEMMA ForgetStreamInv ==
    ASSUME IInv, ForgetStream
    PROVE  IInv'
<1> USE DEF IInv
<1> DEFINE begun == {o \in Offsets : copies[o] # <<>>}
<1>1. /\ UNCHANGED <<kinds, stage, unlogged, ticket, at, acked, sent, waits, cur, acks, gone,
                     breaks, lost, slipped, blind, capable, copies>>
      /\ UNCHANGED onLinks /\ life < MaxLife /\ life' = life + 1
      /\ seen' = Forgotten /\ dropped' = dropped \cup begun
  BY DEF ForgetStream, onLinks, publisherVars, trackerVars, dialerVars, wireVars
<1>2. CopiesGrow BY <1>1, CopiesKept
<1>3. MemoryTypes'
  <2>1. \A o \in Offsets : seen'.inflight[o] <= Len(copies'[o])
    BY <1>1, ForgottenFacts, CopiesFacts
  <2>2. life' \in 1 .. MaxLife BY <1>1, BoundsAssumption DEF Types, MemoryTypes
  <2>3. seen' \in [present : BOOLEAN, last : 0 .. MaxLog, floor : 0 .. MaxLog,
                   inflight : [Offsets -> Nat], errs : SUBSET Offsets]
    BY <1>1, ForgottenFacts
  <2> QED BY <1>1, <2>1, <2>2, <2>3 DEF Types, MemoryTypes
<1>4. WireTypes' /\ QueueTypes' BY <1>1 DEF onLinks, Types, WireTypes, QueueTypes
<1>5. Types'
  <2>1. LogTypes' /\ TicketTypes' /\ TrackerTypes' /\ DialerTypes'
    BY <1>1 DEF Types, LogTypes, TicketTypes, TrackerTypes, DialerTypes, LogHead, Oldest
  <2> QED BY <1>3, <1>4, <2>1 DEF Types
<1>6. Sides' /\ Readers' /\ PublishedOnce'
  BY <1>1, SidesKept, ReadersKept, PublishedOnceKept DEF onLinks
<1>7. Lives'
  <2>1. \A o \in Offsets : \A k \in 1 .. Len(copies[o]) : copies[o][k].life <= life BY DEF Lives
  <2>2. \A o \in Offsets : \A k \in 1 .. Len(copies[o]) : copies[o][k].life \in Nat
    <3> DEFINE C == [st : CopyStates, life : 1 .. MaxLife]
    <3>1. \A o \in Offsets : copies[o] \in Seq(C) /\ Len(copies[o]) \in Nat BY CopiesFacts
    <3>2. \A c \in C : c.life \in Nat BY BoundsAssumption
    <3> HIDE DEF C
    <3> QED BY <3>1, <3>2
  <2>3. life \in Nat BY BoundsAssumption DEF Types, MemoryTypes
  <2> QED BY <1>1, <2>1, <2>2, <2>3 DEF Lives
<1>8. Skipped' = Skipped BY <1>1 DEF Skipped, LogHead
<1>9. Ordered' BY <1>1, <1>8, OrderedKept, OffsetFacts
<1>10. \A p : Known(p) => Known(p)' BY <1>1, LogStays
<1>11. \A p \in Nat : Covered(p) => Covered(p)'
  <2> SUFFICES ASSUME NEW p \in Nat, seen.present, p <= seen.last PROVE Known(p)'
    BY <1>10 DEF Covered
  <2>1. CASE p = 0 BY <1>1, <2>1, OffsetFacts DEF Known
  <2>2. CASE p # 0
    <3>1. p \in 1 .. seen.last /\ p \in Offsets
      BY <2>2, SeenFacts, OffsetFacts, BoundsAssumption DEF Offsets
    <3>2. Known(p) \/ seen.inflight[p] # 0 \/ SettledCopy(p) BY <3>1 DEF Remembered
    <3>3. seen.inflight[p] # 0 \/ SettledCopy(p) => p \in begun
      <4>1. /\ seen.inflight[p] \in Nat /\ Len(copies[p]) \in Nat
            /\ seen.inflight[p] <= Len(copies[p])
        BY <3>1, SeenFacts, CopiesFacts DEF Types, MemoryTypes
      <4>2. seen.inflight[p] # 0 \/ SettledCopy(p) => Len(copies[p]) # 0
        BY <4>1 DEF SettledCopy
      <4> QED BY <3>1, <4>2
    <3> QED BY <1>1, <1>10, <3>2, <3>3 DEF Known
  <2> QED BY <2>1, <2>2
<1>12. NoHoles' BY <1>1, <1>11, NoHolesStay DEF onLinks
<1>13. Remembered' BY <1>1, ForgottenFacts DEF Remembered
<1>14. Answers'
  <2>1. LogGrows BY <1>1, LogStays
  <2> QED BY <1>1, <1>2, <1>5, <2>1, AnswersKept
<1>15. cur # NoLink => Pipeline(cur)' = Pipeline(cur)
  BY <1>1, PipelineKept DEF onLinks
<1> HIDE DEF begun
<1>16. dropped \subseteq dropped' BY <1>1
<1> QED
  BY <1>1, <1>2, <1>3, <1>4, <1>6, <1>7, <1>9, <1>12, <1>13, <1>14, <1>15, <1>16, AcceptorInv

LEMMA RestartInv ==
    ASSUME IInv, Restart
    PROVE  IInv'
<1> USE DEF IInv
<1> DEFINE C == [st : CopyStates, life : 1 .. MaxLife]
           Dead(c) == IF c.st \in {"begun", "handling"} THEN [c EXCEPT !.st = "dead"] ELSE c
<1>1. /\ UNCHANGED <<kinds, stage, unlogged, ticket, at, acked, sent, waits, cur, acks, gone,
                     breaks, lost, slipped, blind, dropped>>
      /\ UNCHANGED onLinks /\ life < MaxLife /\ life' = life + 1 /\ capable' \in BOOLEAN
      /\ seen' = Forgotten /\ \A l \in Links : side[l] = "free"
      /\ copies' = [o \in Offsets |-> [k \in 1 .. Len(copies[o]) |-> Dead(copies[o][k])]]
  BY DEF Restart, onLinks, publisherVars, trackerVars, dialerVars, wireVars, historyVars
<1>2. \A o \in Offsets : copies[o] \in Seq(C) /\ Len(copies[o]) \in Nat BY CopiesFacts
<1>3. \A c \in C : /\ Dead(c) \in C /\ Dead(c).life = c.life
                   /\ c.st \in {"ok", "rejected"} => Dead(c) = c
  BY DEF CopyStates
<1>4. \A c \in C : c.life \in Nat BY BoundsAssumption
<1> HIDE DEF C, Dead
<1>5. \A o \in Offsets :
          /\ copies'[o] \in Seq(C) /\ Len(copies'[o]) = Len(copies[o])
          /\ \A k \in 1 .. Len(copies[o]) :
                 copies'[o][k] = Dead(copies[o][k]) /\ copies[o][k] \in C
  <2> TAKE o \in Offsets
  <2> DEFINE q == [k \in 1 .. Len(copies[o]) |-> Dead(copies[o][k])]
  <2>1. \A k \in 1 .. Len(copies[o]) : copies[o][k] \in C /\ Dead(copies[o][k]) \in C
    BY <1>2, <1>3
  <2>2. q \in Seq(C) /\ Len(q) = Len(copies[o])
        /\ \A k \in 1 .. Len(copies[o]) : q[k] = Dead(copies[o][k])
    BY <1>2, <2>1
  <2>3. copies'[o] = q BY <1>1
  <2> HIDE DEF q
  <2> QED BY <2>1, <2>2, <2>3
<1>6. copies' \in [Offsets -> Seq(C)]
  <2>1. copies' = [o \in Offsets |-> copies'[o]] BY <1>1
  <2> QED BY <1>5, <2>1
<1>7. MemoryTypes'
  <2>1. \A o \in Offsets : seen'.inflight[o] <= Len(copies'[o])
    BY <1>1, <1>2, <1>5, ForgottenFacts
  <2>2. life' \in 1 .. MaxLife BY <1>1, BoundsAssumption DEF Types, MemoryTypes
  <2>3. seen' \in [present : BOOLEAN, last : 0 .. MaxLog, floor : 0 .. MaxLog,
                   inflight : [Offsets -> Nat], errs : SUBSET Offsets]
    BY <1>1, ForgottenFacts
  <2>4. dropped' \subseteq Offsets BY <1>1 DEF Types, MemoryTypes
  <2> QED BY <1>1, <1>6, <2>1, <2>2, <2>3, <2>4 DEF MemoryTypes, C
<1>8. CopiesGrow
  <2>1. \A o \in Offsets : Len(copies[o]) <= Len(copies'[o]) BY <1>2, <1>5
  <2> QED BY <1>3, <1>5, <2>1 DEF CopiesGrow
<1>9. WireTypes' /\ QueueTypes' BY <1>1 DEF onLinks, Types, WireTypes, QueueTypes
<1>10. /\ cur = NoLink /\ cur' = cur
       /\ \A l \in Links : Frames(l) = {} /\ reader[l] = NoFrame /\ down[l] = <<>>
  <2>1. cur \notin Links BY <1>1 DEF Sides
  <2>2. cur = NoLink BY <2>1 DEF Types, DialerTypes
  <2> QED BY <1>1, <2>2, FreeLink DEF onLinks
<1>11. Sides' BY <1>1, SidesKept
<1>12. Readers'
  <2>1. \A l \in Links : Frames(l)' = {} /\ reader'[l] = NoFrame /\ reader'[l].new = FALSE
    BY <1>1, <1>10, PipelineKept DEF onLinks, NoFrame
  <2> QED BY <2>1 DEF Readers
<1>13. Lives'
  <2>1. \A o \in Offsets : \A k \in 1 .. Len(copies'[o]) :
            copies'[o][k].life <= life /\ copies'[o][k].life \in Nat
    BY <1>3, <1>4, <1>5 DEF Lives
  <2>2. life \in Nat BY BoundsAssumption DEF Types, MemoryTypes
  <2>3. \A o \in Offsets : \A k \in 1 .. Len(copies'[o]) :
            copies'[o][k].life <= life' /\ copies'[o][k].life # life'
    <3>1. life' = life + 1 BY <1>1
    <3> QED BY <2>1, <2>2, <3>1
  <2> QED BY <2>3 DEF Lives
<1>14. PublishedOnce' BY <1>3, <1>5 DEF PublishedOnce
<1>15. Ordered' /\ Answers' BY <1>10 DEF Ordered, Answers
<1>16. NoHoles' BY <1>1, <1>10 DEF NoHoles, onLinks
<1>17. Remembered' BY <1>1, ForgottenFacts DEF Remembered
<1> QED
  BY <1>1, <1>7, <1>8, <1>9, <1>10, <1>11, <1>12, <1>13, <1>14, <1>15, <1>16, <1>17,
     AcceptorInv

-----------------------------------------------------------------------------

LEMMA NextInv == ASSUME IInv, [Next]_vars PROVE IInv'
<1>1. CASE UNCHANGED vars
  <2>1. /\ UNCHANGED onLinks
        /\ UNCHANGED <<kinds, at, acked, sent, breaks, capable, life, seen, copies, lost, slipped,
                       blind, dropped>>
        /\ UNCHANGED <<stage, unlogged, ticket, waits, gone>>
    BY <1>1 DEF vars, onLinks, publisherVars, trackerVars, dialerVars, wireVars, acceptorVars,
                historyVars
  <2>2. LogHead' = LogHead /\ Skipped' = Skipped BY <2>1, LogKept DEF IInv
  <2>3. Tickets' /\ NoTicketStranded' BY <2>1, <2>2 DEF IInv, Tickets, NoTicketStranded
  <2>4. /\ stage' \in [Offsets -> {"none", "logged", "registered", "waiting"}]
        /\ TicketTypes' /\ waits' \subseteq 1 .. LogHead
        /\ gone' \in {"no", "forgotten", "failed"} /\ unlogged' \in 0 .. MaxLog
    BY <2>1 DEF IInv, Types, LogTypes, TicketTypes, TrackerTypes, DialerTypes
  <2> QED BY <2>1, <2>3, <2>4, QuietInv
<1>2. CASE Next
  <2>1. CASE \E k \in {"event", "skipped"} : PublishAcked(k) BY <2>1, PublishAckedInv
  <2>2. CASE \E o \in Offsets : Publisher(o)
    BY <2>2, OnLoggedInv, AfterInv, TimeoutInv DEF Publisher
  <2>3. CASE \E l \in Links : LinkUp(l) \/ Writer(l) \/ SendFails(l) \/ OnPuback(l) \/ Cut(l)
    BY <2>3, LinkUpInv, GapInv, SkipInv, SendInv, SendFailsInv, OnPubackInv, CutInv DEF Writer
  <2>4. CASE Disconnect \/ FailAcks BY <2>4, DisconnectInv, FailAcksInv
  <2>5. CASE \E l \in Links : Acceptor(l)
    BY <2>5, BeginInv, QueueAckInv, FlushAcksInv, LinkEndInv DEF Acceptor
  <2>6. CASE \E o \in Offsets : \E k \in 1 .. Len(copies[o]) : HandlersDone(o, k)
    BY <2>6, HandlersDoneInv
  <2>7. CASE ForgetStream \/ Restart BY <2>7, ForgetStreamInv, RestartInv
  <2>8. CASE PublishUnlogged \/ AfterUnlogged BY <2>8, UnloggedInv
  <2> QED BY <1>2, <2>1, <2>2, <2>3, <2>4, <2>5, <2>6, <2>7, <2>8 DEF Next
<1> QED BY <1>1, <1>2

LEMMA Inductive == Spec => []IInv
<1>1. Init => IInv BY InitInv
<1>2. IInv /\ [Next]_vars => IInv' BY NextInv
<1> QED BY <1>1, <1>2, PTL DEF Spec

LEMMA TypesSuffice == ASSUME IInv PROVE TypeOK
<1> USE DEF IInv
<1>1. \A l \in Links : \A i \in 1 .. Len(ackq[l]) :
          ackq[l][i].st = "shared" => ackq[l][i].copy \in 1 .. Len(copies[ackq[l][i].off])
  BY DEF Readers, Frames, Elems
<1>2. lost \subseteq Offsets /\ slipped \subseteq lost /\ blind \subseteq Offsets
  BY OffsetFacts DEF Types, TrackerTypes, Offsets
<1>3. acked \in 0 .. LogHead BY OffsetFacts
<1> QED
  BY <1>1, <1>2, <1>3
     DEF TypeOK, Types, LogTypes, TicketTypes, TrackerTypes, DialerTypes, WireTypes, QueueTypes,
         MemoryTypes

LEMMA OrderedSuffices == ASSUME IInv PROVE PubacksExpected
<1> USE DEF IInv
<1> SUFFICES ASSUME cur # NoLink
             PROVE  /\ \A i \in 1 .. Len(back[cur]) :
                           /\ back[cur][i].off \in acked .. sent
                           /\ back[cur][i].off = acked => acked \in blind
                    /\ IncreasingOff(back[cur])
  BY DEF PubacksExpected, IncreasingOff
<1>1. IncreasingOff(back[cur]) BY DEF Ordered
<1>2. \A i \in 1 .. Len(back[cur]) : back[cur][i].off \in Pipeline(cur)
  BY DEF Pipeline, Offs, Elems
<1>3. \A x \in Pipeline(cur) : x \in acked .. at /\ (x = acked => x \in blind) /\ x <= sent
  BY DEF Ordered
<1> QED BY <1>1, <1>2, <1>3, OffsetFacts

\* The state of the dialer, of the links and of the acceptor keeps its types, and every queued
\* result that is shared refers to a frame the acceptor has begun.
THEOREM TypeCorrect == Spec => []TypeOK
<1>1. IInv => TypeOK BY TypesSuffice
<1> QED BY <1>1, Inductive, PTL

\* PublishAcked returns ok only for an event whose handlers returned at the acceptor, through
\* lost links, copies, pruned results and restarts (onPuback, begin, settle), unless the
\* acceptor forgot the stream after it had begun the frame, or the log evicted the event
\* before its publisher registered it (ackGap).
THEOREM OkMeansHandled == Spec => []NoFalseOk
<1>1. IInv => NoFalseOk BY DEF IInv
<1> QED BY <1>1, Inductive, PTL

\* The acceptor publishes a frame at most once in one life of its memory, however many links
\* bring it (begin).
THEOREM FramePublishedOnce == Spec => []PublishedOnce
<1>1. IInv => PublishedOnce BY DEF IInv
<1> QED BY <1>1, Inductive, PTL

\* What is at or below the cumulative offset, and is never sent again, was answered after
\* handling, or is reported as evicted, filtered or out of sight (linkUp, onPuback).
THEOREM NothingLeftBehind == Spec => []AckedMeansAnswered
<1>1. IInv => AckedMeansAnswered BY DEF IInv
<1> QED BY <1>1, Inductive, PTL

\* A puback is for a frame that was sent on its link, in frame order, and is not acknowledged
\* unless its write had failed on a link without acks: the check in onPuback never breaks the
\* link of an honest acceptor (linkUp, onSend, flushAcks).
THEOREM PubacksInOrder == Spec => []PubacksExpected
<1>1. IInv => PubacksExpected BY OrderedSuffices
<1> QED BY <1>1, Inductive, PTL

\* Once the waits of a forgotten address have failed, no publish past its own check is left
\* without an outcome (failAcks, the check after publishing).
THEOREM NoPublisherStranded == Spec => []NoTicketStranded
<1>1. IInv => NoTicketStranded BY DEF IInv
<1> QED BY <1>1, Inductive, PTL
=============================================================================
