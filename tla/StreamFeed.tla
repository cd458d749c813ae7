----------------------------- MODULE StreamFeed -----------------------------
(***************************************************************************)
(* What a dialer of a stream promises the consumers on its local bus: the  *)
(* events of the stream are handed over in offset order, and at most once  *)
(* between two announcements; the position moves past nothing but what was *)
(* handed over or filtered out; and every other move of the position is    *)
(* announced (the event kit.runtime.stream.invalidated).                   *)
(***************************************************************************)
EXTENDS Naturals, Sequences

CONSTANT Streams  \* stream ids

NoPosition == [stream |-> 0, off |-> 0]

Kinds == {"event", "filtered", "marker"}

VARIABLES
    logs,       \* the entries of each stream
    pos,        \* the consumer's position, NoPosition when none is held
    started,    \* a first link came up
    announced,  \* the position the last announcement, or the start, named
    handed      \* offsets of the events handed to the bus since then

feedVars == <<logs, pos, started, announced, handed>>

Quiet(s, from, to) == \A o \in from..to : o <= Len(logs[s]) /\ logs[s][o] = "filtered"

Publish(s, k) ==
    /\ logs' = [logs EXCEPT ![s] = Append(@, k)]
    /\ UNCHANGED <<pos, started, announced, handed>>

\* The next event that passes the filters.
Hand(s, o) ==
    /\ pos.stream = s
    /\ o > pos.off
    /\ o <= Len(logs[s])
    /\ logs[s][o] = "event"
    /\ Quiet(s, pos.off + 1, o - 1)
    /\ o \notin handed
    /\ pos' = [stream |-> s, off |-> o]
    /\ handed' = handed \cup {o}
    /\ UNCHANGED <<logs, started, announced>>

\* Entries the consumer did not subscribe to are passed in silence.
Pass(s, o) ==
    /\ pos.stream = s
    /\ o > pos.off
    /\ Quiet(s, pos.off + 1, o)
    /\ pos' = [stream |-> s, off |-> o]
    /\ UNCHANGED <<logs, started, announced, handed>>

\* An announced move, to another stream, forward, or back: a seed may be ahead
\* of the log, and so may the position a late answer was given for.
Announce(p) ==
    /\ pos' = p
    /\ announced' = p
    /\ handed' = {}
    /\ started' = TRUE
    /\ UNCHANGED logs

\* The first link: it needs no announcement, the consumer has no view yet.
Start(p) ==
    /\ ~started
    /\ pos = NoPosition
    /\ pos' = p
    /\ announced' = p
    /\ handed' = {}
    /\ started' = TRUE
    /\ UNCHANGED logs

\* A seeded position the first link resumes as it is.
Resume ==
    /\ started' = TRUE
    /\ UNCHANGED <<logs, pos, announced, handed>>

FeedInit ==
    /\ logs = [s \in Streams |-> <<>>]
    /\ announced = pos
    /\ started = FALSE
    /\ handed = {}

FeedPositions(n) == {NoPosition} \cup [stream : Streams, off : 0..n]

FeedNext ==
    \/ \E s \in Streams, k \in Kinds : Publish(s, k)
    \/ \E s \in Streams : \E o \in 1..Len(logs[s]) : Hand(s, o) \/ Pass(s, o)
    \/ \E s \in Streams : \E p \in FeedPositions(Len(logs[s])) : Announce(p) \/ Start(p)
    \/ Resume

FeedSpec == FeedInit /\ [][FeedNext]_feedVars
=============================================================================
