----------------------------- MODULE Replicator -----------------------------
(***************************************************************************)
(* The push side of the entity replicator (go/runtime/sync): one outbound  *)
(* queue of diffs, a cursor into it per remote, and one sync loop per      *)
(* remote that pings, pushes what is past its cursor and trims what every  *)
(* remote has passed.  The loops and Enqueue interleave at r.mu.           *)
(*                                                                         *)
(* A diff is its number in the order of Enqueue.                           *)
(***************************************************************************)
EXTENDS Integers, Sequences, FiniteSets

CONSTANTS
    Remotes,
    Pushers,    \* the remotes whose mode is not PullOnly
    Filtered,   \* per remote: the diffs its filter refuses
    Removable,  \* the remotes the application may remove
    MaxQueue,   \* maxQueueSize
    MaxDiffs    \* bound: diffs enqueued

VARIABLES
    registered, \* the remotes of the RemoteSet
    queue,      \* r.queue
    cursors,    \* r.cursors: the remotes that have one
    loop,       \* per remote: where its sync loop is, "none" before AddRemote
    read,       \* per remote: the cursor push read, and what was pending
    enqueued,   \* diffs enqueued so far
    dropped,    \* diffs a full queue dropped
    sent        \* per remote: the diffs it took

vars == <<registered, queue, cursors, loop, read, enqueued, dropped, sent>>

NoRead == [cursor |-> 0, pending |-> <<>>]
Entries(s) == {s[i] : i \in DOMAIN s}
At(r, place) == loop[r] = place
Go(r, place) == loop' = [loop EXCEPT ![r] = place]

-----------------------------------------------------------------------------
(* The queue. *)

\* Enqueue: a full queue drops its oldest entry, the cursors stay.
Enqueue ==
    /\ enqueued < MaxDiffs
    /\ enqueued' = enqueued + 1
    /\ IF Len(queue) >= MaxQueue
       THEN /\ queue' = Append(Tail(queue), enqueued + 1)
            /\ dropped' = dropped \cup {Head(queue)}
       ELSE queue' = Append(queue, enqueued + 1) /\ UNCHANGED dropped
    /\ UNCHANGED <<registered, cursors, loop, read, sent>>

\* A remote without a cursor is at the start of the queue.
Cursor(r) == IF r \in DOMAIN cursors THEN cursors[r] ELSE 0

\* The least cursor of the registered remotes; every entry when there is none.
MinCursor ==
    LET behind == {Cursor(r) : r \in registered} \cup {Len(queue)}
    IN  CHOOSE c \in behind : \A d \in behind : c <= d

\* trimQueue, at the end of a round.
TrimQueue(r) ==
    /\ At(r, "trim")
    /\ IF MinCursor > 0
       THEN /\ queue' = SubSeq(queue, MinCursor + 1, Len(queue))
            /\ cursors' = [s \in DOMAIN cursors |-> cursors[s] - MinCursor]
       ELSE UNCHANGED <<queue, cursors>>
    /\ Go(r, "idle")
    /\ UNCHANGED <<registered, read, enqueued, dropped, sent>>

-----------------------------------------------------------------------------
(* A round of a sync loop. *)

\* The ping succeeded (a failed one changes nothing here): push, or for a
\* PullOnly remote the pull, which does not touch the queue.
Ping(r) ==
    /\ At(r, "idle")
    /\ Go(r, IF r \in Pushers THEN "push" ELSE "trim")
    /\ UNCHANGED <<registered, queue, cursors, read, enqueued, dropped, sent>>

\* push, under the lock: the cursor and the entries from it on.  A cursor out
\* of range panics, which no step follows.
PushRead(r) ==
    LET pending == SubSeq(queue, Cursor(r) + 1, Len(queue))
    IN  /\ At(r, "push")
        /\ Cursor(r) \in 0 .. Len(queue)
        /\ read' = [read EXCEPT ![r] = [cursor |-> Cursor(r), pending |-> pending]]
        /\ Go(r, IF pending = <<>> THEN "trim" ELSE "send")
        /\ UNCHANGED <<registered, queue, cursors, enqueued, dropped, sent>>

\* push, without the lock: the transport is called when the filter passes
\* something, and may fail, perhaps after the remote took the diffs; the
\* cursor stays.
PushFails(r) ==
    /\ At(r, "send")
    /\ Entries(read[r].pending) \ Filtered[r] # {}
    /\ \E taken \in {{}, Entries(read[r].pending) \ Filtered[r]} :
           sent' = [sent EXCEPT ![r] = @ \cup taken]
    /\ Go(r, "trim")
    /\ UNCHANGED <<registered, queue, cursors, read, enqueued, dropped>>

PushOk(r) ==
    /\ At(r, "send")
    /\ sent' = [sent EXCEPT ![r] = @ \cup (Entries(read[r].pending) \ Filtered[r])]
    /\ Go(r, "write")
    /\ UNCHANGED <<registered, queue, cursors, read, enqueued, dropped>>

\* push, under the lock again: the cursor is what was read plus what was sent.
PushWrite(r) ==
    /\ At(r, "write")
    /\ cursors' = [s \in DOMAIN cursors \cup {r} |->
                     IF s = r THEN read[r].cursor + Len(read[r].pending) ELSE cursors[s]]
    /\ Go(r, "trim")
    /\ UNCHANGED <<registered, queue, read, enqueued, dropped, sent>>

\* Start and AddRemote; a removed remote is not added again.
AddRemote(r) ==
    /\ At(r, "none")
    /\ registered' = registered \cup {r}
    /\ Go(r, "idle")
    /\ UNCHANGED <<queue, cursors, read, enqueued, dropped, sent>>

\* RemoveRemote: its loop and its cursor stay.
RemoveRemote(r) ==
    /\ r \in registered \cap Removable
    /\ registered' = registered \ {r}
    /\ UNCHANGED <<queue, cursors, loop, read, enqueued, dropped, sent>>

-----------------------------------------------------------------------------
(* The specification. *)

Init ==
    /\ registered = {}
    /\ queue = <<>>
    /\ cursors = [r \in {} |-> 0]
    /\ loop = [r \in Remotes |-> "none"]
    /\ read = [r \in Remotes |-> NoRead]
    /\ enqueued = 0
    /\ dropped = {}
    /\ sent = [r \in Remotes |-> {}]

Round(r) ==
    \/ Ping(r) \/ PushRead(r) \/ PushFails(r) \/ PushOk(r) \/ PushWrite(r) \/ TrimQueue(r)

Next ==
    \/ Enqueue
    \/ \E r \in Remotes : Round(r) \/ AddRemote(r) \/ RemoveRemote(r)

Spec == Init /\ [][Next]_vars

-----------------------------------------------------------------------------
(* Properties. *)

Below(d, r) == \E i \in 1 .. Cursor(r) : i <= Len(queue) /\ queue[i] = d

\* Every diff in the queue that a remote's cursor has passed was taken by that
\* remote, unless its filter refuses it or a full queue dropped it (doc.go,
\* "enqueued as Diff", "pushed to eligible remotes"; push, Enqueue).
NothingSkipped ==
    \A r \in registered \cap Pushers : \A d \in 1 .. enqueued :
        Below(d, r) => d \in sent[r] \cup Filtered[r] \cup dropped
=============================================================================
