------------------------------- MODULE Redial -------------------------------
(***************************************************************************)
(* How the bus NetworkAdapter keeps one outbound address connected         *)
(* (go/runtime/bus): the redial state machine of network.go, the connect   *)
(* attempts that race for the address, the teardown of a link, and the     *)
(* calls Dial, Connect, Disconnect and Close made by concurrent callers.   *)
(*                                                                         *)
(* A step is what the code does under one lock (n.mu or ps.mu).  Network   *)
(* outcomes, timers and drops are nondeterministic.  The loop never gives  *)
(* up: its MaxAttempts branch is left out, as no option sets the limit.    *)
(***************************************************************************)
EXTENDS Naturals, FiniteSets

CONSTANTS
    Users,   \* goroutines that call the adapter
    Loop,    \* the goroutine running the address's reconnect loop
    Links,   \* bound: links that exist at once, up or in teardown
    NoLink,
    MaxCalls,\* bound: calls the users make
    Serial   \* the callers let no other call overlap a Disconnect

ASSUME ActorsAssumption == Loop \notin Users /\ IsFiniteSet(Users)
ASSUME LinksAssumption == NoLink \notin Links /\ IsFiniteSet(Links)
ASSUME CallsAssumption == MaxCalls \in Nat /\ Serial \in BOOLEAN

Actors == Users \cup {Loop}

\* Registrations of the address (*peerState); 0 is none.  There are enough
\* for every reference to one that a reachable state holds.
Peers == 1 .. Cardinality(Actors) + Cardinality(Links) + 1

VARIABLES
    closed,    \* n.closed
    canceled,  \* the loop's context is done
    peers,     \* n.peers[addr], 0 when the address is not registered
    conn,      \* n.conns[addr]
    mark,      \* n.pendingRedial[addr]: "none", "now" or "wait"
    wake,      \* a token is in n.wakes[addr]
    loop,      \* where the reconnect loop is; "none": n.reconnecting is unset
    stage,     \* per actor: how far its connect attempt got
    ps,        \* per actor: the peerState its attempt or call works on
    raced,     \* per actor: another link came up since it asked to resume
    call,      \* per user: the call it is in
    target,    \* per user: the link Disconnect or Close waits for
    calls,     \* calls made so far
    link,      \* per link: its life
    cut,       \* per link: its connection is closed
    owner,     \* per link: its peerState
    final,     \* per peerState: LinkState.Final
    kept       \* history, per peerState: the adapter owes the address a link

attemptVars == <<stage, ps, raced>>
callVars == <<call, target, calls>>
linkVars == <<conn, link, cut, owner>>
loopVars == <<mark, wake, loop>>
stateVars == <<final, kept>>
vars == <<closed, canceled, peers, attemptVars, callVars, linkVars, loopVars, stateVars>>

-----------------------------------------------------------------------------
(* The redial state machine. *)

Running == loop # "none"

\* markLocked: the mark waits only if every pending request does; a request
\* that does not wait wakes the loop.
MarkLocked(wait) ==
    LET w == wait /\ mark # "now"
    IN  /\ mark' = IF w THEN "wait" ELSE "now"
        /\ wake' = (wake \/ ~w)

\* Mutant: a request that finds a loop running returns.
RequestRedialDropped(wait) ==
    IF closed \/ peers = 0 \/ Running
    THEN UNCHANGED loopVars
    ELSE /\ loop' = IF wait THEN "backoff" ELSE "dial"
         /\ wake' = FALSE
         /\ UNCHANGED mark

RequestRedial(wait) ==
    CASE closed \/ peers = 0 -> UNCHANGED loopVars
      [] ~closed /\ peers # 0 /\ Running -> MarkLocked(wait) /\ UNCHANGED loop
      [] OTHER -> /\ loop' = IF wait THEN "backoff" ELSE "dial"
                  /\ wake' = FALSE
                  /\ UNCHANGED mark

\* waitBackoff: the timer, or a wake or the context, which end the run.
Backoff ==
    /\ loop = "backoff"
    /\ \/ loop' = "dial" /\ UNCHANGED wake
       \/ wake /\ loop' = "exit" /\ wake' = FALSE
       \/ canceled /\ loop' = "exit" /\ UNCHANGED wake
    /\ UNCHANGED <<closed, canceled, peers, attemptVars, callVars, linkVars, mark,
                   stateVars>>

\* Mutant: the mark outlives a loop that ends without serving it.
ExitCheckKeepsMark ==
    /\ loop = "exit"
    /\ IF mark # "none" /\ peers # 0 /\ ~closed /\ ~canceled
       THEN /\ loop' = IF mark = "wait" THEN "backoff" ELSE "dial"
            /\ mark' = "none"
       ELSE loop' = "none" /\ UNCHANGED mark
    /\ wake' = FALSE
    /\ UNCHANGED <<closed, canceled, peers, attemptVars, callVars, linkVars, stateVars>>

\* reconnectLoop, after a run: serve the mark or end the loop.
ExitCheck ==
    /\ loop = "exit"
    /\ loop' = IF mark # "none" /\ peers # 0 /\ ~closed /\ ~canceled
               THEN IF mark = "wait" THEN "backoff" ELSE "dial"
               ELSE "none"
    /\ mark' = "none"
    /\ wake' = FALSE
    /\ canceled' = (canceled /\ loop' # "none")
    /\ UNCHANGED <<closed, peers, attemptVars, callVars, linkVars, stateVars>>

\* The goroutine that polls n.closed and cancels the loop's context.
Poll ==
    /\ Running
    /\ closed
    /\ ~canceled
    /\ canceled' = TRUE
    /\ UNCHANGED <<closed, peers, attemptVars, callVars, linkVars, loopVars, stateVars>>

-----------------------------------------------------------------------------
(* Connect attempts. *)

\* A peerState no part of the adapter refers to.
FreshPeer ==
    CHOOSE p \in Peers :
        /\ p # peers
        /\ \A a \in Actors : ps[a] # p
        /\ \A l \in Links : owner[l] # p

\* peerFor: the address's state, registering it on first use.
PeerFor == IF peers = 0 THEN FreshPeer ELSE peers

\* A new peerState has a zero LinkState.
Registered(p) ==
    /\ peers' = p
    /\ final' = [final EXCEPT ![p] = IF peers = 0 THEN FALSE ELSE @]

\* connect returns: the loop exits its run or tries again; a configured dial
\* that failed for now asks for a loop.
Return(a, err) ==
    /\ stage' = [stage EXCEPT ![a] = "idle"]
    /\ raced' = [raced EXCEPT ![a] = FALSE]
    /\ IF a = Loop
       THEN /\ loop' = IF err = "retry" /\ ~canceled THEN "backoff" ELSE "exit"
            /\ ps' = [ps EXCEPT ![a] = 0]
            /\ UNCHANGED call
       ELSE IF call[a] = "configured" /\ err = "retry"
       THEN /\ call' = [call EXCEPT ![a] = "dial"]
            /\ UNCHANGED <<loop, ps>>
       ELSE /\ call' = [call EXCEPT ![a] = "idle"]
            /\ ps' = [ps EXCEPT ![a] = 0]
            /\ UNCHANGED loop

FromLoop(a) == a = Loop \/ call[a] = "configured"

\* connect, before the dial: closed, forgotten, or connected already.  The
\* three reads are one step: they decide nothing that the registration does
\* not check again under the lock.
Begin(a) ==
    /\ stage[a] = "idle"
    /\ IF a = Loop THEN loop = "dial" ELSE call[a] \in {"connect", "configured"}
    /\ CASE closed -> Return(a, "retry")
         [] ~closed /\ FromLoop(a) /\ peers = 0 -> Return(a, "nil")
         [] ~closed /\ (FromLoop(a) => peers # 0) /\ conn # NoLink -> Return(a, "nil")
         [] OTHER -> /\ stage' = [stage EXCEPT ![a] = "dialing"]
                     /\ ps' = [ps EXCEPT ![a] = IF FromLoop(a) THEN peers ELSE 0]
                     /\ UNCHANGED <<raced, loop, call>>
    /\ UNCHANGED <<closed, canceled, peers, target, calls, linkVars, mark, wake, stateVars>>

DialFails(a) ==
    /\ stage[a] = "dialing"
    /\ Return(a, "retry")
    /\ UNCHANGED <<closed, canceled, peers, target, calls, linkVars, mark, wake, stateVars>>

\* Mutant: an explicit Connect does not register the address.
DialedUnregistered(a) ==
    /\ stage[a] = "dialing"
    /\ stage' = [stage EXCEPT ![a] = "asked"]
    /\ UNCHANGED <<closed, canceled, peers, ps, raced, callVars, linkVars, loopVars,
                   stateVars>>

\* The dial succeeds; an explicit Connect registers the address.  A link
\* that is up for it may move the position this attempt asks to resume from.
Dialed(a) ==
    LET p == IF ps[a] = 0 THEN PeerFor ELSE ps[a]
    IN  /\ stage[a] = "dialing"
        /\ stage' = [stage EXCEPT ![a] = "asked"]
        /\ ps' = [ps EXCEPT ![a] = p]
        /\ raced' = [raced EXCEPT ![a] = conn # NoLink /\ owner[conn] = p]
        /\ IF ps[a] = 0 THEN Registered(p) ELSE UNCHANGED <<peers, final>>
        /\ UNCHANGED <<closed, canceled, callVars, linkVars, loopVars, kept>>

\* The handshake fails on the transport: nothing is recorded.
HandshakeBreaks(a) ==
    /\ stage[a] = "asked"
    /\ Return(a, "retry")
    /\ UNCHANGED <<closed, canceled, peers, target, calls, linkVars, mark, wake, stateVars>>

\* handshakeFailed: a refused session or a malformed reply is final, a
\* rejected token or a missing ack is not.
HandshakeFailed(a, fin) ==
    /\ stage[a] = "asked"
    /\ Return(a, IF fin THEN "final" ELSE "retry")
    /\ final' = [final EXCEPT ![ps[a]] = fin]
    /\ kept' = [kept EXCEPT ![ps[a]] = @ /\ ~fin]
    /\ UNCHANGED <<closed, canceled, peers, target, calls, linkVars, mark, wake>>

Acked(a) ==
    /\ stage[a] = "asked"
    /\ stage' = [stage EXCEPT ![a] = "acked"]
    /\ UNCHANGED <<closed, canceled, peers, ps, raced, callVars, linkVars, loopVars,
                   stateVars>>

\* Mutants: a dropped check of the registration's critical section.
RefusesForgotten(a) == peers # ps[a] \/ conn # NoLink
RefusesClosed(a) == closed \/ conn # NoLink

\* The registration's critical section: the link may not exist when the
\* adapter is closed, the address forgotten or the address taken.
Refuses(a) == closed \/ peers # ps[a] \/ conn # NoLink

\* ... or, having raced with another link, when the ack answers a position
\* that link moved.
LoseRace(a) ==
    /\ stage[a] = "acked"
    /\ Refuses(a) \/ raced[a]
    /\ Return(a, IF closed THEN "retry" ELSE "nil")
    /\ UNCHANGED <<closed, canceled, peers, target, calls, linkVars, mark, wake, stateVars>>

Register(a) ==
    /\ stage[a] = "acked"
    /\ ~Refuses(a)
    /\ \E l \in Links :
        /\ link[l] = "free"
        /\ conn' = l
        /\ link' = [link EXCEPT ![l] = "made"]
        /\ cut' = [cut EXCEPT ![l] = FALSE]
        /\ owner' = [owner EXCEPT ![l] = ps[a]]
    /\ final' = [final EXCEPT ![ps[a]] = FALSE]
    /\ kept' = [kept EXCEPT ![ps[a]] = TRUE]
    /\ stage' = [stage EXCEPT ![a] = "made"]
    /\ raced' = [b \in Actors |-> raced[b] \/ (b # a /\ stage[b] \in {"asked", "acked"}
                                               /\ ps[b] = ps[a])]
    /\ UNCHANGED <<closed, canceled, peers, ps, callVars, loopVars>>

\* publishConnected, then the link's goroutines start and connect returns.
Start(a) ==
    /\ stage[a] = "made"
    /\ \E l \in Links : /\ link[l] = "made"
                        /\ link' = [link EXCEPT ![l] = "up"]
    /\ Return(a, "nil")
    /\ UNCHANGED <<closed, canceled, peers, target, calls, conn, cut, owner, mark, wake,
                   final, kept>>

-----------------------------------------------------------------------------
(* A link's end. *)

\* The peer, the network, the watchdog or a failed write closes the link.
Drop(l) ==
    /\ link[l] = "up"
    /\ ~cut[l]
    /\ cut' = [cut EXCEPT ![l] = TRUE]
    /\ UNCHANGED <<closed, canceled, peers, attemptVars, callVars, conn, link, owner,
                   loopVars, stateVars>>

\* readLoop ends: the link leaves n.conns ...
Remove(l) ==
    /\ link[l] = "up"
    /\ cut[l]
    /\ link' = [link EXCEPT ![l] = "removed"]
    /\ conn' = IF conn = l THEN NoLink ELSE conn
    /\ UNCHANGED <<closed, canceled, peers, attemptVars, callVars, cut, owner, loopVars,
                   stateVars>>

\* ... linkDown records it on the address and reads whether it is final ...
LinkDown(l) ==
    /\ link[l] = "removed"
    /\ link' = [link EXCEPT ![l] = IF final[owner[l]] THEN "ending" ELSE "redialing"]
    /\ UNCHANGED <<closed, canceled, peers, attemptVars, callVars, conn, cut, owner,
                   loopVars, final, kept>>

\* Mutant: the end of a link that is final is not signaled.
LinkDoneFinalSilent(l) ==
    /\ link[l] \in {"ending", "redialing"}
    /\ IF link[l] = "redialing" THEN RequestRedial(TRUE) ELSE UNCHANGED loopVars
    /\ link' = [link EXCEPT ![l] = "free"]
    /\ cut' = [cut EXCEPT ![l] = FALSE]
    /\ owner' = [owner EXCEPT ![l] = 0]
    /\ UNCHANGED <<closed, canceled, peers, attemptVars, callVars, conn, final, kept>>

\* ... and publishes it, asks for a redial and ends the reader (l.done).
LinkDone(l) ==
    /\ link[l] \in {"ending", "redialing"}
    /\ IF link[l] = "redialing" THEN RequestRedial(TRUE) ELSE UNCHANGED loopVars
    /\ link' = [link EXCEPT ![l] = "free"]
    /\ cut' = [cut EXCEPT ![l] = FALSE]
    /\ owner' = [owner EXCEPT ![l] = 0]
    /\ target' = [u \in Users |-> IF target[u] = l THEN NoLink ELSE target[u]]
    /\ UNCHANGED <<closed, canceled, peers, attemptVars, call, calls, conn, final, kept>>

-----------------------------------------------------------------------------
(* Calls. *)

Forgetting(u) == call[u] \in {"forget", "unlink", "await"}

Call(u, name) ==
    /\ call[u] = "idle"
    /\ calls < MaxCalls
    /\ Serial => /\ \A v \in Users : ~Forgetting(v)
                 /\ name = "forget" => \A v \in Users : call[v] \in {"idle", "closed"}
    /\ calls' = calls + 1
    /\ call' = [call EXCEPT ![u] = name]

\* Dial: register the address, then ask for a loop (Request).
Dial(u) ==
    /\ Call(u, "dial")
    /\ Registered(PeerFor)
    /\ ps' = [ps EXCEPT ![u] = PeerFor]
    /\ UNCHANGED <<closed, canceled, stage, raced, target, linkVars, loopVars, kept>>

\* The history notes a request made for the registration it finds.
Request(u) ==
    /\ call[u] = "dial"
    /\ RequestRedial(FALSE)
    /\ kept' = IF peers = 0 THEN kept ELSE [kept EXCEPT ![peers] = TRUE]
    /\ call' = [call EXCEPT ![u] = "idle"]
    /\ ps' = [ps EXCEPT ![u] = 0]
    /\ UNCHANGED <<closed, canceled, peers, stage, raced, target, calls, linkVars,
                   final>>

Connect(u) ==
    /\ Call(u, "connect")
    /\ IF Running /\ peers # 0 /\ ~closed
       THEN MarkLocked(FALSE) /\ UNCHANGED loop
       ELSE UNCHANGED loopVars
    /\ UNCHANGED <<closed, canceled, peers, attemptVars, target, linkVars, stateVars>>

\* Disconnect: forget the address ...
Disconnect(u) ==
    /\ Call(u, "forget")
    /\ peers' = 0
    /\ mark' = "none"
    /\ wake' = (wake \/ Running)
    /\ target' = [target EXCEPT ![u] = conn]
    /\ ps' = [ps EXCEPT ![u] = peers]
    /\ kept' = IF peers = 0 THEN kept ELSE [kept EXCEPT ![peers] = FALSE]
    /\ UNCHANGED <<closed, canceled, stage, raced, linkVars, loop, final>>

\* ... make its old state final ...
SetFinal(u) ==
    /\ call[u] = "forget"
    /\ call' = [call EXCEPT ![u] = IF target[u] = NoLink THEN "idle" ELSE "unlink"]
    /\ final' = IF ps[u] = 0 THEN final ELSE [final EXCEPT ![ps[u]] = TRUE]
    /\ ps' = [ps EXCEPT ![u] = 0]
    /\ UNCHANGED <<closed, canceled, peers, stage, raced, target, calls, linkVars,
                   loopVars, kept>>

\* ... close its link ...
CloseLink(u) ==
    /\ call[u] = "unlink"
    /\ call' = [call EXCEPT ![u] = "await"]
    /\ cut' = IF target[u] = NoLink THEN cut ELSE [cut EXCEPT ![target[u]] = TRUE]
    /\ UNCHANGED <<closed, canceled, peers, attemptVars, target, calls, conn, link, owner,
                   loopVars, stateVars>>

\* ... and wait for its reader to end.
Disconnected(u) ==
    /\ call[u] = "await"
    /\ target[u] = NoLink
    /\ call' = [call EXCEPT ![u] = "idle"]
    /\ UNCHANGED <<closed, canceled, peers, attemptVars, target, calls, linkVars, loopVars,
                   stateVars>>

\* Close: set closed; a second Close returns at once ...
Close(u) ==
    /\ Call(u, IF closed THEN "idle" ELSE "close")
    /\ closed' = TRUE
    /\ UNCHANGED <<canceled, peers, attemptVars, target, linkVars, loopVars, stateVars>>

\* Mutant: Close waits for its links without closing them.
CloseLinksOpen(u) ==
    /\ call[u] = "close"
    /\ mark' = "none"
    /\ call' = [call EXCEPT ![u] = "drain"]
    /\ UNCHANGED <<canceled, closed, peers, attemptVars, target, calls, linkVars,
                   wake, loop, stateVars>>

\* ... clear the marks and close the link it finds ...
CloseLinks(u) ==
    /\ call[u] = "close"
    /\ mark' = "none"
    /\ cut' = IF conn = NoLink THEN cut ELSE [cut EXCEPT ![conn] = TRUE]
    /\ call' = [call EXCEPT ![u] = "drain"]
    /\ UNCHANGED <<canceled, closed, peers, attemptVars, target, calls, conn, link, owner,
                   wake, loop, stateVars>>

\* ... and wait until every link and the loop are gone (n.wg).
Closed(u) ==
    /\ call[u] = "drain"
    /\ loop = "none"
    /\ \A l \in Links : link[l] = "free"
    /\ call' = [call EXCEPT ![u] = "closed"]
    /\ UNCHANGED <<closed, canceled, peers, attemptVars, target, calls, linkVars, loopVars,
                   stateVars>>

-----------------------------------------------------------------------------

\* A bus built WithNetwork starts in dialConfigured, with the address
\* registered; another starts with nothing registered.
Init ==
    /\ closed = FALSE
    /\ canceled = FALSE
    /\ call \in [Users -> {"idle", "configured"}]
    /\ Cardinality({u \in Users : call[u] = "configured"}) <= 1
    /\ peers = IF \E u \in Users : call[u] = "configured" THEN 1 ELSE 0
    /\ conn = NoLink
    /\ mark = "none"
    /\ wake = FALSE
    /\ loop = "none"
    /\ stage = [a \in Actors |-> "idle"]
    /\ ps = [a \in Actors |-> 0]
    /\ raced = [a \in Actors |-> FALSE]
    /\ target = [u \in Users |-> NoLink]
    /\ calls = 0
    /\ link = [l \in Links |-> "free"]
    /\ cut = [l \in Links |-> FALSE]
    /\ owner = [l \in Links |-> 0]
    /\ final = [p \in Peers |-> FALSE]
    /\ kept = [p \in Peers |-> FALSE]

Progress(a) == Begin(a) \/ Dialed(a) \/ Acked(a) \/ LoseRace(a) \/ Register(a) \/ Start(a)

Failure(a) ==
    \/ DialFails(a)
    \/ HandshakeBreaks(a)
    \/ \E fin \in BOOLEAN : HandshakeFailed(a, fin)

Teardown(l) == Remove(l) \/ LinkDown(l) \/ LinkDone(l)

Invoke(u) == Dial(u) \/ Connect(u) \/ Disconnect(u) \/ Close(u)

Finish(u) ==
    Request(u) \/ SetFinal(u) \/ CloseLink(u) \/ Disconnected(u) \/ CloseLinks(u) \/ Closed(u)

Next ==
    \/ \E a \in Actors : Progress(a) \/ Failure(a)
    \/ Backoff \/ ExitCheck \/ Poll
    \/ \E l \in Links : Drop(l) \/ Teardown(l)
    \/ \E u \in Users : Invoke(u) \/ Finish(u)

Spec == Init /\ [][Next]_vars

-----------------------------------------------------------------------------
(* Properties. *)

Stages == {"idle", "dialing", "asked", "acked", "made"}
CallStates == {"idle", "dial", "connect", "configured", "forget", "unlink", "await",
               "close", "drain", "closed"}

\* Types; an attempt that got past its dial works on some registration.
TypeOK ==
    /\ closed \in BOOLEAN /\ canceled \in BOOLEAN
    /\ peers \in Peers \cup {0}
    /\ conn \in Links \cup {NoLink}
    /\ mark \in {"none", "now", "wait"}
    /\ wake \in BOOLEAN
    /\ loop \in {"none", "backoff", "dial", "exit"}
    /\ stage \in [Actors -> Stages]
    /\ ps \in [Actors -> Peers \cup {0}]
    /\ raced \in [Actors -> BOOLEAN]
    /\ call \in [Users -> CallStates]
    /\ target \in [Users -> Links \cup {NoLink}]
    /\ calls \in 0..MaxCalls
    /\ link \in [Links -> {"free", "made", "up", "removed", "ending", "redialing"}]
    /\ cut \in [Links -> BOOLEAN]
    /\ owner \in [Links -> Peers \cup {0}]
    /\ final \in [Peers -> BOOLEAN]
    /\ kept \in [Peers -> BOOLEAN]
    /\ \A a \in Actors : stage[a] \in {"asked", "acked", "made"} => ps[a] # 0

\* A redial request is never parked where no loop will find it: a mark or a
\* wake is there only while the address's loop runs (requestRedial, the exit
\* check of reconnectLoop, Disconnect and Close).
MarksHaveALoop == (mark # "none" \/ wake) => Running

\* Forgotten means gone: an address that is not registered has a link only
\* while a Disconnect is still closing it; no attempt that was under way,
\* of the loop or of a Connect, brings it back (connect's registration).
ForgottenStaysDown ==
    peers = 0 /\ (\A u \in Users : ~Forgetting(u)) => conn = NoLink

\* Closed means gone: once Close has returned there is no link, no loop and
\* no attempt that can still make one, whatever was racing with it.
ClosedStaysDown ==
    (\E u \in Users : call[u] = "closed") =>
        /\ conn = NoLink
        /\ loop = "none"
        /\ \A l \in Links : link[l] = "free"

\* Every goroutine runs on; timers fire; dials and handshakes end one way or
\* the other (they have timeouts).
Fairness ==
    /\ \A a \in Actors : WF_vars(Progress(a) \/ Failure(a))
    /\ WF_vars(Backoff) /\ WF_vars(ExitCheck) /\ WF_vars(Poll)
    /\ \A l \in Links : WF_vars(Teardown(l))
    /\ \A u \in Users : WF_vars(Finish(u))

FairSpec == Spec /\ Fairness

\* From some point on dials succeed and links hold.
Calm == <>[][(\A a \in Actors : ~Failure(a)) /\ (\A l \in Links : ~Drop(l))]_vars

\* The adapter owes the registered address a link: it was asked to dial it,
\* or a link to it was up before, and no attempt failed for good since.
Owed == ~closed /\ peers # 0 /\ kept[peers] /\ ~final[peers]

\* Every redial request is served: once the network is calm, an address that
\* was dialed, or was connected once, ends up linked and stays so, unless it
\* is forgotten, refused for good or the adapter is closed (requestRedial's
\* table and "every request is served by the running loop or starts one").
Served ==
    Calm => <>[](Owed => conn # NoLink /\ owner[conn] = peers /\ ~cut[conn])

\* Close returns: the loop and every link it waits for end, although attempts
\* and teardowns are under way when it is called.
CloseReturns == \A u \in Users : call[u] = "close" ~> call[u] = "closed"

\* Disconnect returns: the reader it waits for ends.
DisconnectReturns == \A u \in Users : Forgetting(u) ~> call[u] = "idle"
=============================================================================
