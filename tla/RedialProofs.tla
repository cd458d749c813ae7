---------------------------- MODULE RedialProofs ----------------------------
(***************************************************************************)
(* Proofs about Redial, for any set of callers, any number of links, any   *)
(* number of calls, and callers that overlap a Disconnect or do not.       *)
(***************************************************************************)
EXTENDS Redial, FiniteSetTheorems, FunctionTheorems, TLAPS

-----------------------------------------------------------------------------
(* The inductive invariant. *)

\* A user makes a connect attempt only inside a call that connects; the loop
\* makes one only while it is in the dialing part of a run.
Attempts ==
    /\ \A u \in Users : stage[u] # "idle" => call[u] \in {"connect", "configured"}
    /\ stage[Loop] # "idle" => loop = "dial"

\* n.conns holds a live link; a link somebody waits for is not yet free for
\* reuse; the link of a forgotten address is one that a Disconnect waits for.
Held ==
    /\ conn # NoLink => link[conn] \in {"made", "up"}
    /\ \A u \in Users : target[u] # NoLink => link[target[u]] # "free"
    /\ conn # NoLink /\ peers = 0 =>
           \E u \in Users : Forgetting(u) /\ target[u] = conn

\* A Close that is under way, or has returned, has set n.closed.
Closing == \A u \in Users : call[u] \in {"close", "drain", "closed"} => closed

IInv == TypeOK /\ MarksHaveALoop /\ Attempts /\ Held /\ Closing /\ ClosedStaysDown

-----------------------------------------------------------------------------
(* A registration that nothing refers to is always there. *)

LEMMA PeersFacts ==
    /\ IsFiniteSet(Actors) /\ Cardinality(Actors) \in Nat
    /\ IsFiniteSet(Links) /\ Cardinality(Links) \in Nat
    /\ IsFiniteSet(Peers) /\ Cardinality(Peers) = Cardinality(Actors) + Cardinality(Links) + 1
    /\ 1 \in Peers /\ 0 \notin Peers /\ Peers \subseteq Nat
<1>1. IsFiniteSet(Actors) BY ActorsAssumption, FS_AddElement DEF Actors
<1>2. Cardinality(Actors) \in Nat /\ Cardinality(Links) \in Nat
  BY <1>1, LinksAssumption, FS_CardinalityType
<1>3. /\ IsFiniteSet(Peers)
      /\ Cardinality(Peers) = Cardinality(Actors) + Cardinality(Links) + 1
  <2> DEFINE n == Cardinality(Actors) + Cardinality(Links) + 1
  <2>1. n \in Int /\ 1 \in Int /\ ~(1 > n) /\ n - 1 + 1 = n BY <1>2
  <2> HIDE DEF n
  <2>2. IsFiniteSet(1 .. n) /\ Cardinality(1 .. n) = IF 1 > n THEN 0 ELSE n - 1 + 1
    BY <2>1, FS_Interval
  <2> QED BY <2>1, <2>2 DEF Peers, n
<1> QED BY <1>1, <1>2, <1>3, LinksAssumption DEF Peers

\* The values of a function on a finite set are no more than its arguments.
LEMMA ImageBound ==
    ASSUME NEW S, IsFiniteSet(S), NEW f, NEW T, f \in [S -> T]
    PROVE  /\ IsFiniteSet({f[x] : x \in S})
           /\ Cardinality({f[x] : x \in S}) \in Nat
           /\ Cardinality({f[x] : x \in S}) <= Cardinality(S)
<1> DEFINE I == {f[x] : x \in S}
<1>1. f \in Surjection(S, I) BY DEF Surjection
<1>2. IsFiniteSet(I) /\ Cardinality(I) <= Cardinality(S) BY <1>1, FS_Surjection
<1> QED BY <1>2, FS_CardinalityType

LEMMA FreshPeerFacts ==
    ASSUME TypeOK, peers = 0
    PROVE  /\ FreshPeer \in Peers
           /\ \A a \in Actors : ps[a] # FreshPeer
           /\ \A l \in Links : owner[l] # FreshPeer
<1> DEFINE A == {ps[a] : a \in Actors}
           B == {owner[l] : l \in Links}
<1>0. ps \in [Actors -> Peers \cup {0}] /\ owner \in [Links -> Peers \cup {0}]
  BY DEF TypeOK
<1>1. IsFiniteSet(A) /\ Cardinality(A) \in Nat /\ Cardinality(A) <= Cardinality(Actors)
  <2>1. IsFiniteSet(Actors) BY PeersFacts
  <2> QED BY <1>0, <2>1, ImageBound, Zenon
<1>2. IsFiniteSet(B) /\ Cardinality(B) \in Nat /\ Cardinality(B) <= Cardinality(Links)
  <2>1. IsFiniteSet(Links) BY PeersFacts
  <2> QED BY <1>0, <2>1, ImageBound, Zenon
<1>3. /\ IsFiniteSet(A \cup B)
      /\ Cardinality(A \cup B) = Cardinality(A) + Cardinality(B) - Cardinality(A \cap B)
  BY <1>1, <1>2, FS_Union
<1>4. Cardinality(A \cap B) \in Nat
  BY <1>1, FS_Intersection, FS_CardinalityType
<1>5. Cardinality(A \cup B) < Cardinality(Peers)
  BY <1>1, <1>2, <1>3, <1>4, PeersFacts
<1>6. \E p \in Peers : p \notin A \cup B
  <2> SUFFICES ASSUME Peers \subseteq A \cup B PROVE FALSE OBVIOUS
  <2>1. Cardinality(Peers) <= Cardinality(A \cup B) BY <1>3, FS_Subset
  <2>2. Cardinality(A \cup B) \in Nat BY <1>3, FS_CardinalityType
  <2> QED BY <1>5, <2>1, <2>2, PeersFacts
<1>7. \E p \in Peers : /\ p # peers
                       /\ \A a \in Actors : ps[a] # p
                       /\ \A l \in Links : owner[l] # p
  BY <1>6, PeersFacts
<1> QED BY <1>7 DEF FreshPeer

LEMMA PeerForFacts ==
    ASSUME TypeOK
    PROVE  PeerFor \in Peers /\ PeerFor # 0
BY FreshPeerFacts, PeersFacts DEF PeerFor, TypeOK

-----------------------------------------------------------------------------
(* Initial states. *)

LEMMA InitInv == Init => IInv
<1> SUFFICES ASSUME Init PROVE IInv OBVIOUS
<1> USE DEF Init
<1>1. TypeOK
  <2>1. peers \in Peers \cup {0} BY PeersFacts
  <2>2. call \in [Users -> CallStates] BY DEF CallStates
  <2>3. calls \in 0 .. MaxCalls BY CallsAssumption
  <2> QED BY <2>1, <2>2, <2>3 DEF TypeOK, Stages
<1>2. MarksHaveALoop BY DEF MarksHaveALoop
<1>3. Attempts BY DEF Attempts, Actors
<1>4. Held BY DEF Held
<1>5. Closing BY DEF Closing
<1>6. ClosedStaysDown BY DEF ClosedStaysDown
<1> QED BY <1>1, <1>2, <1>3, <1>4, <1>5, <1>6 DEF IInv

-----------------------------------------------------------------------------
(* Connect attempts. *)

\* An actor whose attempt is under way is in the loop's dialing part, or in a
\* call that connects.
MayAttempt(a) ==
    IF a = Loop THEN loop = "dial" ELSE call[a] \in {"connect", "configured"}

LEMMA UnderWay ==
    ASSUME IInv, NEW a \in Actors, stage[a] # "idle"
    PROVE  MayAttempt(a)
BY DEF IInv, Attempts, MayAttempt, Actors

\* What an attempt's return leaves, whatever else its step does to the link it
\* made and to its registration.
LEMMA ReturnInv ==
    ASSUME IInv, NEW a \in Actors, NEW err, MayAttempt(a), Return(a, err),
           UNCHANGED <<closed, canceled, peers, target, calls, conn, cut, owner, mark, wake>>,
           final' \in [Peers -> BOOLEAN], kept' \in [Peers -> BOOLEAN],
           link' \in [Links -> {"free", "made", "up", "removed", "ending", "redialing"}],
           \A l \in Links : link'[l] = link[l] \/ (link[l] = "made" /\ link'[l] = "up")
    PROVE  IInv'
<1> USE DEF Actors
<1>a. a # Loop => a \in Users OBVIOUS
<1>1. /\ stage' \in [Actors -> Stages] /\ raced' \in [Actors -> BOOLEAN]
      /\ \A b \in Actors : stage'[b] = IF b = a THEN "idle" ELSE stage[b]
  BY DEF IInv, TypeOK, Return, Stages
<1>2. /\ ps' \in [Actors -> Peers \cup {0}]
      /\ \A b \in Actors : b # a => ps'[b] = ps[b]
  BY DEF IInv, TypeOK, Return
<1>3. /\ call' \in [Users -> CallStates]
      /\ \A u \in Users : u # a => call'[u] = call[u]
      /\ a \in Users => call'[a] \in {"dial", "idle"}
  BY <1>a, ActorsAssumption DEF IInv, TypeOK, Return, CallStates
<1>4. /\ loop' \in {"none", "backoff", "dial", "exit"}
      /\ IF a = Loop THEN loop' # "none" ELSE loop' = loop
  BY DEF IInv, TypeOK, Return
<1>5. TypeOK'
  BY <1>1, <1>2, <1>3, <1>4 DEF IInv, TypeOK
<1>6. MarksHaveALoop' BY <1>4 DEF IInv, MarksHaveALoop, Running
<1>7. Attempts' BY <1>1, <1>3, <1>4, <1>a, ActorsAssumption DEF IInv, Attempts
<1>8. Held'
  <2>1. conn' # NoLink => link'[conn'] \in {"made", "up"} BY DEF IInv, Held, TypeOK
  <2>2. \A u \in Users : target'[u] # NoLink => link'[target'[u]] # "free"
    BY DEF IInv, Held, TypeOK
  <2>3. \A u \in Users : Forgetting(u) => u # a
    BY ActorsAssumption DEF MayAttempt, Forgetting
  <2>4. \A u \in Users : Forgetting(u) => Forgetting(u)'
    BY <1>3, <2>3 DEF Forgetting
  <2> QED BY <2>1, <2>2, <2>4 DEF IInv, Held
<1>9. Closing' BY <1>3 DEF IInv, Closing
<1>10. ClosedStaysDown'
  <2> SUFFICES ASSUME NEW u \in Users, call'[u] = "closed" PROVE ClosedStaysDown'
    BY DEF ClosedStaysDown
  <2>1. call[u] = "closed" BY <1>3
  <2>2. conn = NoLink /\ loop = "none" /\ \A l \in Links : link[l] = "free"
    BY <2>1 DEF IInv, ClosedStaysDown
  <2>3. loop' = loop BY <2>2, <1>4 DEF MayAttempt
  <2> QED BY <2>2, <2>3 DEF ClosedStaysDown
<1> QED BY <1>5, <1>6, <1>7, <1>8, <1>9, <1>10 DEF IInv

LEMMA BeginInv == ASSUME IInv, NEW a \in Actors, Begin(a) PROVE IInv'
<1> USE DEF linkVars, stateVars
<1>0. MayAttempt(a) /\ stage[a] = "idle" BY DEF Begin, MayAttempt
<1>1. UNCHANGED <<closed, canceled, peers, target, calls, conn, link, cut, owner, mark, wake,
                  final, kept>>
  BY DEF Begin
<1>2. ASSUME NEW err, Return(a, err) PROVE IInv'
  <2>1. /\ final' \in [Peers -> BOOLEAN] /\ kept' \in [Peers -> BOOLEAN]
        /\ link' \in [Links -> {"free", "made", "up", "removed", "ending", "redialing"}]
        /\ \A l \in Links : link'[l] = link[l]
    BY <1>1 DEF IInv, TypeOK
  <2> QED BY <1>0, <1>1, <1>2, <2>1, ReturnInv
<1>3. ASSUME /\ stage' = [stage EXCEPT ![a] = "dialing"]
             /\ ps' = [ps EXCEPT ![a] = IF FromLoop(a) THEN peers ELSE 0]
             /\ UNCHANGED <<raced, loop, call>>
      PROVE  IInv'
  <2>1. /\ stage' \in [Actors -> Stages] /\ ps' \in [Actors -> Peers \cup {0}]
        /\ \A b \in Actors : stage'[b] = IF b = a THEN "dialing" ELSE stage[b]
        /\ \A b \in Actors : b # a => ps'[b] = ps[b]
    BY <1>3 DEF IInv, TypeOK, Stages
  <2>2. TypeOK' BY <1>1, <1>3, <2>1 DEF IInv, TypeOK
  <2>3. Attempts'
    BY <1>0, <1>3, <2>1, ActorsAssumption DEF IInv, Attempts, MayAttempt, Actors
  <2> QED
    BY <1>1, <1>3, <2>2, <2>3
    DEF IInv, MarksHaveALoop, Running, Held, Forgetting, Closing, ClosedStaysDown
<1> QED BY <1>2, <1>3 DEF Begin

LEMMA DialFailsInv == ASSUME IInv, NEW a \in Actors, DialFails(a) PROVE IInv'
<1>1. MayAttempt(a) BY UnderWay DEF DialFails
<1>2. /\ Return(a, "retry")
      /\ UNCHANGED <<closed, canceled, peers, target, calls, conn, link, cut, owner, mark, wake,
                     final, kept>>
  BY DEF DialFails, linkVars, stateVars
<1>3. /\ final' \in [Peers -> BOOLEAN] /\ kept' \in [Peers -> BOOLEAN]
      /\ link' \in [Links -> {"free", "made", "up", "removed", "ending", "redialing"}]
      /\ \A l \in Links : link'[l] = link[l]
  BY <1>2 DEF IInv, TypeOK
<1> QED BY <1>1, <1>2, <1>3, ReturnInv

LEMMA HandshakeBreaksInv == ASSUME IInv, NEW a \in Actors, HandshakeBreaks(a) PROVE IInv'
<1>1. MayAttempt(a) BY UnderWay DEF HandshakeBreaks
<1>2. /\ Return(a, "retry")
      /\ UNCHANGED <<closed, canceled, peers, target, calls, conn, link, cut, owner, mark, wake,
                     final, kept>>
  BY DEF HandshakeBreaks, linkVars, stateVars
<1>3. /\ final' \in [Peers -> BOOLEAN] /\ kept' \in [Peers -> BOOLEAN]
      /\ link' \in [Links -> {"free", "made", "up", "removed", "ending", "redialing"}]
      /\ \A l \in Links : link'[l] = link[l]
  BY <1>2 DEF IInv, TypeOK
<1> QED BY <1>1, <1>2, <1>3, ReturnInv

LEMMA LoseRaceInv == ASSUME IInv, NEW a \in Actors, LoseRace(a) PROVE IInv'
<1>1. MayAttempt(a) BY UnderWay DEF LoseRace
<1>2. /\ Return(a, IF closed THEN "retry" ELSE "nil")
      /\ UNCHANGED <<closed, canceled, peers, target, calls, conn, link, cut, owner, mark, wake,
                     final, kept>>
  BY DEF LoseRace, linkVars, stateVars
<1>3. /\ final' \in [Peers -> BOOLEAN] /\ kept' \in [Peers -> BOOLEAN]
      /\ link' \in [Links -> {"free", "made", "up", "removed", "ending", "redialing"}]
      /\ \A l \in Links : link'[l] = link[l]
  BY <1>2 DEF IInv, TypeOK
<1> QED BY <1>1, <1>2, <1>3, ReturnInv

LEMMA HandshakeFailedInv ==
    ASSUME IInv, NEW a \in Actors, NEW fin \in BOOLEAN, HandshakeFailed(a, fin)
    PROVE  IInv'
<1>1. MayAttempt(a) BY UnderWay DEF HandshakeFailed
<1>2. /\ Return(a, IF fin THEN "final" ELSE "retry")
      /\ UNCHANGED <<closed, canceled, peers, target, calls, conn, link, cut, owner, mark, wake>>
  BY DEF HandshakeFailed, linkVars
<1>3. final' \in [Peers -> BOOLEAN] /\ kept' \in [Peers -> BOOLEAN]
  BY DEF HandshakeFailed, IInv, TypeOK
<1>4. /\ link' \in [Links -> {"free", "made", "up", "removed", "ending", "redialing"}]
      /\ \A l \in Links : link'[l] = link[l]
  BY <1>2 DEF IInv, TypeOK
<1> QED BY <1>1, <1>2, <1>3, <1>4, ReturnInv

LEMMA StartInv == ASSUME IInv, NEW a \in Actors, Start(a) PROVE IInv'
<1>1. MayAttempt(a) BY UnderWay DEF Start
<1>2. /\ Return(a, "nil")
      /\ UNCHANGED <<closed, canceled, peers, target, calls, conn, cut, owner, mark, wake,
                     final, kept>>
  BY DEF Start
<1>3. final' \in [Peers -> BOOLEAN] /\ kept' \in [Peers -> BOOLEAN]
  BY <1>2 DEF IInv, TypeOK
<1>4. /\ link' \in [Links -> {"free", "made", "up", "removed", "ending", "redialing"}]
      /\ \A l \in Links : link'[l] = link[l] \/ (link[l] = "made" /\ link'[l] = "up")
  BY DEF Start, IInv, TypeOK
<1> QED BY <1>1, <1>2, <1>3, <1>4, ReturnInv

LEMMA DialedInv == ASSUME IInv, NEW a \in Actors, Dialed(a) PROVE IInv'
<1> DEFINE p == IF ps[a] = 0 THEN PeerFor ELSE ps[a]
<1> USE DEF callVars, linkVars, loopVars
<1>1. p \in Peers /\ p # 0 BY PeerForFacts, PeersFacts DEF IInv, TypeOK
<1>2. /\ stage[a] = "dialing" /\ stage' = [stage EXCEPT ![a] = "asked"]
      /\ ps' = [ps EXCEPT ![a] = p]
      /\ raced' = [raced EXCEPT ![a] = conn # NoLink /\ owner[conn] = p]
      /\ IF ps[a] = 0 THEN Registered(p) ELSE UNCHANGED <<peers, final>>
      /\ UNCHANGED <<closed, canceled, callVars, linkVars, loopVars, kept>>
  BY DEF Dialed
<1> HIDE DEF p
<1>3. MayAttempt(a) BY <1>2, UnderWay
<1>4. /\ stage' \in [Actors -> Stages] /\ ps' \in [Actors -> Peers \cup {0}]
      /\ raced' \in [Actors -> BOOLEAN]
      /\ \A b \in Actors : stage'[b] = IF b = a THEN "asked" ELSE stage[b]
      /\ \A b \in Actors : ps'[b] = IF b = a THEN p ELSE ps[b]
  BY <1>1, <1>2 DEF IInv, TypeOK, Stages
<1>5. /\ peers' \in Peers \cup {0} /\ final' \in [Peers -> BOOLEAN]
      /\ peers' = 0 => peers = 0
  BY <1>1, <1>2 DEF IInv, TypeOK, Registered
<1>6. TypeOK' BY <1>1, <1>2, <1>4, <1>5 DEF IInv, TypeOK
<1>7. Attempts'
  BY <1>2, <1>3, <1>4, ActorsAssumption DEF IInv, Attempts, MayAttempt, Actors
<1>8. Held' BY <1>2, <1>5 DEF IInv, Held, Forgetting
<1> QED
  BY <1>2, <1>6, <1>7, <1>8
  DEF IInv, MarksHaveALoop, Running, Closing, ClosedStaysDown

LEMMA AckedInv == ASSUME IInv, NEW a \in Actors, Acked(a) PROVE IInv'
<1> USE DEF Acked, callVars, linkVars, loopVars, stateVars
<1>1. /\ stage' \in [Actors -> Stages] /\ stage[a] = "asked"
      /\ \A b \in Actors : stage'[b] = IF b = a THEN "acked" ELSE stage[b]
  BY DEF IInv, TypeOK, Stages
<1>2. MayAttempt(a) BY <1>1, UnderWay
<1>3. TypeOK' BY <1>1 DEF IInv, TypeOK
<1>4. Attempts'
  BY <1>1, <1>2, ActorsAssumption DEF IInv, Attempts, MayAttempt, Actors
<1> QED
  BY <1>3, <1>4
  DEF IInv, MarksHaveALoop, Running, Held, Forgetting, Closing, ClosedStaysDown

\* The registration checks under the lock that the address is the one it dialed
\* for, so the link it makes belongs to a registered address of an open adapter.
LEMMA RegisterInv == ASSUME IInv, NEW a \in Actors, Register(a) PROVE IInv'
<1> USE DEF callVars, loopVars
<1>1. /\ stage[a] = "acked" /\ ~closed /\ peers = ps[a] /\ peers # 0 /\ conn = NoLink
      /\ ps[a] \in Peers
  BY DEF Register, Refuses, IInv, TypeOK
<1>2. MayAttempt(a) BY <1>1, UnderWay
<1>3. PICK l \in Links : /\ link[l] = "free" /\ conn' = l
                         /\ link' = [link EXCEPT ![l] = "made"]
                         /\ cut' = [cut EXCEPT ![l] = FALSE]
                         /\ owner' = [owner EXCEPT ![l] = ps[a]]
  BY DEF Register
<1>4. UNCHANGED <<closed, canceled, peers, ps, call, target, calls, mark, wake, loop>>
  BY DEF Register
<1>5. /\ stage' \in [Actors -> Stages]
      /\ \A b \in Actors : stage'[b] = IF b = a THEN "made" ELSE stage[b]
  BY DEF Register, IInv, TypeOK, Stages
<1>6. \A k \in Links : link'[k] = IF k = l THEN "made" ELSE link[k]
  BY <1>3 DEF IInv, TypeOK
<1>7. TypeOK'
  <2>1. link' \in [Links -> {"free", "made", "up", "removed", "ending", "redialing"}]
    BY <1>3 DEF IInv, TypeOK
  <2>2. cut' \in [Links -> BOOLEAN] /\ owner' \in [Links -> Peers \cup {0}]
    BY <1>1, <1>3 DEF IInv, TypeOK
  <2>3. final' \in [Peers -> BOOLEAN] /\ kept' \in [Peers -> BOOLEAN]
    BY <1>1 DEF Register, IInv, TypeOK
  <2>4. raced' \in [Actors -> BOOLEAN]
    BY DEF Register, IInv, TypeOK
  <2> QED BY <1>1, <1>3, <1>4, <1>5, <2>1, <2>2, <2>3, <2>4 DEF IInv, TypeOK
<1>8. Attempts'
  BY <1>2, <1>4, <1>5, ActorsAssumption DEF IInv, Attempts, MayAttempt, Actors
<1>9. Held'
  <2>1. conn' # NoLink => link'[conn'] \in {"made", "up"} BY <1>3, <1>6
  <2>2. \A u \in Users : target'[u] # NoLink => link'[target'[u]] # "free"
    BY <1>4, <1>6 DEF IInv, Held, TypeOK
  <2> QED BY <1>1, <1>4, <2>1, <2>2 DEF Held
<1>10. ClosedStaysDown' BY <1>1, <1>4 DEF IInv, Closing, ClosedStaysDown
<1> QED
  BY <1>4, <1>7, <1>8, <1>9, <1>10 DEF IInv, MarksHaveALoop, Running, Closing

-----------------------------------------------------------------------------
(* The loop. *)

LEMMA BackoffInv == ASSUME IInv, Backoff PROVE IInv'
<1> USE DEF Backoff, attemptVars, callVars, linkVars, stateVars
<1>1. /\ loop = "backoff" /\ loop' \in {"dial", "exit"} /\ wake' \in BOOLEAN
  BY DEF IInv, TypeOK
<1>2. TypeOK' BY <1>1 DEF IInv, TypeOK
<1>3. Attempts' BY <1>1 DEF IInv, Attempts
<1>4. MarksHaveALoop' BY <1>1 DEF MarksHaveALoop, Running
<1>5. ClosedStaysDown' BY <1>1 DEF IInv, ClosedStaysDown
<1> QED BY <1>2, <1>3, <1>4, <1>5 DEF IInv, Held, Forgetting, Closing

LEMMA ExitCheckInv == ASSUME IInv, ExitCheck PROVE IInv'
<1> USE DEF ExitCheck, attemptVars, callVars, linkVars, stateVars
<1>1. /\ loop = "exit" /\ loop' \in {"none", "dial", "backoff"} /\ canceled' \in BOOLEAN
      /\ mark' = "none" /\ wake' = FALSE
  BY DEF IInv, TypeOK
<1>2. TypeOK' BY <1>1 DEF IInv, TypeOK
<1>3. Attempts' BY <1>1 DEF IInv, Attempts
<1>4. MarksHaveALoop' BY <1>1 DEF MarksHaveALoop
<1>5. ClosedStaysDown' BY <1>1 DEF IInv, ClosedStaysDown
<1> QED BY <1>2, <1>3, <1>4, <1>5 DEF IInv, Held, Forgetting, Closing

LEMMA PollInv == ASSUME IInv, Poll PROVE IInv'
<1> USE DEF Poll, attemptVars, callVars, linkVars, loopVars, stateVars
<1>1. TypeOK' BY DEF IInv, TypeOK
<1> QED
  BY <1>1
  DEF IInv, MarksHaveALoop, Running, Attempts, Held, Forgetting, Closing, ClosedStaysDown

\* requestRedial starts a loop only for a registered address of an open adapter,
\* and marks or wakes only a loop that runs.
LEMMA RequestRedialFacts ==
    ASSUME IInv, NEW wait \in BOOLEAN, RequestRedial(wait)
    PROVE  /\ mark' \in {"none", "now", "wait"} /\ wake' \in BOOLEAN
           /\ loop' \in {"none", "backoff", "dial", "exit"}
           /\ MarksHaveALoop'
           /\ loop' # loop => loop = "none" /\ ~closed
<1>1. CASE closed \/ peers = 0
  <2>1. UNCHANGED <<mark, wake, loop>> BY <1>1 DEF RequestRedial, loopVars
  <2> QED BY <2>1 DEF IInv, TypeOK, MarksHaveALoop, Running
<1>2. CASE ~closed /\ peers # 0 /\ Running
  <2>1. MarkLocked(wait) /\ UNCHANGED loop BY <1>2 DEF RequestRedial
  <2> QED BY <1>2, <2>1 DEF IInv, TypeOK, MarksHaveALoop, Running, MarkLocked
<1>3. CASE ~closed /\ peers # 0 /\ ~Running
  <2>1. /\ loop' = IF wait THEN "backoff" ELSE "dial"
        /\ wake' = FALSE /\ UNCHANGED mark
    BY <1>3 DEF RequestRedial
  <2> QED BY <1>3, <2>1 DEF IInv, TypeOK, MarksHaveALoop, Running
<1> QED BY <1>1, <1>2, <1>3

-----------------------------------------------------------------------------
(* A link's end. *)

LEMMA DropInv == ASSUME IInv, NEW l \in Links, Drop(l) PROVE IInv'
<1> USE DEF Drop, attemptVars, callVars, loopVars, stateVars
<1>1. cut' \in [Links -> BOOLEAN] BY DEF IInv, TypeOK
<1>2. TypeOK' BY <1>1 DEF IInv, TypeOK
<1> QED
  BY <1>2
  DEF IInv, MarksHaveALoop, Running, Attempts, Held, Forgetting, Closing, ClosedStaysDown

LEMMA RemoveInv == ASSUME IInv, NEW l \in Links, Remove(l) PROVE IInv'
<1> USE DEF Remove, attemptVars, callVars, loopVars, stateVars
<1>1. /\ link' \in [Links -> {"free", "made", "up", "removed", "ending", "redialing"}]
      /\ \A k \in Links : link'[k] = IF k = l THEN "removed" ELSE link[k]
      /\ conn' \in Links \cup {NoLink}
  BY DEF IInv, TypeOK
<1>2. TypeOK' BY <1>1 DEF IInv, TypeOK
<1>3. Held'
  <2>1. conn' # NoLink => conn' = conn /\ conn # l OBVIOUS
  <2>2. conn' # NoLink => link'[conn'] \in {"made", "up"}
    BY <1>1, <2>1 DEF IInv, Held, TypeOK
  <2>3. \A u \in Users : target'[u] # NoLink => link'[target'[u]] # "free"
    BY <1>1 DEF IInv, Held, TypeOK
  <2> QED BY <2>1, <2>2, <2>3 DEF IInv, Held, Forgetting
<1>4. ClosedStaysDown'
  BY <1>1 DEF IInv, ClosedStaysDown
<1> QED BY <1>2, <1>3, <1>4 DEF IInv, MarksHaveALoop, Running, Attempts, Closing

LEMMA LinkDownInv == ASSUME IInv, NEW l \in Links, LinkDown(l) PROVE IInv'
<1> USE DEF LinkDown, attemptVars, callVars, loopVars
<1>1. /\ link[l] = "removed"
      /\ link' \in [Links -> {"free", "made", "up", "removed", "ending", "redialing"}]
      /\ link'[l] \in {"ending", "redialing"}
      /\ \A k \in Links : k # l => link'[k] = link[k]
  BY DEF IInv, TypeOK
<1>2. TypeOK' BY <1>1 DEF IInv, TypeOK
<1>3. Held'
  <2>1. conn' # NoLink => link'[conn'] \in {"made", "up"}
    BY <1>1 DEF IInv, Held, TypeOK
  <2>2. \A u \in Users : target'[u] # NoLink => link'[target'[u]] # "free"
    BY <1>1 DEF IInv, Held, TypeOK
  <2> QED BY <2>1, <2>2 DEF IInv, Held, Forgetting
<1>4. ClosedStaysDown' BY <1>1 DEF IInv, ClosedStaysDown
<1> QED BY <1>2, <1>3, <1>4 DEF IInv, MarksHaveALoop, Running, Attempts, Closing

LEMMA LinkDoneInv == ASSUME IInv, NEW l \in Links, LinkDone(l) PROVE IInv'
<1>1. /\ link[l] \in {"ending", "redialing"}
      /\ link' = [link EXCEPT ![l] = "free"]
      /\ target' = [u \in Users |-> IF target[u] = l THEN NoLink ELSE target[u]]
      /\ UNCHANGED <<closed, canceled, peers, stage, ps, raced, call, calls, conn, final, kept>>
  BY DEF LinkDone, attemptVars
<1>2. /\ mark' \in {"none", "now", "wait"} /\ wake' \in BOOLEAN
      /\ loop' \in {"none", "backoff", "dial", "exit"}
      /\ MarksHaveALoop'
      /\ loop' # loop => loop = "none" /\ ~closed
  <2>1. CASE link[l] = "redialing"
    <3>1. RequestRedial(TRUE) BY <2>1 DEF LinkDone
    <3> QED BY <3>1, RequestRedialFacts
  <2>2. CASE link[l] # "redialing"
    <3>1. UNCHANGED <<mark, wake, loop>> BY <2>2 DEF LinkDone, loopVars
    <3> QED BY <3>1 DEF IInv, TypeOK, MarksHaveALoop, Running
  <2> QED BY <2>1, <2>2
<1>3. /\ link' \in [Links -> {"free", "made", "up", "removed", "ending", "redialing"}]
      /\ \A k \in Links : link'[k] = IF k = l THEN "free" ELSE link[k]
      /\ target' \in [Users -> Links \cup {NoLink}]
      /\ \A u \in Users : target'[u] = IF target[u] = l THEN NoLink ELSE target[u]
  BY <1>1 DEF IInv, TypeOK
<1>4. TypeOK'
  <2>1. cut' \in [Links -> BOOLEAN] /\ owner' \in [Links -> Peers \cup {0}]
    BY DEF LinkDone, IInv, TypeOK
  <2> QED BY <1>1, <1>2, <1>3, <2>1 DEF IInv, TypeOK
<1>5. Held'
  <2>1. conn' # NoLink => link'[conn'] \in {"made", "up"} /\ conn # l
    BY <1>1, <1>3 DEF IInv, Held, TypeOK
  <2>2. \A u \in Users : target'[u] # NoLink => link'[target'[u]] # "free"
    BY <1>1, <1>3 DEF IInv, Held, TypeOK
  <2>3. conn' # NoLink /\ peers' = 0 => \E u \in Users : Forgetting(u)' /\ target'[u] = conn'
    BY <1>1, <1>3, <2>1 DEF IInv, Held, Forgetting
  <2> QED BY <2>1, <2>2, <2>3 DEF Held
<1>6. Attempts' BY <1>1, <1>2 DEF IInv, Attempts
<1>7. ClosedStaysDown'
  BY <1>1, <1>2, <1>3 DEF IInv, Closing, ClosedStaysDown
<1> QED BY <1>1, <1>2, <1>4, <1>5, <1>6, <1>7 DEF IInv, Closing

-----------------------------------------------------------------------------
(* Calls. *)

\* A call starts at an idle user and counts.
LEMMA CallFacts ==
    ASSUME IInv, NEW u \in Users, NEW name \in CallStates, Call(u, name)
    PROVE  /\ call' \in [Users -> CallStates] /\ calls' \in 0 .. MaxCalls
           /\ call[u] = "idle" /\ stage[u] = "idle"
           /\ \A v \in Users : call'[v] = IF v = u THEN name ELSE call[v]
<1>1. call[u] = "idle" /\ stage[u] = "idle" BY DEF Call, IInv, Attempts
<1>2. calls' \in 0 .. MaxCalls BY CallsAssumption DEF Call, IInv, TypeOK
<1> QED BY <1>1, <1>2 DEF Call, IInv, TypeOK

LEMMA DialInv == ASSUME IInv, NEW u \in Users, Dial(u) PROVE IInv'
<1> USE DEF linkVars, loopVars
<1>1. /\ call' \in [Users -> CallStates] /\ calls' \in 0 .. MaxCalls
      /\ call[u] = "idle" /\ stage[u] = "idle"
      /\ \A v \in Users : call'[v] = IF v = u THEN "dial" ELSE call[v]
  BY CallFacts DEF Dial, CallStates
<1>2. PeerFor \in Peers /\ PeerFor # 0 BY PeerForFacts DEF IInv
<1>3. /\ peers' = PeerFor /\ final' \in [Peers -> BOOLEAN]
      /\ ps' = [ps EXCEPT ![u] = PeerFor]
      /\ UNCHANGED <<closed, canceled, stage, raced, target, conn, link, cut, owner, mark,
                     wake, loop, kept>>
  BY <1>2 DEF Dial, Registered, IInv, TypeOK
<1>4. TypeOK'
  <2>1. ps' \in [Actors -> Peers \cup {0}] BY <1>2, <1>3 DEF IInv, TypeOK
  <2>2. \A b \in Actors : b # u => ps'[b] = ps[b] BY <1>3 DEF IInv, TypeOK
  <2> QED BY <1>1, <1>2, <1>3, <2>1, <2>2 DEF IInv, TypeOK
<1>5. Attempts' BY <1>1, <1>3 DEF IInv, Attempts
<1>6. Held' BY <1>2, <1>3 DEF IInv, Held
<1>7. Closing' /\ ClosedStaysDown' BY <1>1, <1>3 DEF IInv, Closing, ClosedStaysDown
<1> QED BY <1>3, <1>4, <1>5, <1>6, <1>7 DEF IInv, MarksHaveALoop, Running

LEMMA RequestInv == ASSUME IInv, NEW u \in Users, Request(u) PROVE IInv'
<1> USE DEF linkVars
<1>1. /\ mark' \in {"none", "now", "wait"} /\ wake' \in BOOLEAN
      /\ loop' \in {"none", "backoff", "dial", "exit"}
      /\ MarksHaveALoop'
      /\ loop' # loop => loop = "none" /\ ~closed
  BY RequestRedialFacts DEF Request
<1>2. /\ call' \in [Users -> CallStates] /\ call[u] = "dial" /\ stage[u] = "idle"
      /\ \A v \in Users : call'[v] = IF v = u THEN "idle" ELSE call[v]
  BY DEF Request, IInv, TypeOK, CallStates, Attempts
<1>3. /\ ps' \in [Actors -> Peers \cup {0}] /\ kept' \in [Peers -> BOOLEAN]
      /\ \A b \in Actors : b # u => ps'[b] = ps[b]
  BY DEF Request, IInv, TypeOK
<1>4. UNCHANGED <<closed, canceled, peers, stage, raced, target, calls, conn, link, cut, owner,
                  final>>
  BY DEF Request
<1>5. TypeOK' BY <1>1, <1>2, <1>3, <1>4 DEF IInv, TypeOK
<1>6. Attempts' BY <1>1, <1>2, <1>4 DEF IInv, Attempts
<1>7. Held' BY <1>2, <1>4 DEF IInv, Held, Forgetting
<1>8. Closing' /\ ClosedStaysDown'
  BY <1>1, <1>2, <1>4 DEF IInv, Closing, ClosedStaysDown
<1> QED BY <1>1, <1>5, <1>6, <1>7, <1>8 DEF IInv

LEMMA ConnectInv == ASSUME IInv, NEW u \in Users, Connect(u) PROVE IInv'
<1> USE DEF attemptVars, linkVars, stateVars
<1>1. /\ call' \in [Users -> CallStates] /\ calls' \in 0 .. MaxCalls
      /\ call[u] = "idle" /\ stage[u] = "idle"
      /\ \A v \in Users : call'[v] = IF v = u THEN "connect" ELSE call[v]
  BY CallFacts DEF Connect, CallStates
<1>2. /\ mark' \in {"none", "now", "wait"} /\ wake' \in BOOLEAN /\ loop' = loop
      /\ MarksHaveALoop'
  BY DEF Connect, MarkLocked, loopVars, IInv, TypeOK, MarksHaveALoop, Running
<1>3. UNCHANGED <<closed, canceled, peers, stage, ps, raced, target, conn, link, cut, owner,
                  final, kept>>
  BY DEF Connect
<1>4. TypeOK' BY <1>1, <1>2, <1>3 DEF IInv, TypeOK
<1>5. Attempts' BY <1>1, <1>2, <1>3 DEF IInv, Attempts
<1>6. Held' BY <1>1, <1>3 DEF IInv, Held, Forgetting
<1>7. Closing' /\ ClosedStaysDown' BY <1>1, <1>2, <1>3 DEF IInv, Closing, ClosedStaysDown
<1> QED BY <1>2, <1>4, <1>5, <1>6, <1>7 DEF IInv

LEMMA DisconnectInv == ASSUME IInv, NEW u \in Users, Disconnect(u) PROVE IInv'
<1> USE DEF linkVars
<1>1. /\ call' \in [Users -> CallStates] /\ calls' \in 0 .. MaxCalls
      /\ call[u] = "idle" /\ stage[u] = "idle"
      /\ \A v \in Users : call'[v] = IF v = u THEN "forget" ELSE call[v]
  BY CallFacts DEF Disconnect, CallStates
<1>2. /\ peers' = 0 /\ mark' = "none" /\ wake' = (wake \/ Running)
      /\ UNCHANGED <<closed, canceled, stage, raced, conn, link, cut, owner, loop, final>>
  BY DEF Disconnect
<1>3. /\ target' \in [Users -> Links \cup {NoLink}]
      /\ \A v \in Users : target'[v] = IF v = u THEN conn ELSE target[v]
  BY DEF Disconnect, IInv, TypeOK
<1>4. /\ ps' \in [Actors -> Peers \cup {0}] /\ kept' \in [Peers -> BOOLEAN]
      /\ \A b \in Actors : b # u => ps'[b] = ps[b]
  BY DEF Disconnect, IInv, TypeOK
<1>5. TypeOK' BY <1>1, <1>2, <1>3, <1>4 DEF IInv, TypeOK
<1>6. MarksHaveALoop' BY <1>2 DEF IInv, MarksHaveALoop, Running
<1>7. Attempts' BY <1>1, <1>2 DEF IInv, Attempts
<1>8. Held'
  <2>1. conn' # NoLink => link'[conn'] \in {"made", "up"} BY <1>2 DEF IInv, Held
  <2>2. \A v \in Users : target'[v] # NoLink => link'[target'[v]] # "free"
    BY <1>2, <1>3 DEF IInv, Held
  <2>3. Forgetting(u)' /\ target'[u] = conn' BY <1>1, <1>2, <1>3 DEF Forgetting
  <2> QED BY <2>1, <2>2, <2>3 DEF Held
<1>9. Closing' /\ ClosedStaysDown' BY <1>1, <1>2 DEF IInv, Closing, ClosedStaysDown
<1> QED BY <1>5, <1>6, <1>7, <1>8, <1>9 DEF IInv

LEMMA SetFinalInv == ASSUME IInv, NEW u \in Users, SetFinal(u) PROVE IInv'
<1> USE DEF linkVars, loopVars
<1>1. /\ call' \in [Users -> CallStates] /\ call[u] = "forget" /\ stage[u] = "idle"
      /\ call'[u] = IF target[u] = NoLink THEN "idle" ELSE "unlink"
      /\ \A v \in Users : v # u => call'[v] = call[v]
  BY DEF SetFinal, IInv, TypeOK, CallStates, Attempts
<1>2. /\ ps' \in [Actors -> Peers \cup {0}] /\ final' \in [Peers -> BOOLEAN]
      /\ \A b \in Actors : b # u => ps'[b] = ps[b]
  BY DEF SetFinal, IInv, TypeOK
<1>3. UNCHANGED <<closed, canceled, peers, stage, raced, target, calls, conn, link, cut, owner,
                  mark, wake, loop, kept>>
  BY DEF SetFinal
<1>4. TypeOK' BY <1>1, <1>2, <1>3 DEF IInv, TypeOK
<1>5. Attempts' BY <1>1, <1>3 DEF IInv, Attempts
<1>6. Held'
  <2>1. \A v \in Users : Forgetting(v) /\ target[v] # NoLink => Forgetting(v)'
    BY <1>1 DEF Forgetting
  <2>2. conn' # NoLink /\ peers' = 0 => \E v \in Users : Forgetting(v)' /\ target'[v] = conn'
    BY <1>3, <2>1 DEF IInv, Held
  <2> QED BY <1>3, <2>2 DEF IInv, Held
<1>7. Closing' /\ ClosedStaysDown' BY <1>1, <1>3 DEF IInv, Closing, ClosedStaysDown
<1> QED BY <1>3, <1>4, <1>5, <1>6, <1>7 DEF IInv, MarksHaveALoop, Running

LEMMA CloseLinkInv == ASSUME IInv, NEW u \in Users, CloseLink(u) PROVE IInv'
<1> USE DEF CloseLink, attemptVars, loopVars, stateVars
<1>1. /\ call' \in [Users -> CallStates] /\ call[u] = "unlink" /\ stage[u] = "idle"
      /\ \A v \in Users : call'[v] = IF v = u THEN "await" ELSE call[v]
  BY DEF IInv, TypeOK, CallStates, Attempts
<1>2. cut' \in [Links -> BOOLEAN] BY DEF IInv, TypeOK
<1>3. TypeOK' BY <1>1, <1>2 DEF IInv, TypeOK
<1>4. Attempts' BY <1>1 DEF IInv, Attempts
<1>5. Held' BY <1>1 DEF IInv, Held, Forgetting
<1>6. Closing' /\ ClosedStaysDown' BY <1>1 DEF IInv, Closing, ClosedStaysDown
<1> QED BY <1>3, <1>4, <1>5, <1>6 DEF IInv, MarksHaveALoop, Running

LEMMA DisconnectedInv == ASSUME IInv, NEW u \in Users, Disconnected(u) PROVE IInv'
<1> USE DEF Disconnected, attemptVars, linkVars, loopVars, stateVars
<1>1. /\ call' \in [Users -> CallStates] /\ call[u] = "await" /\ stage[u] = "idle"
      /\ target[u] = NoLink
      /\ \A v \in Users : call'[v] = IF v = u THEN "idle" ELSE call[v]
  BY DEF IInv, TypeOK, CallStates, Attempts
<1>2. TypeOK' BY <1>1 DEF IInv, TypeOK
<1>3. Attempts' BY <1>1 DEF IInv, Attempts
<1>4. Held'
  <2>1. \A v \in Users : Forgetting(v) /\ target[v] # NoLink => Forgetting(v)'
    BY <1>1 DEF Forgetting
  <2>2. conn' # NoLink /\ peers' = 0 => \E v \in Users : Forgetting(v)' /\ target'[v] = conn'
    BY <2>1 DEF IInv, Held
  <2> QED BY <2>2 DEF IInv, Held
<1>5. Closing' /\ ClosedStaysDown' BY <1>1 DEF IInv, Closing, ClosedStaysDown
<1> QED BY <1>2, <1>3, <1>4, <1>5 DEF IInv, MarksHaveALoop, Running

LEMMA CloseInv == ASSUME IInv, NEW u \in Users, Close(u) PROVE IInv'
<1> USE DEF attemptVars, linkVars, loopVars, stateVars
<1> DEFINE name == IF closed THEN "idle" ELSE "close"
<1>1. /\ call' \in [Users -> CallStates] /\ calls' \in 0 .. MaxCalls
      /\ call[u] = "idle" /\ stage[u] = "idle"
      /\ \A v \in Users : call'[v] = IF v = u THEN name ELSE call[v]
  BY CallFacts DEF Close, CallStates
<1>2. /\ closed' = TRUE
      /\ UNCHANGED <<canceled, peers, stage, ps, raced, target, conn, link, cut, owner, mark,
                     wake, loop, final, kept>>
  BY DEF Close
<1>3. TypeOK' BY <1>1, <1>2 DEF IInv, TypeOK
<1>4. Attempts' BY <1>1, <1>2 DEF IInv, Attempts
<1>5. Held' BY <1>1, <1>2 DEF IInv, Held, Forgetting
<1>6. Closing' /\ ClosedStaysDown' BY <1>1, <1>2 DEF IInv, Closing, ClosedStaysDown
<1> QED BY <1>2, <1>3, <1>4, <1>5, <1>6 DEF IInv, MarksHaveALoop, Running

LEMMA CloseLinksInv == ASSUME IInv, NEW u \in Users, CloseLinks(u) PROVE IInv'
<1> USE DEF CloseLinks, attemptVars, stateVars
<1>1. /\ call' \in [Users -> CallStates] /\ call[u] = "close" /\ stage[u] = "idle"
      /\ \A v \in Users : call'[v] = IF v = u THEN "drain" ELSE call[v]
  BY DEF IInv, TypeOK, CallStates, Attempts
<1>2. cut' \in [Links -> BOOLEAN] BY DEF IInv, TypeOK
<1>3. TypeOK' BY <1>1, <1>2 DEF IInv, TypeOK
<1>4. Attempts' BY <1>1 DEF IInv, Attempts
<1>5. Held' BY <1>1 DEF IInv, Held, Forgetting
<1>6. Closing' /\ ClosedStaysDown' BY <1>1 DEF IInv, Closing, ClosedStaysDown
<1> QED BY <1>3, <1>4, <1>5, <1>6 DEF IInv, MarksHaveALoop, Running

LEMMA ClosedInv == ASSUME IInv, NEW u \in Users, Closed(u) PROVE IInv'
<1> USE DEF Closed, attemptVars, linkVars, loopVars, stateVars
<1>1. /\ call' \in [Users -> CallStates] /\ call[u] = "drain" /\ stage[u] = "idle"
      /\ \A v \in Users : call'[v] = IF v = u THEN "closed" ELSE call[v]
  BY DEF IInv, TypeOK, CallStates, Attempts
<1>2. conn = NoLink BY DEF IInv, Held, TypeOK
<1>3. TypeOK' BY <1>1 DEF IInv, TypeOK
<1>4. Attempts' BY <1>1 DEF IInv, Attempts
<1>5. Held' BY <1>2 DEF IInv, Held
<1>6. Closing' BY <1>1 DEF IInv, Closing
<1>7. ClosedStaysDown' BY <1>2 DEF ClosedStaysDown
<1> QED BY <1>3, <1>4, <1>5, <1>6, <1>7 DEF IInv, MarksHaveALoop, Running

-----------------------------------------------------------------------------
(* The theorems. *)

LEMMA NextInv == IInv /\ [Next]_vars => IInv'
<1> SUFFICES ASSUME IInv, [Next]_vars PROVE IInv' OBVIOUS
<1>1. ASSUME NEW a \in Actors, Progress(a) PROVE IInv'
  BY <1>1, BeginInv, DialedInv, AckedInv, LoseRaceInv, RegisterInv, StartInv DEF Progress
<1>2. ASSUME NEW a \in Actors, Failure(a) PROVE IInv'
  BY <1>2, DialFailsInv, HandshakeBreaksInv, HandshakeFailedInv DEF Failure
<1>3. CASE Backoff \/ ExitCheck \/ Poll
  BY <1>3, BackoffInv, ExitCheckInv, PollInv
<1>4. ASSUME NEW l \in Links, Drop(l) \/ Teardown(l) PROVE IInv'
  BY <1>4, DropInv, RemoveInv, LinkDownInv, LinkDoneInv DEF Teardown
<1>5. ASSUME NEW u \in Users, Invoke(u) PROVE IInv'
  BY <1>5, DialInv, ConnectInv, DisconnectInv, CloseInv DEF Invoke
<1>6. ASSUME NEW u \in Users, Finish(u) PROVE IInv'
  BY <1>6, RequestInv, SetFinalInv, CloseLinkInv, DisconnectedInv, CloseLinksInv, ClosedInv
  DEF Finish
<1>7. CASE UNCHANGED vars
  <2> USE DEF vars, attemptVars, callVars, linkVars, loopVars, stateVars
  <2>1. TypeOK' BY <1>7 DEF IInv, TypeOK
  <2> QED
    BY <1>7, <2>1
    DEF IInv, MarksHaveALoop, Running, Attempts, Held, Forgetting, Closing, ClosedStaysDown
<1> QED BY <1>1, <1>2, <1>3, <1>4, <1>5, <1>6, <1>7 DEF Next

LEMMA Invariance == Spec => []IInv
<1> QED BY InitInv, NextInv, PTL DEF Spec

\* The adapter's records of an address hold what the code puts there: in
\* particular every attempt past its dial works on a registration, and the model
\* never runs out of registrations to hand out (TypeOK, FreshPeerFacts).
THEOREM TypeCorrect == Spec => []TypeOK
<1>1. IInv => TypeOK BY DEF IInv
<1> QED BY <1>1, Invariance, PTL

\* No redial request is parked where no loop finds it: a mark or a wake is there
\* only while the address's loop runs (requestRedial and the exit check).
THEOREM RequestsHaveALoop == Spec => []MarksHaveALoop
<1>1. IInv => MarksHaveALoop BY DEF IInv
<1> QED BY <1>1, Invariance, PTL

\* A forgotten address has a link only while a Disconnect is closing it, however
\* many dials, Connects, Disconnects and reconnect runs race (connect's check of
\* n.peers under the lock).
THEOREM ForgottenIsDown == Spec => []ForgottenStaysDown
<1>1. IInv => ForgottenStaysDown BY DEF IInv, Held, ForgottenStaysDown
<1> QED BY <1>1, Invariance, PTL

\* Once Close has returned there is no link and no loop, and none comes back
\* (connect's check of n.closed under the lock, requestRedial's early return).
THEOREM ClosedIsDown == Spec => []ClosedStaysDown
<1>1. IInv => ClosedStaysDown BY DEF IInv
<1> QED BY <1>1, Invariance, PTL
=============================================================================
