--------------------------- MODULE LiveHeadProofs ---------------------------
(***************************************************************************)
(* Proof that retention leaves a document its live heads, although a Prune *)
(* decides by a list and a cached DAG that may be out of date: for any     *)
(* number of requests at once, each of which may append, merge, revert,    *)
(* abandon and prune, any contents and any number of versions.  As in      *)
(* VersionedStoreProofs, the document is created once and every policy     *)
(* keeps a count.                                                          *)
(***************************************************************************)
EXTENDS VersionedStoreProofs

-----------------------------------------------------------------------------
(* How old a DAG may be. *)

\* The versions that have children by the edges of g.
Parents(g) == {e[2] : e \in g.edges}

\* A DAG that is cached, or may yet be, lacks at most the version that the last
\* transaction appended; while one is open it was read after the body ran.
Covers(S) == \A m \in db.versions \ S : tx = NoTx /\ m[1] = db.highWater

\* Of the versions L on a list, and still there, a DAG lacks at most the newest.
Lacks(S, L) == \A m \in (L \cap db.versions) \ S : \A w \in L : w[1] <= m[1]

\* What has children in the DAG has had children, and is no newer than the counter.
Sighted(g) ==
    /\ Parents(g) \cap db.versions \subseteq bore
    /\ Over \/ \A v \in Parents(g) : v[1] <= db.highWater

-----------------------------------------------------------------------------
(* The inductive invariant. *)

HasDAG == {"parents", "store", "decide"}

\* What a request in the state r has read: what was dead when it listed the
\* versions is dead, and its DAG is as old as it may be.
Request(c, r) ==
    /\ r.list.dead \subseteq r.list.versions
    /\ r.list.dead \cap db.versions \subseteq db.dead
    /\ r.at \in {"parents", "store"} /\ c \notin moved => Covers(r.dag.versions)
    /\ r.at \in HasDAG => Lacks(r.dag.versions, r.list.versions)
    /\ r.at \in {"store", "decide"} => Sighted(r.dag)

Requests == \A c \in Clients : Request(c, call[c])

CacheOK == cache # NoDAG => Sighted(cache) /\ Covers(cache.versions)

\* What a transaction that leaves the rows d may do: it appends at most one
\* version, revives none, and removes no live head but with the document.
Sound(d) ==
    /\ \A m \in d.versions \ db.versions : m[1] = d.highWater /\ m[1] > db.highWater
    /\ db.dead \cap d.versions \subseteq d.dead
    /\ d.doc # NoDoc => LiveHeads(db) \ bore \subseteq d.versions

Pending == tx # NoTx => Sound(tx.db) /\ tx.then.at \notin HasDAG

HInv == Parents(db) \subseteq bore /\ Requests /\ CacheOK /\ Pending

-----------------------------------------------------------------------------
(* What the transactions do. *)

LEMMA RowFacts ==
    ASSUME NEW d, RowsOK(d)
    PROVE  /\ d.versions \in SUBSET Vid /\ d.dead \subseteq d.versions /\ d.highWater \in Nat
           /\ \A v \in d.versions : v[1] \in Nat /\ v[1] <= d.highWater
<1>1. d.versions \in SUBSET Vid /\ d.highWater \in 0 .. MaxSeq BY RowsFields DEF RowsOK
<1>2. \A v \in d.versions : v[1] \in 1 .. MaxSeq BY <1>1, VidFacts
<1> QED BY <1>1, <1>2, BoundsAssumption DEF RowsOK, WellFormed

LEMMA AppendSound ==
    ASSUME Types, NEW b, RowsOK(b), b.versions = db.versions, b.dead = db.dead,
           b.highWater = db.highWater, NEW x \in Data, NEW parents, CanAppend(b, parents)
    PROVE  Sound(AppendVersion(b, x, parents))
<1> DEFINE e == AppendVersion(b, x, parents)
           n == <<db.highWater + 1, x>>
<1>1. e.versions = db.versions \cup {n} /\ e.highWater = db.highWater + 1 BY AppendOK
<1>2. e.dead = db.dead BY DEF AppendVersion, RowsOK, Rows
<1>3. n[1] = db.highWater + 1 /\ db.highWater \in Nat BY RowFacts DEF Types
<1> HIDE DEF e, n
<1>4. \A m \in e.versions \ db.versions : m[1] = e.highWater /\ m[1] > db.highWater
  BY <1>1, <1>3
<1>5. LiveHeads(db) \subseteq e.versions BY <1>1 DEF LiveHeads, Heads
<1> QED BY <1>2, <1>4, <1>5 DEF Sound, e

LEMMA SetDeadSound ==
    ASSUME Types, NEW v \in db.versions PROVE Sound(SetDead(db, v))
<1> DEFINE e == SetDead(db, v)
<1>1. e.versions = db.versions /\ e.dead = db.dead \cup {v}
  BY DEF SetDead, Types, RowsOK, Rows
<1> HIDE DEF e
<1>2. LiveHeads(db) \subseteq e.versions BY <1>1 DEF LiveHeads, Heads
<1> QED BY <1>1, <1>2 DEF Sound, e

LEMMA DeleteHistorySound == ASSUME Types PROVE Sound(DeleteHistory(db))
<1>1. DeleteHistory(db).versions = {} /\ DeleteHistory(db).doc = NoDoc
  BY DeleteHistoryOK DEF Types
<1> QED BY <1>1 DEF Sound

LEMMA DeleteVersionsSound ==
    ASSUME Types, NEW ids, (LiveHeads(db) \ bore) \cap ids = {}
    PROVE  Sound(DeleteVersions(db, ids))
<1> DEFINE e == DeleteVersions(db, ids)
<1>1. e.versions = db.versions \ ids BY DeleteVersionsOK DEF Types
<1>2. e.dead = db.dead \ ids BY DEF DeleteVersions, Types, RowsOK, Rows
<1> HIDE DEF e
<1>3. LiveHeads(db) \subseteq db.versions BY DEF LiveHeads, Heads
<1> QED BY <1>1, <1>2, <1>3 DEF Sound, e

-----------------------------------------------------------------------------
(* What a prune leaves. *)

\* A version that is prunable is no live head by the list and the DAG.
LEMMA PrunableHead ==
    ASSUME NEW ls, NEW g, NEW policy, NEW old, NEW v \in ComputePrunable(ls, g, policy, old)
    PROVE  v \in Heads(g) => v \in ls.dead
<1> DEFINE liveHeads == {h \in Heads(g) : h \in ls.versions \ ls.dead}
           floor == liveHeads \cup Ancestors(g, liveHeads)
           A == {w \in ls.versions \ floor : PolicyExceeds(w, ls, policy, old)}
           candidates == CHOOSE f : f = [n \in 0 .. MaxSeq |->
                             IF n = 0 THEN {w \in ls.versions \ floor :
                                                PolicyExceeds(w, ls, policy, old)}
                             ELSE {w \in f[n - 1] : Children(g, w) \subseteq f[n - 1]}]
<1>1. v \in candidates[MaxSeq] BY DEF ComputePrunable
<1>2. Rounds(candidates, MaxSeq, A, g)
  <2>1. \E f : Rounds(f, MaxSeq, A, g) BY RoundsExist, BoundsAssumption
  <2> QED BY <2>1 DEF Rounds, Narrow
<1>3. A \cap {h \in Heads(g) : h \in ls.versions \ ls.dead} = {} /\ A \subseteq ls.versions
  OBVIOUS
<1> HIDE DEF candidates, A
<1>4. MaxSeq \in Nat /\ MaxSeq \in 0 .. MaxSeq BY BoundsAssumption
<1>5. candidates[MaxSeq] \subseteq A BY <1>2, <1>4, RoundsNarrow
<1> QED BY <1>1, <1>3, <1>5

\* The newest version on the list does not exceed a policy with a count.
LEMMA NewestListed ==
    ASSUME NEW ls, NEW policy, NEW old, policy.maxVersions \in Nat, policy.maxVersions > 0,
           NEW t \in ls.versions, \A w \in ls.versions : w[1] <= t[1],
           ls.versions \subseteq Vid, \A v, w \in ls.versions : v[1] = w[1] => v = w
    PROVE  ~PolicyExceeds(t, ls, policy, old)
<1> DEFINE tail == {w \in ls.versions : w[1] >= t[1]}
<1>1. \A w \in ls.versions : w[1] \in Nat BY VidFacts, BoundsAssumption
<1>2. tail = {t} BY <1>1
<1>3. Cardinality(tail) = 1 BY <1>2, FS_Singleton
<1>4. PolicyExceeds(t, ls, policy, old) => Cardinality(tail) > policy.maxVersions
  BY DEF PolicyExceeds
<1> QED BY <1>3, <1>4

\* A prune by count deletes no live head that has never had a child: one that its
\* DAG lacks is the newest on its list, and any other is a head of its DAG too.
LEMMA PruneKeeps ==
    ASSUME Types, Life, OneLife, HInv, NEW c \in Clients, call[c].at = "decide",
           NEW policy \in Policies, NEW old, NEW h \in LiveHeads(db) \ bore
    PROVE  h \notin ComputePrunable(call[c].list, call[c].dag, policy, old)
<1> DEFINE ls == call[c].list
           g == call[c].dag
<1> SUFFICES ASSUME h \in ComputePrunable(ls, g, policy, old) PROVE FALSE OBVIOUS
<1>1. h \in db.versions /\ h \notin db.dead /\ h \notin bore BY DEF LiveHeads, Heads
<1>2. Request(c, call[c]) BY DEF HInv, Requests
<1>3. h \in ls.versions /\ PolicyExceeds(h, ls, policy, old) BY PrunableExceeds
<1>4. h \notin ls.dead BY <1>1, <1>2 DEF Request
<1>5. h \notin Heads(g) BY <1>4, PrunableHead
<1>6. CASE h \notin g.versions
  <2>1. \A w \in ls.versions : w[1] <= h[1] BY <1>1, <1>2, <1>3, <1>6 DEF Request, HasDAG, Lacks
  <2>2. ls.versions \subseteq Vid BY DEF Types, CallRecords, Lists
  <2>3. \A v, w \in ls.versions : v[1] = w[1] => v = w BY DEF Life, Reads
  <2>4. policy.maxVersions \in Nat /\ policy.maxVersions > 0 BY PoliciesAssumption DEF OneLife
  <2> HIDE DEF ls
  <2> QED BY <1>3, <2>1, <2>2, <2>3, <2>4, NewestListed
<1>7. CASE h \in g.versions
  <2>1. PICK w : <<w, h>> \in g.edges BY <1>5, <1>7 DEF Heads, Children
  <2>2. h \in Parents(g)
    <3> DEFINE x == <<w, h>>
    <3>1. x \in g.edges /\ x[2] = h BY <2>1
    <3> QED BY <3>1 DEF Parents
  <2> QED BY <1>1, <1>2, <2>2 DEF Request, Sighted
<1> QED BY <1>6, <1>7

-----------------------------------------------------------------------------
(* A request reads. *)

LEMMA ReadHeads ==
    ASSUME Types, HInv, NEW c \in Clients, ReadStep(c), bore' = bore,
           moved \ {c} \subseteq moved', CacheOK', Request(c, call[c])'
    PROVE  HInv'
<1>1. PICK r : ReadRecord(c, r) /\ call' = [call EXCEPT ![c] = r] BY DEF ReadStep
<1>2. db' = db /\ tx' = tx /\ created' = created BY DEF ReadStep
<1>3. ASSUME NEW k \in Clients, k # c PROVE Request(k, call[k])'
  <2>1. Request(k, call[k]) BY DEF HInv, Requests
  <2>2. call'[k] = call[k] BY <1>1, <1>3 DEF Types
  <2>3. k \notin moved' => k \notin moved BY <1>3
  <2> QED BY <1>2, <2>1, <2>2, <2>3 DEF Request, Covers, Lacks, Sighted, Over, Parents
<1>4. Requests' BY <1>3 DEF Requests
<1>5. Pending' BY <1>2 DEF HInv, Pending, Sound
<1>6. (Parents(db) \subseteq bore)' BY <1>2 DEF HInv, Parents
<1> QED BY <1>4, <1>5, <1>6 DEF HInv

\* A read that neither has nor gets a DAG.
LEMMA PlainHeads ==
    ASSUME Types, HInv, NEW c \in Clients, ReadStep(c), bore' = bore, cache' = cache,
           moved \ {c} \subseteq moved', call'[c].at \notin HasDAG
    PROVE  HInv'
<1>1. PICK r : ReadRecord(c, r) /\ call' = [call EXCEPT ![c] = r] BY DEF ReadStep
<1>2. db' = db /\ tx' = tx /\ created' = created BY DEF ReadStep
<1>3. call'[c] = r BY <1>1 DEF Types
<1>4. Request(c, call[c]) BY DEF HInv, Requests
<1>5. r.list.dead \subseteq r.list.versions /\ r.list.dead \cap db.versions \subseteq db.dead
  <2>1. CASE r.list = NoList BY <2>1 DEF NoList
  <2>2. CASE r.list = call[c].list BY <1>4, <2>2 DEF Request
  <2>3. CASE r.list = DbList BY <2>3, RowFacts DEF DbList, Types
  <2> QED BY <1>1, <2>1, <2>2, <2>3 DEF ReadRecord
<1>6. Request(c, call[c])' BY <1>2, <1>3, <1>5 DEF Request, HasDAG
<1>7. CacheOK' BY <1>2 DEF HInv, CacheOK, Sighted, Covers, Over
<1> QED BY <1>6, <1>7, ReadHeads

\* Every request that starts.
LEMMA StartHeads ==
    ASSUME Types, HInv, NEW c \in Clients,
           \/ ReadCurrent(c) \/ ForkList(c) \/ MergeList(c) \/ RevertList(c) \/ Branches(c)
    PROVE  HInv'
<1>1. ReadStep(c)
  BY ReadCurrentRead, ForkListRead, MergeListRead, RevertListRead, BranchesRead
<1>2. UNCHANGED <<db, tx, cache, moved, created, cut, bore>>
  BY DEF ReadCurrent, ForkList, MergeList, RevertList, Branches
<1>3. call'[c].at \in {"update", "append", "source", "head", "load"}
  <2>1. \A op, at, picked : Start(c, op, at, picked) => call'[c].at = at
    BY DEF Types, Start, NoCall
  <2>2. CASE ReadCurrent(c) BY <2>1, <2>2 DEF ReadCurrent
  <2>3. CASE ForkList(c) BY <2>1, <2>3 DEF ForkList
  <2>4. CASE MergeList(c) BY <2>1, <2>4 DEF MergeList
  <2>5. CASE RevertList(c) BY <2>1, <2>5 DEF RevertList
  <2>6. CASE Branches(c) BY <2>1, <2>6 DEF Branches
  <2> QED BY <2>2, <2>3, <2>4, <2>5, <2>6
<1> QED BY <1>1, <1>2, <1>3, PlainHeads DEF HasDAG

LEMMA ListHeads ==
    ASSUME Types, HInv, NEW c \in Clients, AbandonList(c) \/ PruneList(c) PROVE HInv'
<1>1. ReadStep(c) BY AbandonListRead, PruneListRead
<1>2. PICK op, picked : List(c, op, picked) BY DEF AbandonList, PruneList
<1>3. UNCHANGED <<db, tx, cache, moved, created, cut, bore>> BY <1>2 DEF List
<1>4. call'[c].at = "load" BY <1>2 DEF Types, List, NoCall
<1> QED BY <1>1, <1>3, <1>4, PlainHeads DEF HasDAG

LEMMA RevertHeadHeads ==
    ASSUME Types, HInv, NEW c \in Clients, RevertHead(c) PROVE HInv'
<1>1. ReadStep(c) BY RevertHeadRead
<1>2. UNCHANGED <<db, tx, cache, moved, created, cut, bore>> BY DEF RevertHead
<1>3. call'[c].at \in {"tip", "mark"} BY DEF RevertHead, Types, CallRecords
<1> QED BY <1>1, <1>2, <1>3, PlainHeads DEF HasDAG

LEMMA FailHeads == ASSUME Types, HInv, NEW c \in Clients, Fail(c) PROVE HInv'
<1>1. ReadStep(c) BY FailRead
<1>2. bore' = bore /\ cache' = cache /\ moved' = moved \ {c} BY DEF Fail
<1>3. call'[c] = NoCall BY DEF Fail, Types
<1>4. call'[c].at = "idle" BY <1>3, NoCallOK
<1> QED BY <1>1, <1>2, <1>4, PlainHeads DEF HasDAG

-----------------------------------------------------------------------------
(* A request gets its DAG. *)

\* The newest row is the newest on every list that holds it.
LEMMA CoversLacks ==
    ASSUME Types, Life, NEW c \in Clients, NEW S, Covers(S)
    PROVE  Lacks(S, call[c].list.versions)
<1> SUFFICES ASSUME NEW m \in (call[c].list.versions \cap db.versions) \ S,
                    NEW w \in call[c].list.versions
             PROVE  w[1] <= m[1]
  BY DEF Lacks
<1>1. m[1] = db.highWater BY DEF Covers
<1>2. ~Over BY DEF Over
<1> QED BY <1>1, <1>2 DEF Life, Reads

LEMMA LoadedHeads ==
    ASSUME Types, HInv, NEW c \in Clients, ReadStep(c), bore' = bore,
           moved \ {c} \subseteq moved', CacheOK', NEW g, Sighted(g),
           Lacks(g.versions, call[c].list.versions),
           call' = [call EXCEPT ![c] = Loaded(c, g)]
    PROVE  HInv'
<1> DEFINE r == Loaded(c, g)
<1>1. db' = db /\ tx' = tx /\ created' = created BY DEF ReadStep
<1>2. call'[c] = r /\ call[c] \in CallRecords BY DEF Types
<1>3. CASE call[c].op = "branches"
  <2>1. r = NoCall BY <1>3 DEF Loaded
  <2>2. r.at = "idle" /\ r.list = NoList BY <2>1, NoCallOK
  <2> HIDE DEF r
  <2>3. Request(c, call[c])' BY <1>1, <1>2, <2>2 DEF Request, HasDAG, NoList
  <2> QED BY <2>3, ReadHeads
<1>4. CASE call[c].op # "branches"
  <2>1. r.at = "decide" /\ r.list = call[c].list /\ r.dag = g
    BY <1>2, <1>4 DEF Loaded, CallRecords
  <2> HIDE DEF r
  <2>2. Request(c, call[c]) BY DEF HInv, Requests
  <2>3. Request(c, call[c])'
    BY <1>1, <1>2, <2>1, <2>2 DEF Request, HasDAG, Lacks, Sighted, Over, Parents
  <2> QED BY <2>3, ReadHeads
<1> QED BY <1>3, <1>4

LEMMA LoadDAGHeads == ASSUME Types, Life, HInv, NEW c \in Clients, LoadDAG(c) PROVE HInv'
<1>1. UNCHANGED <<db, tx, cache, moved, created, cut, bore>> BY DEF LoadDAG
<1>2. ReadStep(c) BY LoadDAGRead
<1>3. CASE cache # NoDAG
  <2>1. Sighted(cache) /\ Covers(cache.versions) BY <1>3 DEF HInv, CacheOK
  <2>2. Lacks(cache.versions, call[c].list.versions) BY <2>1, CoversLacks
  <2>3. CacheOK' BY <1>1 DEF HInv, CacheOK, Sighted, Covers, Over
  <2>4. call' = [call EXCEPT ![c] = Loaded(c, cache)] BY <1>3 DEF LoadDAG
  <2> QED BY <1>1, <1>2, <2>1, <2>2, <2>3, <2>4, LoadedHeads
<1>4. CASE cache = NoDAG
  <2>1. call'[c].at = "versions" BY <1>4 DEF LoadDAG, Types, CallRecords
  <2> QED BY <1>1, <1>2, <2>1, PlainHeads DEF HasDAG
<1> QED BY <1>3, <1>4

LEMMA QueryVersionsHeads ==
    ASSUME Types, HInv, NEW c \in Clients, QueryVersions(c) PROVE HInv'
<1>1. UNCHANGED <<db, tx, cache, moved, created, cut, bore>> BY DEF QueryVersions
<1>2. ReadStep(c) BY QueryVersionsRead
<1>3. /\ call'[c].at = "parents" /\ call'[c].list = call[c].list
      /\ call'[c].dag.versions = db.versions
  BY DEF QueryVersions, Types, CallRecords
<1>4. Request(c, call[c]) BY DEF HInv, Requests
<1>5. Request(c, call[c])' BY <1>1, <1>3, <1>4 DEF Request, Covers, Lacks
<1>6. CacheOK' BY <1>1 DEF HInv, CacheOK, Sighted, Covers, Over
<1> QED BY <1>1, <1>2, <1>5, <1>6, ReadHeads

\* The edges found are among the rows, so that their parents have had children.
LEMMA QueryParentsHeads ==
    ASSUME Types, HInv, NEW c \in Clients, QueryParents(c) PROVE HInv'
<1> DEFINE found == {e \in db.edges : e[1] \in call[c].dag.versions}
<1>1. UNCHANGED <<db, tx, cache, moved, created, cut, bore>> BY DEF QueryParents
<1>2. ReadStep(c) BY QueryParentsRead
<1>3. call[c].at = "parents" BY DEF QueryParents
<1>4. call[c].dag \in Graph BY <1>3 DEF Types, CallOK
<1>5. /\ call'[c].at = "store" /\ call'[c].list = call[c].list
      /\ call'[c].dag.versions = call[c].dag.versions /\ call'[c].dag.edges = found
  <2>1. call' = [call EXCEPT ![c].at = "store", ![c].dag.edges = found] BY DEF QueryParents
  <2> HIDE DEF found
  <2> QED BY <1>4, <2>1 DEF Types, CallRecords, Graph
<1>6. \A e \in found : e[2] \in bore /\ e[2][1] <= db.highWater
  <2> SUFFICES ASSUME NEW e \in db.edges PROVE e[2] \in bore /\ e[2][1] <= db.highWater
    OBVIOUS
  <2>1. e[2] \in Parents(db) BY DEF Parents
  <2>2. e[2] \in db.versions BY DEF Types, RowsOK, WellFormed
  <2> QED BY <2>1, <2>2, RowFacts DEF HInv, Types
<1> HIDE DEF found
<1>7. Request(c, call[c]) BY DEF HInv, Requests
<1>8. Sighted(call[c].dag)' BY <1>1, <1>5, <1>6 DEF Sighted, Parents
<1>9. Request(c, call[c])'
  BY <1>1, <1>3, <1>5, <1>7, <1>8 DEF Request, HasDAG, Covers, Lacks
<1>10. CacheOK' BY <1>1 DEF HInv, CacheOK, Sighted, Covers, Over
<1> QED BY <1>1, <1>2, <1>9, <1>10, ReadHeads

LEMMA StoreDAGHeads == ASSUME Types, Life, HInv, NEW c \in Clients, StoreDAG(c) PROVE HInv'
<1> DEFINE g == IF cache # NoDAG THEN cache ELSE call[c].dag
<1>1. /\ call[c].at = "store" /\ UNCHANGED <<db, tx, created, bore>>
      /\ call' = [call EXCEPT ![c] = Loaded(c, g)]
      /\ cache' = IF c \in moved THEN cache ELSE g
      /\ moved' = moved \ {c}
  BY DEF StoreDAG
<1>2. ReadStep(c) BY StoreDAGRead
<1>3. Request(c, call[c]) /\ CacheOK BY DEF HInv, Requests
<1>4. Sighted(g) BY <1>1, <1>3 DEF Request, CacheOK
<1>5. Lacks(g.versions, call[c].list.versions)
  <2>1. CASE cache # NoDAG BY <1>3, <2>1, CoversLacks DEF CacheOK
  <2>2. CASE cache = NoDAG BY <1>1, <1>3, <2>2 DEF Request, HasDAG
  <2> QED BY <2>1, <2>2
<1>6. cache' # NoDAG => Sighted(cache') /\ Covers(cache'.versions)
  <2>1. CASE cache' = cache BY <1>3, <2>1 DEF CacheOK
  <2>2. CASE c \notin moved /\ cache = NoDAG
    <3>1. cache' = call[c].dag BY <1>1, <2>2
    <3>2. Sighted(call[c].dag) /\ Covers(call[c].dag.versions)
      BY <1>1, <1>3, <2>2 DEF Request
    <3> QED BY <3>1, <3>2
  <2> QED BY <1>1, <2>1, <2>2
<1>7. CacheOK' BY <1>1, <1>6 DEF CacheOK, Sighted, Covers, Over
<1> HIDE DEF g
<1> QED BY <1>1, <1>2, <1>4, <1>5, <1>7, LoadedHeads

-----------------------------------------------------------------------------
(* A request writes. *)

\* The body of a transaction of c has run: the cache is empty and every DAG that
\* is being built will not be cached.
LEMMA WriteHeads ==
    ASSUME Types, HInv, NEW c \in Clients, Over => Over',
           NEW d, NEW then, Begin(c, d, then), Sound(d), then.at \notin HasDAG
    PROVE  HInv'
<1>1. /\ tx = NoTx /\ tx' = [owner |-> c, db |-> d, then |-> then] /\ cache' = NoDAG
      /\ moved' = {k \in Clients : Building(k)} /\ db' = db /\ bore' = bore
      /\ call' = [call EXCEPT ![c].at = "commit"]
  BY DEF Begin
<1>2. tx'.db = d /\ tx'.then = then BY <1>1
<1>3. /\ \A k \in Clients : k # c => call'[k] = call[k]
      /\ call'[c].at = "commit" /\ call'[c].list = call[c].list
  BY <1>1 DEF Types, CallRecords
<1>4. Requests'
  <2> SUFFICES ASSUME NEW k \in Clients PROVE Request(k, call[k])' BY DEF Requests
  <2>1. Request(k, call[k]) BY DEF HInv, Requests
  <2>2. CASE k = c BY <1>1, <1>3, <2>1, <2>2 DEF Request, HasDAG
  <2>3. CASE k # c
    <3>1. call[k].at \in {"parents", "store"} => k \in moved' BY <1>1 DEF Building
    <3>2. call'[k] = call[k] BY <1>3, <2>3
    <3> QED BY <1>1, <2>1, <3>1, <3>2 DEF Request, Lacks, Sighted, Parents
  <2> QED BY <2>2, <2>3
<1>5. CacheOK' BY <1>1 DEF CacheOK
<1>6. Pending' BY <1>1, <1>2 DEF Pending, Sound
<1>7. (Parents(db) \subseteq bore)' BY <1>1 DEF HInv, Parents
<1> QED BY <1>4, <1>5, <1>6, <1>7 DEF HInv

\* A document that is created once is not revived.
LEMMA WriteOver ==
    ASSUME Life, OneLife, NEW c \in Clients, WriteStep(c) PROVE Over => Over'
<1>1. PICK d, then : Begin(c, d, then) /\ Legal(c, d) BY DEF WriteStep
<1>2. tx'.db = d /\ db' = db BY <1>1 DEF Begin
<1> QED BY <1>1, <1>2 DEF Over, Legal

LEMMA AppendHeads ==
    ASSUME Types, Life, OneLife, HInv, NEW c \in Clients, WriteStep(c), NEW b, RowsOK(b),
           b.versions = db.versions, b.dead = db.dead, b.highWater = db.highWater,
           NEW x \in Data, NEW parents, CanAppend(b, parents),
           Begin(c, AppendVersion(b, x, parents), NoCall)
    PROVE  HInv'
<1> DEFINE e == AppendVersion(b, x, parents)
<1>1. Sound(e) /\ Begin(c, e, NoCall) BY AppendSound
<1>2. NoCall.at \notin HasDAG BY NoCallOK DEF HasDAG
<1> HIDE DEF e
<1> QED BY <1>1, <1>2, WriteOver, WriteHeads

LEMMA SetDocFields ==
    ASSUME Types, NEW x \in Data
    PROVE  LET b == [db EXCEPT !.doc = x]
           IN  /\ RowsOK(b) /\ b.versions = db.versions /\ b.dead = db.dead
               /\ b.highWater = db.highWater
<1>1. RowsOK(db) /\ db \in Rows BY DEF Types, RowsOK
<1>2. RowsOK([db EXCEPT !.doc = x]) BY <1>1, SetDocOK
<1> QED BY <1>1, <1>2 DEF Rows

LEMMA CreateHeads ==
    ASSUME Types, Life, OneLife, HInv, NEW c \in Clients, Create(c) PROVE HInv'
<1>1. PICK x \in Data : Begin(c, AppendVersion([db EXCEPT !.doc = x], x, {}), NoCall)
  BY DEF Create
<1> DEFINE b == [db EXCEPT !.doc = x]
<1>2. RowsOK(b) /\ b.versions = db.versions /\ b.dead = db.dead /\ b.highWater = db.highWater
  BY SetDocFields
<1>3. Begin(c, AppendVersion(b, x, {}), NoCall) /\ WriteStep(c) BY <1>1, CreateWrite
<1> HIDE DEF b
<1>4. CanAppend(b, {}) BY <1>2 DEF Create, CanAppend
<1> QED BY <1>2, <1>3, <1>4, AppendHeads

LEMMA UpdateTxHeads ==
    ASSUME Types, Life, OneLife, HInv, NEW c \in Clients, WriteStep(c), NEW x \in Data,
           UpdateTx(c, x)
    PROVE  HInv'
<1> DEFINE b == [db EXCEPT !.doc = x]
<1>1. RowsOK(b) /\ b.versions = db.versions /\ b.dead = db.dead /\ b.highWater = db.highWater
  BY SetDocFields
<1>2. Begin(c, AppendVersion(b, x, Latest(db)), NoCall) BY DEF UpdateTx
<1> HIDE DEF b
<1>3. CanAppend(b, Latest(db)) BY <1>1 DEF UpdateTx, CanAppend
<1> QED BY <1>1, <1>2, <1>3, AppendHeads

LEMMA UpdateHeads ==
    ASSUME Types, Life, OneLife, HInv, NEW c \in Clients, Update(c) \/ UpdateIfMatch(c)
    PROVE  HInv'
<1>1. PICK x \in Data : UpdateTx(c, x) BY DEF Update, UpdateIfMatch
<1> QED BY <1>1, UpdateWrite, UpdateIfMatchWrite, UpdateTxHeads

LEMMA RevertTipHeads ==
    ASSUME Types, Life, OneLife, HInv, NEW c \in Clients, RevertTip(c) PROVE HInv'
<1>1. call[c].picked[1][2] \in Data
  <2>1. call[c].picked \in Seq(Vid) /\ call[c].picked # <<>>
    BY DEF RevertTip, At, Types, CallOK, CallRecords
  <2>2. call[c].picked[1] \in Vid BY <2>1
  <2> QED BY <2>2, VidFacts
<1> QED BY <1>1, RevertTipWrite, UpdateTxHeads DEF RevertTip

LEMMA ForkHeads ==
    ASSUME Types, Life, OneLife, HInv, NEW c \in Clients, Fork(c) PROVE HInv'
<1> DEFINE source == call[c].picked[1]
<1>1. CanAppend(db, {source}) /\ Begin(c, AppendVersion(db, source[2], {source}), NoCall)
  BY DEF Fork
<1>2. source \in db.versions BY <1>1 DEF CanAppend
<1>3. source[2] \in Data BY <1>2, RowFacts, VidFacts DEF Types
<1> HIDE DEF source
<1> QED BY <1>1, <1>3, ForkWrite, AppendHeads DEF Types

LEMMA MergeTipHeads ==
    ASSUME Types, Life, OneLife, HInv, NEW c \in Clients, MergeTip(c) PROVE HInv'
<1> DEFINE parents == {call[c].picked[1], call[c].picked[2]}
<1>1. /\ CanAppend(db, parents)
      /\ \E x \in Data : Begin(c, AppendVersion(db, x, parents), NoCall)
  BY DEF MergeTip
<1> HIDE DEF parents
<1> QED BY <1>1, MergeTipWrite, AppendHeads DEF Types

LEMMA DeleteHeads ==
    ASSUME Types, Life, OneLife, HInv, NEW c \in Clients, Delete(c) PROVE HInv'
<1>1. Begin(c, DeleteHistory(db), NoCall) BY DEF Delete
<1>2. NoCall.at \notin HasDAG BY NoCallOK DEF HasDAG
<1> QED BY <1>1, <1>2, DeleteHistorySound, DeleteWrite, WriteOver, WriteHeads

\* setLiveTx of a merge or a revert, or nothing for a version with children.
LEMMA MarkDeadHeads ==
    ASSUME Types, HInv, NEW c \in Clients, call[c].at \notin {"idle", "commit"},
           NEW v, NEW next \in {"target", "tip"}, MarkDead(c, v, next)
    PROVE  HInv'
<1>1. v \in db.versions BY DEF MarkDead
<1>2. call[c] \in CallRecords BY DEF Types
<1>3. CASE Children(db, v) = {}
  <2> DEFINE r == [call[c] EXCEPT !.at = next, !.half = TRUE]
  <2>1. Begin(c, SetDead(db, v), r) BY <1>3 DEF MarkDead
  <2>2. r.at = next BY <1>2 DEF CallRecords
  <2> HIDE DEF r
  <2>3. ~Over /\ r.at \notin HasDAG BY <1>1, <2>2 DEF Over, HasDAG
  <2> QED BY <1>1, <2>1, <2>3, SetDeadSound, WriteHeads
<1>4. CASE Children(db, v) # {}
  <2>1. /\ call' = [call EXCEPT ![c].at = next]
        /\ UNCHANGED <<db, tx, cache, moved, created, cut, bore>>
    BY <1>4 DEF MarkDead
  <2>2. ReadStep(c) BY <2>1, MoveRead
  <2>3. call'[c].at = next BY <1>2, <2>1 DEF Types, CallRecords
  <2> QED BY <2>1, <2>2, <2>3, PlainHeads DEF HasDAG
<1> QED BY <1>3, <1>4

LEMMA MarkHeads ==
    ASSUME Types, HInv, NEW c \in Clients, MergeSource(c) \/ MergeTarget(c) \/ RevertMark(c)
    PROVE  HInv'
<1>1. CASE MergeSource(c) BY <1>1, MarkDeadHeads DEF MergeSource, At
<1>2. CASE MergeTarget(c) BY <1>2, MarkDeadHeads DEF MergeTarget, At
<1>3. CASE RevertMark(c) BY <1>3, MarkDeadHeads DEF RevertMark, At
<1> QED BY <1>1, <1>2, <1>3

LEMMA AbandonHeads ==
    ASSUME Types, HInv, NEW c \in Clients, Abandon(c) PROVE HInv'
<1> DEFINE target == call[c].picked[1]
<1>1. target \in db.versions /\ Begin(c, SetDead(db, target), NoCall) BY DEF Abandon
<1>2. ~Over /\ NoCall.at \notin HasDAG BY <1>1, NoCallOK DEF Over, HasDAG
<1> HIDE DEF target
<1> QED BY <1>1, <1>2, SetDeadSound, WriteHeads

LEMMA PruneHeads ==
    ASSUME Types, Life, OneLife, HInv, NEW c \in Clients, Prune(c) PROVE HInv'
<1>1. PICK policy \in Policies : \E old \in IF policy.maxAge THEN 0 .. MaxSeq ELSE {0} :
          LET ids == ComputePrunable(call[c].list, call[c].dag, policy, old)
          IN  ids # {} /\ Begin(c, DeleteVersions(db, ids), NoCall)
  BY DEF Prune
<1>2. PICK old : LET ids == ComputePrunable(call[c].list, call[c].dag, policy, old)
                 IN  ids # {} /\ Begin(c, DeleteVersions(db, ids), NoCall)
  BY <1>1
<1> DEFINE ids == ComputePrunable(call[c].list, call[c].dag, policy, old)
<1>3. Begin(c, DeleteVersions(db, ids), NoCall) BY <1>2
<1>4. call[c].at = "decide" BY DEF Prune, At
<1>5. (LiveHeads(db) \ bore) \cap ids = {} BY <1>4, PruneKeeps
<1>6. NoCall.at \notin HasDAG BY NoCallOK DEF HasDAG
<1> HIDE DEF ids
<1> QED BY <1>3, <1>5, <1>6, DeleteVersionsSound, PruneWrite, WriteOver, WriteHeads

-----------------------------------------------------------------------------
(* The transaction commits, or the process restarts. *)

\* A version that a commit adds is newer than everything that was read.
LEMMA CommitAdds ==
    ASSUME Types, Life, HInv, Commit, NEW m \in tx.db.versions \ db.versions
    PROVE  /\ m[1] = tx.db.highWater /\ m[1] \in Nat /\ m[1] > db.highWater /\ ~Over
           /\ \A k \in Clients : m \notin call[k].list.versions
<1>1. tx # NoTx /\ RowsOK(tx.db) BY DEF Commit, Types
<1>2. m[1] = tx.db.highWater /\ m[1] > db.highWater BY <1>1 DEF HInv, Pending, Sound
<1>3. m[1] \in Nat /\ db.highWater \in Nat BY <1>1, RowFacts DEF Types
<1>4. ~Over BY <1>1 DEF Over
<1> QED BY <1>2, <1>3, <1>4 DEF Life, Reads

LEMMA SightedKept ==
    ASSUME Types, Life, HInv, Commit, NEW g \in Graph, Sighted(g)
    PROVE  /\ Parents(g) \cap db'.versions \subseteq bore'
           /\ Over' \/ \A v \in Parents(g) : v[1] <= db'.highWater
<1>1. /\ tx # NoTx /\ db' = tx.db /\ tx' = NoTx /\ created' = created
      /\ bore \cap tx.db.versions \subseteq bore'
  BY DEF Commit
<1>2. \A v \in Parents(g) : v[1] \in Nat
  <2>1. Parents(g) \subseteq Vid BY DEF Parents, Graph
  <2> QED BY <2>1, VidFacts, BoundsAssumption
<1>3. ASSUME NEW v \in Parents(g), v \in tx.db.versions PROVE v \in bore'
  <2>1. CASE v \in db.versions BY <1>1, <1>3, <2>1 DEF Sighted
  <2>2. CASE v \notin db.versions
    <3>1. v[1] > db.highWater /\ ~Over BY <1>3, <2>2, CommitAdds
    <3>2. db.highWater \in Nat BY RowFacts DEF Types
    <3> QED BY <1>2, <3>1, <3>2 DEF Sighted
  <2> QED BY <2>1, <2>2
<1>4. Over' \/ \A v \in Parents(g) : v[1] <= db'.highWater
  <2>1. CASE tx.db.versions = {}
    <3>1. created >= 1 BY <1>1 DEF Life, Follows
    <3> QED BY <1>1, <2>1, <3>1 DEF Over
  <2>2. CASE tx.db.versions # {}
    <3>1. tx.db.highWater >= db.highWater /\ ~Over BY <1>1, <2>2 DEF Life, Follows, Over
    <3>2. db.highWater \in Nat /\ tx.db.highWater \in Nat BY <1>1, RowFacts DEF Types
    <3> QED BY <1>1, <1>2, <3>1, <3>2 DEF Sighted
  <2> QED BY <2>1, <2>2
<1> QED BY <1>1, <1>3, <1>4

LEMMA CommitHeads == ASSUME Types, Life, HInv, Commit PROVE HInv'
<1>1. /\ tx # NoTx /\ db' = tx.db /\ tx' = NoTx /\ UNCHANGED <<cache, moved, created>>
      /\ call' = [c \in Clients |->
                    IF c = tx.owner THEN tx.then
                    ELSE [call[c] EXCEPT !.beaten = @ \/ SameMatch(c, tx.owner)]]
      /\ bore' = (bore \cap tx.db.versions) \cup {e[2] : e \in tx.db.edges}
  BY DEF Commit
<1>2. Sound(tx.db) /\ tx.then.at \notin HasDAG BY <1>1 DEF HInv, Pending
<1>3. ASSUME NEW S, Covers(S)
      PROVE  \A m \in tx.db.versions \ S : m[1] = tx.db.highWater
  BY <1>1, <1>2, <1>3 DEF Covers, Sound
<1>4. Requests'
  <2> SUFFICES ASSUME NEW k \in Clients PROVE Request(k, call[k])' BY DEF Requests
  <2>1. Request(k, call[k]) BY DEF HInv, Requests
  <2>2. /\ call[k].list.dead \subseteq call[k].list.versions
        /\ call[k].list.dead \cap tx.db.versions \subseteq tx.db.dead
    <3>1. ASSUME NEW v \in call[k].list.dead, v \in tx.db.versions PROVE v \in tx.db.dead
      <4>1. v \in db.versions BY <2>1, <3>1, CommitAdds DEF Request
      <4> QED BY <1>2, <2>1, <3>1, <4>1 DEF Request, Sound
    <3> QED BY <2>1, <3>1 DEF Request
  <2>3. CASE k = tx.owner
    <3>1. call'[k] = tx.then BY <1>1, <2>3
    <3>2. tx.then.list \in {NoList, call[k].list} BY <1>1, <2>3 DEF Life, Owners
    <3>3. /\ tx.then.list.dead \subseteq tx.then.list.versions
          /\ tx.then.list.dead \cap tx.db.versions \subseteq tx.db.dead
      BY <2>2, <3>2 DEF NoList
    <3> QED BY <1>1, <1>2, <3>1, <3>3 DEF Request, HasDAG
  <2>4. CASE k # tx.owner
    <3>1. call'[k].at = call[k].at /\ call'[k].list = call[k].list /\ call'[k].dag = call[k].dag
      BY <1>1, <2>4 DEF Types, CallRecords
    <3>2. call[k].at \in {"parents", "store"} /\ k \notin moved =>
              \A m \in tx.db.versions \ call[k].dag.versions : m[1] = tx.db.highWater
      BY <1>3, <2>1 DEF Request
    <3>3. ASSUME call[k].at \in HasDAG,
                 NEW m \in (call[k].list.versions \cap tx.db.versions) \ call[k].dag.versions
          PROVE  \A w \in call[k].list.versions : w[1] <= m[1]
      <4>1. m \in db.versions BY CommitAdds
      <4> QED BY <2>1, <3>3, <4>1 DEF Request, Lacks
    <3>4. ASSUME call[k].at \in {"store", "decide"}
          PROVE  /\ Parents(call[k].dag) \cap db'.versions \subseteq bore'
                 /\ Over' \/ \A v \in Parents(call[k].dag) : v[1] <= db'.highWater
      <4>1. call[k].dag \in Graph BY <3>4 DEF Types, CallOK
      <4>2. Sighted(call[k].dag) BY <2>1, <3>4 DEF Request
      <4> QED BY <4>1, <4>2, SightedKept
    <3>5. call'[k].at \in {"parents", "store"} /\ k \notin moved' => Covers(call[k].dag.versions)'
      BY <1>1, <3>1, <3>2 DEF Covers
    <3>6. call'[k].at \in HasDAG => Lacks(call[k].dag.versions, call[k].list.versions)'
      BY <1>1, <3>1, <3>3 DEF Lacks
    <3>7. call'[k].at \in {"store", "decide"} => Sighted(call[k].dag)'
      BY <3>1, <3>4 DEF Sighted, Parents
    <3> QED BY <1>1, <2>2, <3>1, <3>5, <3>6, <3>7 DEF Request
  <2> QED BY <2>3, <2>4
<1>5. CacheOK'
  <2> SUFFICES ASSUME cache # NoDAG PROVE Sighted(cache)' /\ Covers(cache.versions)'
    BY <1>1 DEF CacheOK
  <2>1. cache \in Graph /\ Sighted(cache) /\ Covers(cache.versions)
    BY DEF HInv, CacheOK, Types
  <2>2. /\ Parents(cache) \cap db'.versions \subseteq bore'
        /\ Over' \/ \A v \in Parents(cache) : v[1] <= db'.highWater
    BY <2>1, SightedKept
  <2>3. \A m \in tx.db.versions \ cache.versions : m[1] = tx.db.highWater BY <1>3, <2>1
  <2> QED BY <1>1, <2>2, <2>3 DEF Sighted, Parents, Covers
<1>6. Pending' BY <1>1 DEF Pending
<1>7. (Parents(db) \subseteq bore)' BY <1>1 DEF Parents
<1> QED BY <1>4, <1>5, <1>6, <1>7 DEF HInv

LEMMA CrashHeads == ASSUME HInv, Crash PROVE HInv'
<1>1. /\ db' = db /\ bore' = bore /\ tx' = NoTx /\ cache' = NoDAG
      /\ \A c \in Clients : call'[c] = NoCall
  BY DEF Crash
<1>2. NoCall.at = "idle" /\ NoCall.list = NoList BY NoCallOK
<1>3. Requests' BY <1>1, <1>2 DEF Requests, Request, HasDAG, NoList
<1>4. CacheOK' /\ Pending' BY <1>1 DEF CacheOK, Pending
<1>5. (Parents(db) \subseteq bore)' BY <1>1 DEF HInv, Parents
<1> QED BY <1>3, <1>4, <1>5 DEF HInv

LEMMA InitHeads == Init => HInv
<1> SUFFICES ASSUME Init PROVE HInv OBVIOUS
<1>1. db.edges = {} /\ tx = NoTx /\ cache = NoDAG /\ \A c \in Clients : call[c] = NoCall
  BY DEF Init, EmptyDB
<1>2. NoCall.at = "idle" /\ NoCall.list = NoList BY NoCallOK
<1>3. Requests BY <1>1, <1>2 DEF Requests, Request, HasDAG, NoList
<1>4. Parents(db) \subseteq bore BY <1>1 DEF Parents
<1> QED BY <1>1, <1>3, <1>4 DEF HInv, CacheOK, Pending

LEMMA NextHeads ==
    ASSUME OneLife, Types, Life, HInv, [Next]_vars PROVE HInv'
<1>1. ASSUME NEW c \in Clients, Document(c) PROVE HInv'
  BY <1>1, CreateHeads, UpdateHeads, StartHeads, DeleteHeads DEF Document
<1>2. ASSUME NEW c \in Clients, Branching(c) PROVE HInv'
  BY <1>2, StartHeads, ForkHeads, MarkHeads, MergeTipHeads, RevertHeadHeads, RevertTipHeads
  DEF Branching
<1>3. ASSUME NEW c \in Clients, Retention(c) PROVE HInv'
  BY <1>3, StartHeads, ListHeads, LoadDAGHeads, QueryVersionsHeads, QueryParentsHeads,
     StoreDAGHeads, AbandonHeads, PruneHeads
  DEF Retention
<1>4. ASSUME NEW c \in Clients, Fail(c) PROVE HInv' BY <1>4, FailHeads
<1>5. CASE UNCHANGED vars
  <2>1. /\ db' = db /\ tx' = tx /\ cache' = cache /\ moved' = moved /\ call' = call
        /\ created' = created /\ bore' = bore
    BY <1>5 DEF vars
  <2>2. Requests' /\ CacheOK'
    BY <2>1 DEF HInv, Requests, Request, CacheOK, Covers, Lacks, Sighted, Over, Parents
  <2>3. Pending' BY <2>1 DEF HInv, Pending, Sound
  <2>4. (Parents(db) \subseteq bore)' BY <2>1 DEF HInv, Parents
  <2> QED BY <2>2, <2>3, <2>4 DEF HInv
<1> QED BY <1>1, <1>2, <1>3, <1>4, <1>5, CommitHeads, CrashHeads DEF Next

LEMMA HeadsInvariant == ASSUME OneLife PROVE Spec => []HInv
<1>1. Types /\ Life /\ HInv /\ [Next]_vars => HInv' BY NextHeads
<1> QED BY <1>1, InitHeads, TypesInvariant, LifeInvariant, PTL DEF Spec

-----------------------------------------------------------------------------
(* The theorem. *)

\* No step but the deletion of the document removes a live head that has never
\* had a child (LiveHeadsRetained), although any number of requests prune, merge,
\* revert and abandon at once and each decides by a list and a DAG of its own; the
\* document is created once and every policy keeps a count.
THEOREM PruneSparesLiveHeads == ASSUME OneLife PROVE Spec => LiveHeadsRetained
<1>1. Types /\ HInv /\ [Next]_vars =>
          [db'.doc # NoDoc => LiveHeads(db) \ bore \subseteq db'.versions]_vars
  <2> SUFFICES ASSUME Types, HInv, Next, db'.doc # NoDoc
               PROVE  LiveHeads(db) \ bore \subseteq db'.versions
    OBVIOUS
  <2>1. CASE db' = db BY <2>1 DEF LiveHeads, Heads
  <2>2. CASE Commit
    <3>1. tx # NoTx /\ db' = tx.db BY <2>2 DEF Commit
    <3> QED BY <3>1 DEF HInv, Pending, Sound
  <2>3. Commit \/ db' = db
    <3>1. ASSUME NEW c \in Clients, ReadStep(c) PROVE db' = db BY <3>1 DEF ReadStep
    <3>2. ASSUME NEW c \in Clients, WriteStep(c) PROVE db' = db
      BY <3>2 DEF WriteStep, Begin
    <3>3. Crash => db' = db BY DEF Crash
    <3> QED BY <3>1, <3>2, <3>3, StepKinds
  <2> QED BY <2>1, <2>2, <2>3
<1> QED BY <1>1, TypesInvariant, HeadsInvariant, PTL DEF Spec, LiveHeadsRetained
=============================================================================
