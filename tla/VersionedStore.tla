--------------------------- MODULE VersionedStore ---------------------------
(***************************************************************************)
(* The versioned document store of kit serve (engine/store): one document, *)
(* its version DAG in SQLite, the process-wide DAG cache, and concurrent   *)
(* HTTP requests that create, update, fork, merge, revert, abandon and     *)
(* prune it.                                                               *)
(*                                                                         *)
(* db is the committed database; a write transaction (BEGIN IMMEDIATE)     *)
(* holds the one write lock in tx from the end of its body to its COMMIT,  *)
(* and the DAG cache is invalidated in the body, before the COMMIT.  Every *)
(* read is its own statement and sees what is committed when it runs.      *)
(***************************************************************************)
EXTENDS Naturals, FiniteSets

CONSTANTS
    Clients,    \* requests being served at once
    Writers,    \* the clients that create, update, fork and delete
    Retirers,   \* the clients that merge, revert, abandon and prune
    Data,       \* document contents
    NoDoc, NoTx, NoDAG,
    Policies,   \* retention policies: maxVersions (0: none), maxAge (is it set)
    MaxSeq,     \* bound: versions appended to a document
    MaxCreates  \* bound: times the document is created

ASSUME ClientsAssumption ==
    IsFiniteSet(Clients) /\ Writers \subseteq Clients /\ Retirers \subseteq Clients
ASSUME DataAssumption == IsFiniteSet(Data) /\ NoDoc \notin Data
ASSUME PoliciesAssumption == Policies \subseteq [maxVersions : Nat, maxAge : BOOLEAN]
ASSUME BoundsAssumption == MaxSeq \in Nat /\ MaxCreates \in Nat

VARIABLES
    db,      \* the committed rows
    tx,      \* the open write transaction: its owner, its rows, what follows
    cache,   \* dagCache[key], NoDAG when there is no entry
    moved,   \* the clients building a DAG from an older generation than dagGen[key]
    call,    \* per client: the request it serves and how far it got
    created, \* documents created so far
    cut,     \* history: a merge or revert ended after it marked a head dead
    bore     \* history: the versions that have had a child

vars == <<db, tx, cache, moved, call, created, cut, bore>>

-----------------------------------------------------------------------------
(* Versions and graphs. *)

\* A version_id is a digest of the sequence number and the data.
Vid == (1 .. MaxSeq) \X Data
Graph == [versions : SUBSET Vid, edges : SUBSET (Vid \X Vid)]

\* An edge goes from a version to its parent.
Children(g, v) == {w \in g.versions : <<w, v>> \in g.edges}
Heads(g) == {v \in g.versions : Children(g, v) = {}}

\* The exclusive ancestors of the versions in vs.
Ancestors(g, vs) ==
    LET up[n \in 0 .. MaxSeq] ==
            IF n = 0 THEN {e[2] : e \in {x \in g.edges : x[1] \in vs}}
            ELSE up[n - 1] \cup {e[2] : e \in {x \in g.edges : x[1] \in up[n - 1]}}
    IN  up[MaxSeq]

\* The row with the highest seq, as the set parentsFor returns.
Latest(d) == {v \in d.versions : \A w \in d.versions : w[1] <= v[1]}
LiveHeads(d) == Heads(d) \ d.dead

-----------------------------------------------------------------------------
(* The bodies of the write transactions: the rows they leave. *)

EmptyDB == [doc |-> NoDoc, versions |-> {}, dead |-> {}, edges |-> {},
            highWater |-> 0, blobs |-> [x \in Data |-> 0]]

\* Mutant: the parents are not looked up.
AnyParents(d, parents) == d.highWater < MaxSeq

\* appendVersionTx refuses a parent that is not a row of the document.
CanAppend(d, parents) == d.highWater < MaxSeq /\ parents \subseteq d.versions

NextVid(d, x) == <<d.highWater + 1, x>>

\* upsertSnapshotBlob: equal contents share a blob.
Hold(d, x) == [d.blobs EXCEPT ![x] = @ + 1]

\* appendVersionTx: a live row, its edges, its blob and the counter.
AppendVersion(d, x, parents) ==
    [d EXCEPT !.versions = @ \cup {NextVid(d, x)},
              !.edges = @ \cup ({NextVid(d, x)} \X parents),
              !.highWater = @ + 1,
              !.blobs = Hold(d, x)]

\* setLiveTx with live = false; the caller checks the row and its children.
SetDead(d, v) == [d EXCEPT !.dead = @ \cup {v}]

\* Mutant: a blob that two doomed versions share is released once.
ReleaseOnce(d, gone) ==
    [x \in Data |-> IF \E v \in gone : v[2] = x THEN d.blobs[x] - 1 ELSE d.blobs[x]]

\* decrementSnapshotBlob, once per hash with the number of versions released.
Release(d, gone) ==
    [x \in Data |-> d.blobs[x] - Cardinality({v \in gone : v[2] = x})]

\* Mutant: only the edges of the doomed versions to their parents go.
DeleteParentEdges(d, ids) ==
    [d EXCEPT !.versions = @ \ ids,
              !.dead = @ \ ids,
              !.edges = {e \in @ : e[1] \notin ids},
              !.blobs = Release(d, ids \cap d.versions)]

\* deleteVersionsTx: ids that are not rows are ignored, the edges go on both
\* sides.
DeleteVersions(d, ids) ==
    [d EXCEPT !.versions = @ \ ids,
              !.dead = @ \ ids,
              !.edges = {e \in @ : e[1] \notin ids /\ e[2] \notin ids},
              !.blobs = Release(d, ids \cap d.versions)]

\* deleteConn and deleteHistoryTx: the document, its rows and its counter.
DeleteHistory(d) ==
    [EmptyDB EXCEPT !.blobs = Release(d, d.versions)]

-----------------------------------------------------------------------------
(* Retention. *)

\* ls is what ListVersions returned; the versions up to seq old are over age.
PolicyExceeds(v, ls, policy, old) ==
    LET hasCount == policy.maxVersions > 0
        fromTail == Cardinality({w \in ls.versions : w[1] >= v[1]})
    IN  /\ hasCount \/ policy.maxAge
        /\ hasCount => fromTail > policy.maxVersions
        /\ policy.maxAge => v[1] <= old

\* Mutant: the floor holds the ancestors of the live heads and not the heads.
PrunableNoHeads(ls, g, policy, old) ==
    LET liveHeads == {h \in Heads(g) : h \in ls.versions \ ls.dead}
    IN  IF liveHeads = {} THEN {}
        ELSE {v \in ls.versions \ Ancestors(g, liveHeads) :
                    PolicyExceeds(v, ls, policy, old)}

ComputePrunable(ls, g, policy, old) ==
    LET liveHeads == {h \in Heads(g) : h \in ls.versions \ ls.dead}
        retainFloor == liveHeads \cup Ancestors(g, liveHeads)
        candidates[n \in 0 .. MaxSeq] ==
            IF n = 0
            THEN {v \in ls.versions \ retainFloor : PolicyExceeds(v, ls, policy, old)}
            ELSE {v \in candidates[n - 1] : Children(g, v) \subseteq candidates[n - 1]}
    IN  IF liveHeads = {} THEN {} ELSE candidates[MaxSeq]

-----------------------------------------------------------------------------
(* Requests. *)

NoList == [versions |-> {}, dead |-> {}]

\* at: the next step; list: what ListVersions returned; picked: the versions
\* the request names; dag: the DAG it loaded; half: it has marked a head dead
\* and not yet appended the version that replaces it; beaten (history): another
\* conditional update of the version this one names has committed.
NoCall == [op |-> "none", at |-> "idle", list |-> NoList, picked |-> <<>>,
           dag |-> NoDAG, half |-> FALSE, beaten |-> FALSE]

Idle(c) == call[c].at = "idle"
Writing(c) == Idle(c) /\ c \in Writers
Retiring(c) == Idle(c) /\ c \in Retirers
At(c, op, at) == call[c].op = op /\ call[c].at = at

Building(c) == call[c].at \in {"versions", "parents", "store"}

Start(c, op, at, picked) ==
    call' = [call EXCEPT ![c] = [NoCall EXCEPT !.op = op, !.at = at, !.picked = picked]]

\* BEGIN IMMEDIATE and the body: the rows are not visible yet, the cached DAG
\* is dropped and the generation moves.
Begin(c, d, then) ==
    /\ tx = NoTx
    /\ tx' = [owner |-> c, db |-> d, then |-> then]
    /\ cache' = NoDAG
    /\ moved' = {k \in Clients : Building(k)}
    /\ call' = [call EXCEPT ![c].at = "commit"]
    /\ UNCHANGED <<db, cut, bore>>

SameMatch(c, k) ==
    call[c].op = "match" /\ call[k].op = "match" /\ call[c].picked = call[k].picked

Commit ==
    /\ tx # NoTx
    /\ db' = tx.db
    /\ call' = [c \in Clients |->
                  IF c = tx.owner THEN tx.then
                  ELSE [call[c] EXCEPT !.beaten = @ \/ SameMatch(c, tx.owner)]]
    /\ tx' = NoTx
    /\ bore' = (bore \cap tx.db.versions) \cup {e[2] : e \in tx.db.edges}
    /\ UNCHANGED <<cache, moved, created, cut>>

\* A request ends with an error: its context is cancelled, or a step finds
\* that a row it needs is gone, not a head, or not what it expects.
Fail(c) ==
    /\ call[c].at \notin {"idle", "commit"}
    /\ cut' = (cut \/ call[c].half)
    /\ call' = [call EXCEPT ![c] = NoCall]
    /\ moved' = moved \ {c}
    /\ UNCHANGED <<db, tx, cache, created, bore>>

\* The process restarts: SQLite rolls back, the cache and the requests go.
Crash ==
    /\ cut' = (cut \/ \E c \in Clients : call[c].half)
    /\ tx' = NoTx
    /\ cache' = NoDAG
    /\ moved' = {}
    /\ call' = [c \in Clients |-> NoCall]
    /\ UNCHANGED <<db, created, bore>>

-----------------------------------------------------------------------------
(* Create, Update, Delete: one transaction for the document and its version. *)

Create(c) ==
    /\ Writing(c)
    /\ created < MaxCreates
    /\ db.doc = NoDoc
    /\ CanAppend(db, {})
    /\ \E x \in Data : Begin(c, AppendVersion([db EXCEPT !.doc = x], x, {}), NoCall)
    /\ created' = created + 1

UpdateTx(c, x) ==
    /\ db.doc # NoDoc
    /\ CanAppend(db, Latest(db))
    /\ Begin(c, AppendVersion([db EXCEPT !.doc = x], x, Latest(db)), NoCall)
    /\ UNCHANGED created

Update(c) == Writing(c) /\ \E x \in Data : UpdateTx(c, x)

\* CurrentVersionID: the value a client sends back as its precondition.
ReadCurrent(c) ==
    /\ Writing(c)
    /\ \E v \in Latest(db) : Start(c, "match", "update", <<v>>)
    /\ UNCHANGED <<db, tx, cache, moved, created, cut, bore>>

\* Mutant: the precondition is checked before the transaction, not in it.
UpdateUnchecked(c) ==
    /\ At(c, "match", "update")
    /\ \E x \in Data : UpdateTx(c, x)

\* updateTxIfMatch: check and write in one transaction.
UpdateIfMatch(c) ==
    /\ At(c, "match", "update")
    /\ Latest(db) = {call[c].picked[1]}
    /\ \E x \in Data : UpdateTx(c, x)

Delete(c) ==
    /\ Writing(c)
    /\ db.doc # NoDoc
    /\ Begin(c, DeleteHistory(db), NoCall)
    /\ UNCHANGED created

-----------------------------------------------------------------------------
(* Fork, Merge, Revert: ListVersions, then transactions of their own. *)

ForkList(c) ==
    /\ Writing(c)
    /\ \E v \in db.versions : Start(c, "fork", "append", <<v>>)
    /\ UNCHANGED <<db, tx, cache, moved, created, cut, bore>>

Fork(c) ==
    LET source == call[c].picked[1]
    IN  /\ At(c, "fork", "append")
        /\ CanAppend(db, {source})
        /\ Begin(c, AppendVersion(db, source[2], {source}), NoCall)
        /\ UNCHANGED created

\* SetLive(v, false), then the step next; a version with children is left
\* alone and the request goes on.
MarkDead(c, v, next) ==
    /\ v \in db.versions
    /\ UNCHANGED created
    /\ IF Children(db, v) = {}
       THEN Begin(c, SetDead(db, v), [call[c] EXCEPT !.at = next, !.half = TRUE])
       ELSE /\ tx = NoTx
            /\ call' = [call EXCEPT ![c].at = next]
            /\ UNCHANGED <<db, tx, cache, moved, cut, bore>>

MergeList(c) ==
    /\ Retiring(c)
    /\ \E s, t \in db.versions : s # t /\ Start(c, "merge", "source", <<s, t>>)
    /\ UNCHANGED <<db, tx, cache, moved, created, cut, bore>>

MergeSource(c) == At(c, "merge", "source") /\ MarkDead(c, call[c].picked[1], "target")
MergeTarget(c) == At(c, "merge", "target") /\ MarkDead(c, call[c].picked[2], "tip")

MergeTip(c) ==
    LET parents == {call[c].picked[1], call[c].picked[2]}
    IN  /\ At(c, "merge", "tip")
        /\ CanAppend(db, parents)
        /\ \E x \in Data : Begin(c, AppendVersion(db, x, parents), NoCall)
        /\ UNCHANGED created

RevertList(c) ==
    /\ Retiring(c)
    /\ \E v \in db.versions : Start(c, "revert", "head", <<v>>)
    /\ UNCHANGED <<db, tx, cache, moved, created, cut, bore>>

\* parentsFor: the pre-revert head, read again; none skips the mark.
RevertHead(c) ==
    /\ At(c, "revert", "head")
    /\ \/ /\ Latest(db) = {}
          /\ call' = [call EXCEPT ![c].at = "tip"]
       \/ \E h \in Latest(db) :
              call' = [call EXCEPT ![c].at = "mark", ![c].picked = <<@[1], h>>]
    /\ UNCHANGED <<db, tx, cache, moved, created, cut, bore>>

RevertMark(c) == At(c, "revert", "mark") /\ MarkDead(c, call[c].picked[2], "tip")

RevertTip(c) == At(c, "revert", "tip") /\ UpdateTx(c, call[c].picked[1][2])

-----------------------------------------------------------------------------
(* Branches, Abandon, Prune: ListVersions, LoadDAG, a decision, a write. *)

List(c, op, picked) ==
    /\ call' = [call EXCEPT ![c] =
           [NoCall EXCEPT !.op = op, !.at = "load", !.picked = picked,
                          !.list = [versions |-> db.versions, dead |-> db.dead]]]
    /\ UNCHANGED <<db, tx, cache, moved, created, cut, bore>>

\* Only the cached DAG outlives a Branches; what it returns is not modelled.
Branches(c) ==
    /\ Idle(c)
    /\ db.versions # {}
    /\ Start(c, "branches", "load", <<>>)
    /\ UNCHANGED <<db, tx, cache, moved, created, cut, bore>>

AbandonList(c) == Retiring(c) /\ \E v \in db.versions \ db.dead : List(c, "abandon", <<v>>)
PruneList(c) == Retiring(c) /\ db.versions # {} /\ List(c, "prune", <<>>)

\* The caller has its DAG: Branches returns, the others decide.
Loaded(c, g) ==
    IF call[c].op = "branches" THEN NoCall ELSE [call[c] EXCEPT !.at = "decide", !.dag = g]

\* LoadDAG under the read lock: a hit, or the generation the build starts from.
LoadDAG(c) ==
    /\ call[c].at = "load"
    /\ IF cache # NoDAG
       THEN call' = [call EXCEPT ![c] = Loaded(c, cache)]
       ELSE call' = [call EXCEPT ![c].at = "versions"]
    /\ UNCHANGED <<db, tx, cache, moved, created, cut, bore>>

\* buildDAG, first statement: the version rows.
QueryVersions(c) ==
    /\ call[c].at = "versions"
    /\ call' = [call EXCEPT ![c].at = "parents",
                            ![c].dag = [versions |-> db.versions, edges |-> {}]]
    /\ UNCHANGED <<db, tx, cache, moved, created, cut, bore>>

\* Second statement: the edges of those rows; Append rejects an unknown parent.
QueryParents(c) ==
    LET found == {e \in db.edges : e[1] \in call[c].dag.versions}
    IN  /\ call[c].at = "parents"
        /\ \A e \in found : e[2] \in call[c].dag.versions
        /\ call' = [call EXCEPT ![c].at = "store", ![c].dag.edges = found]
        /\ UNCHANGED <<db, tx, cache, moved, created, cut, bore>>

\* LoadDAG under the write lock: another loader's DAG, this one uncached when
\* the generation has moved, or this one cached.
StoreDAG(c) ==
    LET g == IF cache # NoDAG THEN cache ELSE call[c].dag
    IN  /\ call[c].at = "store"
        /\ call' = [call EXCEPT ![c] = Loaded(c, g)]
        /\ cache' = IF c \in moved THEN cache ELSE g
        /\ moved' = moved \ {c}
        /\ UNCHANGED <<db, tx, created, cut, bore>>

\* Abandon: refused for a version with children and for the last live head,
\* by the list and the DAG it read; SetLive checks the row and its children
\* again.
Abandon(c) ==
    LET target == call[c].picked[1]
        dag == call[c].dag
        liveHeads == {h \in Heads(dag) : h \in call[c].list.versions \ call[c].list.dead}
    IN  /\ At(c, "abandon", "decide")
        /\ Children(dag, target) = {}
        /\ Cardinality(liveHeads) > 1
        /\ target \in db.versions
        /\ Children(db, target) = {}
        /\ Begin(c, SetDead(db, target), NoCall)
        /\ UNCHANGED created

\* Prune: DeleteVersions of what the list and the DAG make prunable.
Prune(c) ==
    /\ At(c, "prune", "decide")
    /\ \E policy \in Policies : \E old \in IF policy.maxAge THEN 0 .. MaxSeq ELSE {0} :
           LET ids == ComputePrunable(call[c].list, call[c].dag, policy, old)
           IN  ids # {} /\ Begin(c, DeleteVersions(db, ids), NoCall)
    /\ UNCHANGED created

-----------------------------------------------------------------------------
(* The specification. *)

Init ==
    /\ db = EmptyDB
    /\ tx = NoTx
    /\ cache = NoDAG
    /\ moved = {}
    /\ call = [c \in Clients |-> NoCall]
    /\ created = 0
    /\ cut = FALSE
    /\ bore = {}

Document(c) == Create(c) \/ Update(c) \/ ReadCurrent(c) \/ UpdateIfMatch(c) \/ Delete(c)
Branching(c) ==
    \/ ForkList(c) \/ Fork(c)
    \/ MergeList(c) \/ MergeSource(c) \/ MergeTarget(c) \/ MergeTip(c)
    \/ RevertList(c) \/ RevertHead(c) \/ RevertMark(c) \/ RevertTip(c)
Retention(c) ==
    \/ Branches(c) \/ AbandonList(c) \/ PruneList(c)
    \/ LoadDAG(c) \/ QueryVersions(c) \/ QueryParents(c) \/ StoreDAG(c)
    \/ Abandon(c) \/ Prune(c)

Next ==
    \/ \E c \in Clients : Document(c) \/ Branching(c) \/ Retention(c) \/ Fail(c)
    \/ Commit
    \/ Crash

Spec == Init /\ [][Next]_vars

-----------------------------------------------------------------------------
(* Properties. *)

Rows == [doc : Data \cup {NoDoc}, versions : SUBSET Vid, dead : SUBSET Vid,
         edges : SUBSET (Vid \X Vid), highWater : 0 .. MaxSeq, blobs : [Data -> Nat]]

\* Edges and dead bits belong to rows (the foreign keys of version_parents and
\* the live column of versions), an edge goes to an older version, and no row
\* is newer than the counter that issues sequence numbers.
WellFormed(d) ==
    /\ d.dead \subseteq d.versions
    /\ \A e \in d.edges : e[1] \in d.versions /\ e[2] \in d.versions /\ e[2][1] < e[1][1]
    /\ \A v \in d.versions : v[1] <= d.highWater

\* Type invariant of the rows, of the open transaction and of the cache.
TypeOK ==
    /\ db \in Rows /\ WellFormed(db)
    /\ tx # NoTx => tx.owner \in Clients /\ tx.db \in Rows /\ WellFormed(tx.db)
    /\ cache # NoDAG => cache \in Graph
    /\ moved \subseteq Clients

\* A document has a live head, except while a Merge or a Revert is between
\* marking the old heads dead and appending the new one, or when one was cut
\* short there (versionstore.go, ErrCannotAbandonLastLiveHead: "At least one live
\* head must always exist so the prune retain-floor ... is non-empty").
SomeLiveHead ==
    db.versions # {} =>
        LiveHeads(db) # {} \/ cut \/ \E c \in Clients : call[c].half

\* The refcount of a snapshot blob is the number of versions that hold it, so
\* that no prune or delete frees a blob in use or leaks one.
BlobsCounted ==
    \A x \in Data : db.blobs[x] = Cardinality({v \in db.versions : v[2] = x})

\* Of two conditional updates that name the same version, one that is still
\* waiting when the other commits does not write (UpdateAndVersionIfMatch).
NoLostUpdate == tx # NoTx => ~call[tx.owner].beaten

\* A document exists exactly when it has history: a Fork, Merge or Revert that
\* listed the versions before a Delete leaves nothing behind it, and no prune
\* empties the history of a document.
DocumentHasHistory == (db.doc # NoDoc) <=> (db.versions # {})

\* No request removes a live head, the end of a line of work, short of deleting
\* the document, although a Prune decides by a list and a DAG that are out of
\* date (versioned.go, Prune: "Live heads are always retained.").  A version that
\* is a head again because its dead children were pruned is not the end of one.
LiveHeadsRetained ==
    [][db'.doc # NoDoc => LiveHeads(db) \ bore \subseteq db'.versions]_vars
=============================================================================
