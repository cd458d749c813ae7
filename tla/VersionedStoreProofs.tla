------------------------ MODULE VersionedStoreProofs ------------------------
(***************************************************************************)
(* Proofs about VersionedStore, for any number of requests at once, any    *)
(* contents and any number of versions.  What is proved of the rows holds  *)
(* for every policy; what is proved of the history of a document holds for *)
(* one that is created once and pruned by policies that keep a count.      *)
(***************************************************************************)
EXTENDS VersionedStore, FiniteSetTheorems, WellFoundedInduction, Sequences, TLAPS

-----------------------------------------------------------------------------
(* The inductive invariant of the rows. *)

Lists == [versions : SUBSET Vid, dead : SUBSET Vid]
Ops == {"none", "match", "fork", "merge", "revert", "branches", "abandon", "prune"}
Places == {"idle", "update", "append", "source", "target", "head", "mark", "tip", "load",
           "versions", "parents", "store", "decide", "commit"}
CallRecords ==
    [op : Ops, at : Places, list : Lists, picked : Seq(Vid), dag : Graph \cup {NoDAG},
     half : BOOLEAN, beaten : BOOLEAN]

\* The refcounts of d are the numbers of versions that hold the blobs.
Counted(d) == \A x \in Data : d.blobs[x] = Cardinality({v \in d.versions : v[2] = x})

\* Rows that a database may hold.
RowsOK(d) == d \in Rows /\ WellFormed(d) /\ Counted(d)

\* A request in this state has what its next step uses.
CallOK(r) ==
    /\ r \in CallRecords
    /\ r.at \in {"parents", "store", "decide"} => r.dag \in Graph
    /\ r.op \in {"match", "revert"} => r.picked # <<>>
    /\ r.at = "idle" => r.op = "none" /\ r.list = NoList
    /\ r.beaten => r.op = "match"

Types ==
    /\ RowsOK(db)
    /\ tx # NoTx => /\ tx.owner \in Clients /\ RowsOK(tx.db) /\ CallOK(tx.then)
    /\ cache # NoDAG => cache \in Graph
    /\ moved \subseteq Clients
    /\ call \in [Clients -> CallRecords] /\ \A c \in Clients : CallOK(call[c])
    /\ created \in Nat

-----------------------------------------------------------------------------
(* The inductive invariant of the history. *)

\* A document is created once, and no prune is by age alone.
OneLife == MaxCreates <= 1 /\ \A p \in Policies : p.maxVersions > 0

\* Sequence numbers are not reused, the newest version is still a row, and
\* there are rows exactly when there is a document.
History(d) ==
    /\ \A v, w \in d.versions : v[1] = w[1] => v = w
    /\ d.versions # {} => \E v \in d.versions : v[1] = d.highWater
    /\ (d.doc # NoDoc) <=> (d.versions # {})

\* The document has been created and is gone for good.
Over == created >= 1 /\ db.versions = {} /\ (tx # NoTx => tx.db.versions = {})

\* The transaction's owner waits for its COMMIT; what it does next is to end, or
\* to go on with what it has read.
Owners ==
    tx # NoTx => /\ call[tx.owner].at = "commit"
                 /\ tx.then.at # "commit" /\ ~tx.then.beaten
                 /\ tx.then.list \in {NoList, call[tx.owner].list}

\* A transaction appends or deletes; rows are there after the creation only.
Follows ==
    /\ created <= 1
    /\ db.versions # {} => created = 1
    /\ tx # NoTx => /\ created = 1
                    /\ tx.db.versions = {} \/ tx.db.highWater >= db.highWater
                    /\ History(tx.db)

\* What a request has read is no newer than the counter.
Reads ==
    \A c \in Clients :
        /\ call[c].list.versions # {} => created = 1
        /\ \A v, w \in call[c].list.versions : v[1] = w[1] => v = w
        /\ \A v \in call[c].list.versions : v[1] <= db.highWater \/ Over

\* A conditional update that was beaten names a version that is not the newest.
Beaten ==
    /\ \A c \in Clients :
           call[c].beaten => call[c].picked[1][1] < db.highWater \/ Over
    /\ tx # NoTx =>
           /\ ~call[tx.owner].beaten
           /\ call[tx.owner].op = "match" => call[tx.owner].picked[1][1] < tx.db.highWater

Life == History(db) /\ Owners /\ Follows /\ Reads /\ Beaten

IInv == Types /\ Life

-----------------------------------------------------------------------------
(* What the bodies of the transactions do to the rows. *)

LEMMA VidFacts ==
    /\ IsFiniteSet(Vid)
    /\ \A v \in Vid : v[1] \in 1 .. MaxSeq /\ v[2] \in Data /\ v = <<v[1], v[2]>>
<1>1. IsFiniteSet(1 .. MaxSeq) BY FS_Interval, BoundsAssumption
<1>2. IsFiniteSet((1 .. MaxSeq) \X Data) BY <1>1, DataAssumption, FS_Product
<1> QED BY <1>2 DEF Vid

\* The versions that hold x in a set of versions.
Holders(S, x) == {v \in S : v[2] = x}

LEMMA HoldersFacts ==
    ASSUME NEW S \in SUBSET Vid, NEW x
    PROVE  IsFiniteSet(Holders(S, x)) /\ Cardinality(Holders(S, x)) \in Nat
<1>1. Holders(S, x) \in SUBSET Vid BY DEF Holders
<1>2. IsFiniteSet(Holders(S, x)) BY <1>1, VidFacts, FS_Subset
<1> QED BY <1>2, FS_CardinalityType

LEMMA CountedHolders ==
    ASSUME NEW d
    PROVE  Counted(d) <=> \A x \in Data : d.blobs[x] = Cardinality(Holders(d.versions, x))
BY DEF Counted, Holders

LEMMA EmptyOK == RowsOK(EmptyDB)
<1>1. EmptyDB \in Rows BY BoundsAssumption DEF EmptyDB, Rows
<1>2. WellFormed(EmptyDB) BY DEF EmptyDB, WellFormed
<1>3. Counted(EmptyDB)
  <2>1. \A x \in Data : {v \in {} : v[2] = x} = {} OBVIOUS
  <2> QED BY <2>1, FS_EmptySet DEF EmptyDB, Counted
<1> QED BY <1>1, <1>2, <1>3 DEF RowsOK

\* The fields of a row record, and of one whose document is set.
LEMMA RowsFields ==
    ASSUME NEW d \in Rows
    PROVE  /\ d.doc \in Data \cup {NoDoc} /\ d.versions \in SUBSET Vid
           /\ d.dead \in SUBSET Vid /\ d.edges \in SUBSET (Vid \X Vid)
           /\ d.highWater \in 0 .. MaxSeq /\ d.blobs \in [Data -> Nat]
BY DEF Rows

LEMMA SetDocOK ==
    ASSUME NEW d, RowsOK(d), NEW x \in Data
    PROVE  /\ RowsOK([d EXCEPT !.doc = x])
           /\ [d EXCEPT !.doc = x].doc = x
           /\ [d EXCEPT !.doc = x].versions = d.versions
           /\ [d EXCEPT !.doc = x].edges = d.edges
           /\ [d EXCEPT !.doc = x].highWater = d.highWater
<1> DEFINE e == [d EXCEPT !.doc = x]
<1>1. d \in Rows BY DEF RowsOK
<1>2. /\ e.doc = x /\ e.versions = d.versions /\ e.dead = d.dead /\ e.edges = d.edges
      /\ e.highWater = d.highWater /\ e.blobs = d.blobs /\ e \in Rows
  BY <1>1 DEF Rows
<1> HIDE DEF e
<1>3. RowsOK(e) BY <1>2 DEF RowsOK, WellFormed, Counted
<1> QED BY <1>2, <1>3 DEF e

\* appendVersionTx: the new row is the newest, and its blob counts it.
LEMMA AppendOK ==
    ASSUME NEW d, RowsOK(d), NEW x \in Data, NEW parents, CanAppend(d, parents)
    PROVE  LET e == AppendVersion(d, x, parents)
           IN  /\ RowsOK(e)
               /\ e.doc = d.doc
               /\ e.versions = d.versions \cup {<<d.highWater + 1, x>>}
               /\ e.highWater = d.highWater + 1
<1> DEFINE n == NextVid(d, x)
           e == AppendVersion(d, x, parents)
<1>1. /\ d \in Rows /\ d.highWater \in 0 .. MaxSeq /\ d.highWater + 1 \in 1 .. MaxSeq
      /\ d.versions \in SUBSET Vid /\ parents \subseteq d.versions
      /\ d.blobs \in [Data -> Nat] /\ d.edges \in SUBSET (Vid \X Vid)
      /\ d.dead \in SUBSET Vid
  BY BoundsAssumption, RowsFields DEF RowsOK, CanAppend
<1>2. n \in Vid /\ n = <<d.highWater + 1, x>> /\ n[1] = d.highWater + 1 /\ n[2] = x
  BY <1>1 DEF NextVid, Vid
<1>3. n \notin d.versions
  <2>1. \A v \in d.versions : v[1] <= d.highWater BY DEF RowsOK, WellFormed
  <2> QED BY <1>1, <1>2, <2>1
<1> HIDE DEF n
<1>4. /\ e.doc = d.doc /\ e.versions = d.versions \cup {n} /\ e.dead = d.dead
      /\ e.edges = d.edges \cup ({n} \X parents)
      /\ e.highWater = d.highWater + 1 /\ e.blobs = [d.blobs EXCEPT ![x] = @ + 1]
      /\ e = [d EXCEPT !.versions = d.versions \cup {n}, !.edges = d.edges \cup ({n} \X parents),
                       !.highWater = d.highWater + 1,
                       !.blobs = [d.blobs EXCEPT ![x] = @ + 1]]
  BY <1>1 DEF AppendVersion, Hold, Rows, n
<1>5. e \in Rows
  <2>1. {n} \X parents \subseteq Vid \X Vid BY <1>1, <1>2
  <2>2. [d.blobs EXCEPT ![x] = @ + 1] \in [Data -> Nat] BY <1>1
  <2>3. d.edges \cup ({n} \X parents) \in SUBSET (Vid \X Vid) BY <1>1, <2>1
  <2>4. d.versions \cup {n} \in SUBSET Vid BY <1>1, <1>2
  <2>5. d.highWater + 1 \in 0 .. MaxSeq BY <1>1
  <2> DEFINE A == d.versions \cup {n}
             B == d.edges \cup ({n} \X parents)
             C == d.highWater + 1
             D == [d.blobs EXCEPT ![x] = @ + 1]
  <2>6. A \in SUBSET Vid /\ B \in SUBSET (Vid \X Vid) /\ C \in 0 .. MaxSeq /\ D \in [Data -> Nat]
    BY <2>2, <2>3, <2>4, <2>5
  <2>7. e = [d EXCEPT !.versions = A, !.edges = B, !.highWater = C, !.blobs = D] BY <1>4
  <2> HIDE DEF A, B, C, D, e
  <2> QED BY <1>1, <2>6, <2>7 DEF Rows
<1>6. WellFormed(e)
  <2>1. e.dead \subseteq e.versions BY <1>4 DEF RowsOK, WellFormed
  <2>2. \A v \in e.versions : v[1] <= e.highWater
    BY <1>1, <1>2, <1>4, VidFacts DEF RowsOK, WellFormed
  <2>3. ASSUME NEW k \in e.edges
        PROVE  k[1] \in e.versions /\ k[2] \in e.versions /\ k[2][1] < k[1][1]
    <3>1. CASE k \in d.edges BY <3>1, <1>4 DEF RowsOK, WellFormed
    <3>2. CASE k \in {n} \X parents
      <4>1. k[1] = n /\ k[2] \in parents BY <3>2
      <4>2. k[2][1] <= d.highWater /\ k[2][1] \in Nat
        BY <4>1, <1>1, VidFacts DEF RowsOK, WellFormed
      <4>3. k[2] \in e.versions /\ k[1] \in e.versions BY <4>1, <1>1, <1>4
      <4> QED BY <4>1, <4>2, <4>3, <1>1, <1>2
    <3> QED BY <3>1, <3>2, <1>4
  <2> QED BY <2>1, <2>2, <2>3 DEF WellFormed
<1>7. Counted(e)
  <2> SUFFICES ASSUME NEW y \in Data
               PROVE  e.blobs[y] = Cardinality(Holders(e.versions, y))
    BY CountedHolders
  <2>1. d.blobs[y] = Cardinality(Holders(d.versions, y)) BY CountedHolders DEF RowsOK
  <2>2. IsFiniteSet(Holders(d.versions, y)) BY <1>1, HoldersFacts
  <2>3. CASE y = x
    <3>1. /\ Holders(e.versions, y) = Holders(d.versions, y) \cup {n}
          /\ n \notin Holders(d.versions, y)
      BY <1>2, <1>3, <1>4, <2>3 DEF Holders
    <3>2. Cardinality(Holders(e.versions, y)) = Cardinality(Holders(d.versions, y)) + 1
      BY <2>2, <3>1, FS_AddElement
    <3>3. e.blobs[y] = d.blobs[y] + 1 BY <1>1, <1>4, <2>3
    <3> QED BY <2>1, <3>2, <3>3
  <2>4. CASE y # x
    <3>1. Holders(e.versions, y) = Holders(d.versions, y) BY <1>2, <1>4, <2>4 DEF Holders
    <3>2. e.blobs[y] = d.blobs[y] BY <1>1, <1>4, <2>4
    <3> QED BY <2>1, <3>1, <3>2
  <2> QED BY <2>3, <2>4
<1> HIDE DEF e
<1>8. RowsOK(e) BY <1>5, <1>6, <1>7 DEF RowsOK
<1> QED BY <1>2, <1>4, <1>8 DEF e

LEMMA SetDeadOK ==
    ASSUME NEW d, RowsOK(d), NEW v \in d.versions
    PROVE  /\ RowsOK(SetDead(d, v))
           /\ SetDead(d, v).doc = d.doc /\ SetDead(d, v).versions = d.versions
           /\ SetDead(d, v).highWater = d.highWater
<1> DEFINE e == SetDead(d, v)
<1>1. d \in Rows /\ v \in Vid BY RowsFields DEF RowsOK
<1>2. /\ e.doc = d.doc /\ e.versions = d.versions /\ e.dead = d.dead \cup {v}
      /\ e.edges = d.edges /\ e.highWater = d.highWater /\ e.blobs = d.blobs /\ e \in Rows
  BY <1>1 DEF SetDead, Rows
<1> HIDE DEF e
<1>3. RowsOK(e) BY <1>2 DEF RowsOK, WellFormed, Counted
<1> QED BY <1>2, <1>3 DEF e

\* decrementSnapshotBlob: what the versions that are gone held is released, and
\* the counts are those of the rows that stay.
LEMMA ReleaseOK ==
    ASSUME NEW d, RowsOK(d), NEW gone \in SUBSET d.versions
    PROVE  /\ Release(d, gone) \in [Data -> Nat]
           /\ \A x \in Data :
                  Release(d, gone)[x] = Cardinality(Holders(d.versions \ gone, x))
<1> SUFFICES ASSUME NEW x \in Data
             PROVE  /\ Release(d, gone)[x] \in Nat
                    /\ Release(d, gone)[x] = Cardinality(Holders(d.versions \ gone, x))
  BY DEF Release
<1>0. d.versions \in SUBSET Vid /\ gone \in SUBSET Vid BY RowsFields DEF RowsOK
<1> DEFINE S == Holders(d.versions, x)
           T == Holders(gone, x)
<1>1. IsFiniteSet(S) /\ Cardinality(S) \in Nat /\ Cardinality(T) \in Nat
  BY <1>0, HoldersFacts
<1>2. S \cap T = T /\ S \ T = Holders(d.versions \ gone, x) BY DEF Holders
<1>3. d.blobs[x] = Cardinality(S) BY CountedHolders DEF RowsOK
<1>4. Release(d, gone)[x] = d.blobs[x] - Cardinality(T) BY DEF Release, Holders
<1> HIDE DEF S, T
<1>5. Cardinality(S \ T) = Cardinality(S) - Cardinality(S \cap T)
  BY <1>1, FS_Difference
<1>6. Cardinality(S \ T) \in Nat BY <1>1, FS_Difference, FS_CardinalityType
<1> QED BY <1>2, <1>3, <1>4, <1>5, <1>6

\* deleteVersionsTx, with whatever ids the caller computed.
LEMMA DeleteVersionsOK ==
    ASSUME NEW d, RowsOK(d), NEW ids
    PROVE  LET e == DeleteVersions(d, ids)
           IN  RowsOK(e) /\ e.doc = d.doc /\ e.versions = d.versions \ ids
               /\ e.highWater = d.highWater
<1> DEFINE gone == ids \cap d.versions
           A == d.versions \ ids
           B == d.dead \ ids
           C == {k \in d.edges : k[1] \notin ids /\ k[2] \notin ids}
           D == Release(d, gone)
           e == DeleteVersions(d, ids)
<1>1. d \in Rows BY DEF RowsOK
<1>2. e = [d EXCEPT !.versions = A, !.dead = B, !.edges = C, !.blobs = D]
  BY DEF DeleteVersions
<1>3. /\ D \in [Data -> Nat]
      /\ \A x \in Data : D[x] = Cardinality(Holders(d.versions \ gone, x))
  BY ReleaseOK
<1>4. d.versions \ gone = A OBVIOUS
<1>5. /\ A \in SUBSET Vid /\ B \in SUBSET Vid /\ C \in SUBSET (Vid \X Vid)
      /\ B \subseteq A /\ A \subseteq d.versions
      /\ \A k \in C : k[1] \in A /\ k[2] \in A /\ k[2][1] < k[1][1]
  BY <1>1, RowsFields DEF RowsOK, WellFormed
<1> HIDE DEF A, B, C, D, e, gone
<1>6. /\ e \in Rows /\ e.doc = d.doc /\ e.versions = A /\ e.dead = B /\ e.edges = C
      /\ e.highWater = d.highWater /\ e.blobs = D
  BY <1>1, <1>2, <1>3, <1>5 DEF Rows
<1>7. WellFormed(e) BY <1>5, <1>6 DEF RowsOK, WellFormed
<1>8. Counted(e) BY <1>3, <1>4, <1>6, CountedHolders
<1> QED BY <1>6, <1>7, <1>8 DEF RowsOK, e, A

LEMMA DeleteHistoryOK ==
    ASSUME NEW d, RowsOK(d)
    PROVE  LET e == DeleteHistory(d)
           IN  RowsOK(e) /\ e.doc = NoDoc /\ e.versions = {} /\ e.highWater = 0
<1> DEFINE D == Release(d, d.versions)
           e == DeleteHistory(d)
<1>1. /\ D \in [Data -> Nat]
      /\ \A x \in Data : D[x] = Cardinality(Holders(d.versions \ d.versions, x))
  BY ReleaseOK
<1>2. e = [EmptyDB EXCEPT !.blobs = D] BY DEF DeleteHistory
<1> HIDE DEF D, e
<1>3. /\ e \in Rows /\ e.doc = NoDoc /\ e.versions = {} /\ e.dead = {} /\ e.edges = {}
      /\ e.highWater = 0 /\ e.blobs = D
  BY <1>1, <1>2, BoundsAssumption DEF EmptyDB, Rows
<1>4. WellFormed(e) BY <1>3 DEF WellFormed
<1>5. d.versions \ d.versions = {} OBVIOUS
<1>6. Counted(e) BY <1>1, <1>3, <1>5, CountedHolders
<1> QED BY <1>3, <1>4, <1>6 DEF RowsOK, e

-----------------------------------------------------------------------------
(* Every action is one of four kinds of step: a request reads or computes, a *)
(* request runs the body of a transaction, the transaction commits, the      *)
(* process restarts.                                                         *)

DbList == [versions |-> db.versions, dead |-> db.dead]

\* c goes on with the record r.
ReadRecord(c, r) ==
    /\ CallOK(r)
    /\ call[c].at # "commit" /\ r.at # "commit"
    /\ r.list \in {NoList, call[c].list, DbList}
    /\ r.beaten => call[c].beaten /\ r.picked = call[c].picked

ReadStep(c) ==
    /\ \E r : ReadRecord(c, r) /\ call' = [call EXCEPT ![c] = r]
    /\ UNCHANGED <<db, tx, created>>
    /\ cache' # NoDAG => cache' \in Graph
    /\ moved' \subseteq Clients

\* c leaves the rows d to commit and goes on with the record then.
WriteRecord(c, d, then) ==
    /\ RowsOK(d) /\ CallOK(then)
    /\ call[c].at # "commit" /\ then.at # "commit" /\ ~then.beaten
    /\ then.list \in {NoList, call[c].list}

\* ... which a document that is created once, and pruned by count, allows.
Legal(c, d) ==
    /\ created' = 1
    /\ History(d)
    /\ d.versions = {} \/ d.highWater >= db.highWater
    /\ db.versions = {} /\ created >= 1 => d.versions = {}
    /\ ~call[c].beaten
    /\ call[c].op = "match" => call[c].picked[1][1] < d.highWater

WriteStep(c) ==
    \E d, then :
        /\ Begin(c, d, then) /\ WriteRecord(c, d, then) /\ created' \in Nat
        /\ Life /\ OneLife => Legal(c, d)

LEMMA NoCallOK ==
    /\ CallOK(NoCall) /\ NoCall.at = "idle" /\ NoCall.op = "none" /\ NoCall.list = NoList
    /\ NoCall.beaten = FALSE
<1>1. /\ NoCall.at = "idle" /\ NoCall.op = "none" /\ NoCall.list = NoList
      /\ NoCall.beaten = FALSE
  BY DEF NoCall
<1>2. <<>> \in Seq(Vid) /\ NoList \in Lists BY DEF Lists, NoList
<1>3. NoCall \in CallRecords
  <2> HIDE DEF NoList, Lists
  <2> QED BY <1>2 DEF NoCall, CallRecords, Ops, Places
<1> QED BY <1>1, <1>3 DEF CallOK

LEMMA ReadStepTypes == ASSUME Types, NEW c \in Clients, ReadStep(c) PROVE Types'
<1>1. PICK r : ReadRecord(c, r) /\ call' = [call EXCEPT ![c] = r] BY DEF ReadStep
<1>2. CallOK(r) /\ r \in CallRecords BY <1>1 DEF ReadRecord, CallOK
<1>3. \A k \in Clients : call'[k] = IF k = c THEN r ELSE call[k] BY <1>1 DEF Types
<1>4. call' \in [Clients -> CallRecords] BY <1>1, <1>2 DEF Types
<1>5. \A k \in Clients : CallOK(call'[k]) BY <1>2, <1>3 DEF Types
<1> QED BY <1>4, <1>5 DEF Types, ReadStep

LEMMA WriteStepTypes == ASSUME Types, NEW c \in Clients, WriteStep(c) PROVE Types'
<1>1. PICK d, then : /\ Begin(c, d, then) /\ WriteRecord(c, d, then) /\ created' \in Nat
  BY DEF WriteStep
<1>2. /\ tx' = [owner |-> c, db |-> d, then |-> then] /\ cache' = NoDAG /\ db' = db
      /\ call' = [call EXCEPT ![c].at = "commit"] /\ moved' \subseteq Clients
  BY <1>1 DEF Begin
<1>3. tx'.owner = c /\ tx'.db = d /\ tx'.then = then BY <1>2
<1>4. /\ call' \in [Clients -> CallRecords]
      /\ \A k \in Clients : k # c => call'[k] = call[k]
      /\ call'[c] = [call[c] EXCEPT !.at = "commit"]
  <2>1. call \in [Clients -> CallRecords] /\ call[c] \in CallRecords BY DEF Types
  <2>2. [call[c] EXCEPT !.at = "commit"] \in CallRecords
    <3> HIDE DEF Lists
    <3> QED BY <2>1 DEF CallRecords, Places
  <2> HIDE DEF CallRecords
  <2> QED BY <1>2, <2>1, <2>2
<1>5. CallOK(call'[c])
  <2>1. call[c] \in CallRecords /\ CallOK(call[c]) BY DEF Types
  <2>2. /\ call'[c] \in CallRecords /\ call'[c].at = "commit" /\ call'[c].op = call[c].op
        /\ call'[c].picked = call[c].picked /\ call'[c].beaten = call[c].beaten
    BY <2>1, <1>4 DEF CallRecords
  <2> QED BY <2>1, <2>2 DEF CallOK
<1>6. \A k \in Clients : CallOK(call'[k]) BY <1>4, <1>5 DEF Types
<1>7. RowsOK(db') BY <1>2 DEF Types
<1> QED BY <1>1, <1>2, <1>3, <1>4, <1>6, <1>7 DEF Types, WriteRecord

LEMMA CommitTypes == ASSUME Types, Commit PROVE Types'
<1>1. /\ tx # NoTx /\ db' = tx.db /\ tx' = NoTx /\ UNCHANGED <<cache, moved, created>>
      /\ call' = [c \in Clients |->
                    IF c = tx.owner THEN tx.then
                    ELSE [call[c] EXCEPT !.beaten = @ \/ SameMatch(c, tx.owner)]]
  BY DEF Commit
<1>2. RowsOK(tx.db) /\ CallOK(tx.then) /\ tx.then \in CallRecords BY <1>1 DEF Types, CallOK
<1>3. ASSUME NEW c \in Clients PROVE CallOK(call'[c]) /\ call'[c] \in CallRecords
  <2>1. CASE c = tx.owner BY <1>1, <1>2, <2>1
  <2>2. CASE c # tx.owner
    <3> DEFINE b == call[c].beaten \/ SameMatch(c, tx.owner)
    <3>1. call[c] \in CallRecords /\ CallOK(call[c]) BY DEF Types
    <3>2. b \in BOOLEAN /\ (b => call[c].op = "match")
      BY <3>1 DEF CallOK, CallRecords, SameMatch
    <3>3. call'[c] = [call[c] EXCEPT !.beaten = b] BY <1>1, <2>2
    <3> HIDE DEF b
    <3>4. /\ call'[c] \in CallRecords /\ call'[c].at = call[c].at /\ call'[c].op = call[c].op
          /\ call'[c].picked = call[c].picked /\ call'[c].dag = call[c].dag
          /\ call'[c].beaten = b /\ call'[c].list = call[c].list
      BY <3>1, <3>2, <3>3 DEF CallRecords
    <3> QED BY <3>1, <3>2, <3>4 DEF CallOK
  <2> QED BY <2>1, <2>2
<1>4. call' \in [Clients -> CallRecords] BY <1>1, <1>3
<1> QED BY <1>1, <1>2, <1>3, <1>4 DEF Types

LEMMA CrashTypes == ASSUME Types, Crash PROVE Types'
<1>1. /\ db' = db /\ tx' = NoTx /\ cache' = NoDAG /\ moved' = {} /\ created' = created
      /\ call' = [c \in Clients |-> NoCall]
  BY DEF Crash
<1>2. NoCall \in CallRecords /\ CallOK(NoCall) BY NoCallOK DEF CallOK
<1> QED BY <1>1, <1>2 DEF Types

-----------------------------------------------------------------------------
(* The actions that read. *)

LEMMA StartRead ==
    ASSUME Types, NEW c \in Clients, Idle(c),
           NEW op \in Ops, NEW at \in {"update", "append", "source", "head", "load"},
           NEW picked \in Seq(Vid), op \in {"match", "revert"} => picked # <<>>,
           Start(c, op, at, picked), UNCHANGED <<db, tx, cache, moved, created>>
    PROVE  ReadStep(c)
<1> DEFINE r == [NoCall EXCEPT !.op = op, !.at = at, !.picked = picked]
<1>1. /\ r.op = op /\ r.at = at /\ r.picked = picked /\ r.list = NoList /\ r.beaten = FALSE
      /\ r \in CallRecords
  <2>1. NoCall \in CallRecords BY NoCallOK DEF CallOK
  <2>2. at \in Places BY DEF Places
  <2> HIDE DEF NoList, Lists
  <2> QED BY <2>1, <2>2 DEF NoCall, CallRecords
<1>2. call' = [call EXCEPT ![c] = r] BY DEF Start
<1> HIDE DEF r
<1>3. ReadRecord(c, r) BY <1>1 DEF ReadRecord, CallOK, Idle
<1> QED BY <1>2, <1>3 DEF ReadStep, Types

LEMMA ListRead ==
    ASSUME Types, NEW c \in Clients, Idle(c), NEW op \in {"abandon", "prune"},
           NEW picked \in Seq(Vid), List(c, op, picked)
    PROVE  ReadStep(c)
<1> DEFINE r == [NoCall EXCEPT !.op = op, !.at = "load", !.picked = picked, !.list = DbList]
<1>1. DbList \in Lists BY RowsFields DEF DbList, Lists, Types, RowsOK
<1>2. /\ r.op = op /\ r.at = "load" /\ r.picked = picked /\ r.list = DbList
      /\ r.beaten = FALSE /\ r \in CallRecords
  <2>1. NoCall \in CallRecords BY NoCallOK DEF CallOK
  <2>2. "load" \in Places /\ op \in Ops BY DEF Places, Ops
  <2> HIDE DEF NoList, Lists, DbList
  <2> QED BY <1>1, <2>1, <2>2 DEF NoCall, CallRecords
<1>3. /\ call' = [call EXCEPT ![c] = r] /\ UNCHANGED <<db, tx, cache, moved, created>>
  BY DEF List, DbList
<1> HIDE DEF r
<1>4. ReadRecord(c, r) BY <1>2 DEF ReadRecord, CallOK, Idle
<1> QED BY <1>3, <1>4 DEF ReadStep, Types

\* A request that only moves to its next place.
LEMMA MoveRead ==
    ASSUME Types, NEW c \in Clients, call[c].at \notin {"idle", "commit"},
           NEW at \in {"target", "tip", "versions"},
           call' = [call EXCEPT ![c].at = at], UNCHANGED <<db, tx, cache, moved, created>>
    PROVE  ReadStep(c)
<1> DEFINE r == [call[c] EXCEPT !.at = at]
<1>1. call[c] \in CallRecords /\ CallOK(call[c]) BY DEF Types
<1>2. /\ r.op = call[c].op /\ r.at = at /\ r.picked = call[c].picked
      /\ r.list = call[c].list /\ r.beaten = call[c].beaten /\ r \in CallRecords
  <2>1. at \in Places BY DEF Places
  <2> HIDE DEF Lists
  <2> QED BY <1>1, <2>1 DEF CallRecords
<1>3. call' = [call EXCEPT ![c] = r] OBVIOUS
<1> HIDE DEF r
<1>4. ReadRecord(c, r) BY <1>1, <1>2 DEF ReadRecord, CallOK
<1> QED BY <1>3, <1>4 DEF ReadStep, Types

LEMMA ReadCurrentRead == ASSUME Types, NEW c \in Clients, ReadCurrent(c) PROVE ReadStep(c)
<1>1. PICK v \in Latest(db) : Start(c, "match", "update", <<v>>) BY DEF ReadCurrent
<1>2. v \in Vid BY RowsFields DEF Latest, Types, RowsOK
<1>3. <<v>> \in Seq(Vid) /\ <<v>> # <<>> BY <1>2
<1>4. Idle(c) /\ UNCHANGED <<db, tx, cache, moved, created>> BY DEF ReadCurrent, Writing
<1>5. "match" \in Ops /\ "update" \in {"update", "append", "source", "head", "load"} BY DEF Ops
<1> QED BY <1>1, <1>3, <1>4, <1>5, StartRead

LEMMA ForkListRead == ASSUME Types, NEW c \in Clients, ForkList(c) PROVE ReadStep(c)
<1>1. PICK v \in db.versions : Start(c, "fork", "append", <<v>>) BY DEF ForkList
<1>2. v \in Vid BY RowsFields DEF Types, RowsOK
<1>3. <<v>> \in Seq(Vid) BY <1>2
<1>4. Idle(c) /\ UNCHANGED <<db, tx, cache, moved, created>> BY DEF ForkList, Writing
<1>5. "fork" \in Ops /\ "append" \in {"update", "append", "source", "head", "load"} BY DEF Ops
<1> QED BY <1>1, <1>3, <1>4, <1>5, StartRead

LEMMA MergeListRead == ASSUME Types, NEW c \in Clients, MergeList(c) PROVE ReadStep(c)
<1>1. PICK s, t \in db.versions : Start(c, "merge", "source", <<s, t>>) BY DEF MergeList
<1>2. s \in Vid /\ t \in Vid BY RowsFields DEF Types, RowsOK
<1>3. <<s, t>> \in Seq(Vid) BY <1>2
<1>4. Idle(c) /\ UNCHANGED <<db, tx, cache, moved, created>> BY DEF MergeList, Retiring
<1>5. "merge" \in Ops /\ "source" \in {"update", "append", "source", "head", "load"} BY DEF Ops
<1> QED BY <1>1, <1>3, <1>4, <1>5, StartRead

LEMMA RevertListRead == ASSUME Types, NEW c \in Clients, RevertList(c) PROVE ReadStep(c)
<1>1. PICK v \in db.versions : Start(c, "revert", "head", <<v>>) BY DEF RevertList
<1>2. v \in Vid BY RowsFields DEF Types, RowsOK
<1>3. <<v>> \in Seq(Vid) /\ <<v>> # <<>> BY <1>2
<1>4. Idle(c) /\ UNCHANGED <<db, tx, cache, moved, created>> BY DEF RevertList, Retiring
<1>5. "revert" \in Ops /\ "head" \in {"update", "append", "source", "head", "load"} BY DEF Ops
<1> QED BY <1>1, <1>3, <1>4, <1>5, StartRead

LEMMA BranchesRead == ASSUME Types, NEW c \in Clients, Branches(c) PROVE ReadStep(c)
<1>1. Start(c, "branches", "load", <<>>) BY DEF Branches
<1>2. <<>> \in Seq(Vid) OBVIOUS
<1>3. Idle(c) /\ UNCHANGED <<db, tx, cache, moved, created>> BY DEF Branches
<1>4. /\ "branches" \in Ops /\ "branches" \notin {"match", "revert"}
      /\ "load" \in {"update", "append", "source", "head", "load"}
  BY DEF Ops
<1> QED BY <1>1, <1>2, <1>3, <1>4, StartRead

\* parentsFor between the list and the mark of a Revert.
LEMMA RevertHeadRead == ASSUME Types, NEW c \in Clients, RevertHead(c) PROVE ReadStep(c)
<1>0. /\ call[c].op = "revert" /\ call[c].at = "head"
      /\ UNCHANGED <<db, tx, cache, moved, created>>
  BY DEF RevertHead, At
<1>1. CASE call' = [call EXCEPT ![c].at = "tip"]
  BY <1>0, <1>1, MoveRead
<1>2. ASSUME NEW h \in Latest(db),
             call' = [call EXCEPT ![c].at = "mark", ![c].picked = <<@[1], h>>]
      PROVE  ReadStep(c)
  <2> DEFINE p == <<call[c].picked[1], h>>
             r == [call[c] EXCEPT !.at = "mark", !.picked = p]
  <2>1. call[c] \in CallRecords /\ CallOK(call[c]) BY DEF Types
  <2>2. p \in Seq(Vid) /\ p # <<>>
    <3>1. h \in Vid BY RowsFields DEF Latest, Types, RowsOK
    <3>2. call[c].picked \in Seq(Vid) /\ call[c].picked # <<>> BY <2>1, <1>0 DEF CallOK, CallRecords
    <3>3. call[c].picked[1] \in Vid BY <3>2
    <3> QED BY <3>1, <3>3
  <2>3. call' = [call EXCEPT ![c] = r] BY <1>2
  <2> HIDE DEF p
  <2>4. /\ r.op = "revert" /\ r.at = "mark" /\ r.picked = p /\ r.list = call[c].list
        /\ r.beaten = call[c].beaten /\ r \in CallRecords
    <3>1. "mark" \in Places BY DEF Places
    <3> HIDE DEF Lists
    <3> QED BY <1>0, <2>1, <2>2, <3>1 DEF CallRecords
  <2> HIDE DEF r
  <2>5. ReadRecord(c, r) BY <1>0, <2>1, <2>2, <2>4 DEF ReadRecord, CallOK
  <2> QED BY <1>0, <2>3, <2>5 DEF ReadStep, Types
<1> QED BY <1>1, <1>2 DEF RevertHead

\* The caller has the DAG g.
LEMMA LoadedRecord ==
    ASSUME Types, NEW c \in Clients, call[c].at \notin {"idle", "commit"}, NEW g \in Graph
    PROVE  ReadRecord(c, Loaded(c, g))
<1>1. CASE call[c].op = "branches"
  <2>1. Loaded(c, g) = NoCall BY <1>1 DEF Loaded
  <2> QED BY <2>1, NoCallOK DEF ReadRecord
<1>2. CASE call[c].op # "branches"
  <2> DEFINE r == [call[c] EXCEPT !.at = "decide", !.dag = g]
  <2>1. Loaded(c, g) = r BY <1>2 DEF Loaded
  <2>2. call[c] \in CallRecords /\ CallOK(call[c]) BY DEF Types
  <2>3. /\ r.op = call[c].op /\ r.at = "decide" /\ r.picked = call[c].picked
        /\ r.list = call[c].list /\ r.beaten = call[c].beaten /\ r \in CallRecords
        /\ r.dag = g
    <3>1. "decide" \in Places BY DEF Places
    <3> HIDE DEF Lists, Graph
    <3> QED BY <2>2, <3>1 DEF CallRecords
  <2> HIDE DEF r
  <2>4. ReadRecord(c, r) BY <2>2, <2>3 DEF ReadRecord, CallOK
  <2> QED BY <2>1, <2>4
<1> QED BY <1>1, <1>2

LEMMA LoadDAGRead == ASSUME Types, NEW c \in Clients, LoadDAG(c) PROVE ReadStep(c)
<1>0. call[c].at = "load" /\ UNCHANGED <<db, tx, cache, moved, created>> BY DEF LoadDAG
<1>1. CASE cache # NoDAG
  <2>1. call' = [call EXCEPT ![c] = Loaded(c, cache)] BY <1>1 DEF LoadDAG
  <2>2. ReadRecord(c, Loaded(c, cache)) BY <1>0, <1>1, LoadedRecord DEF Types
  <2> QED BY <1>0, <2>1, <2>2 DEF ReadStep, Types
<1>2. CASE cache = NoDAG
  <2>1. call' = [call EXCEPT ![c].at = "versions"] BY <1>2 DEF LoadDAG
  <2> QED BY <1>0, <2>1, MoveRead
<1> QED BY <1>1, <1>2

LEMMA QueryVersionsRead ==
    ASSUME Types, NEW c \in Clients, QueryVersions(c) PROVE ReadStep(c)
<1> DEFINE g == [versions |-> db.versions, edges |-> {}]
           r == [call[c] EXCEPT !.at = "parents", !.dag = g]
<1>0. /\ call[c].at = "versions" /\ UNCHANGED <<db, tx, cache, moved, created>>
      /\ call' = [call EXCEPT ![c] = r]
  BY DEF QueryVersions
<1>1. g \in Graph BY RowsFields DEF Graph, Types, RowsOK
<1>2. call[c] \in CallRecords /\ CallOK(call[c]) BY DEF Types
<1> HIDE DEF g
<1>3. /\ r.op = call[c].op /\ r.at = "parents" /\ r.picked = call[c].picked
      /\ r.list = call[c].list /\ r.beaten = call[c].beaten /\ r \in CallRecords
      /\ r.dag = g
  <2>1. "parents" \in Places BY DEF Places
  <2> HIDE DEF Lists, Graph
  <2> QED BY <1>1, <1>2, <2>1 DEF CallRecords
<1> HIDE DEF r
<1>4. ReadRecord(c, r) BY <1>0, <1>1, <1>2, <1>3 DEF ReadRecord, CallOK
<1> QED BY <1>0, <1>4 DEF ReadStep, Types

LEMMA QueryParentsRead ==
    ASSUME Types, NEW c \in Clients, QueryParents(c) PROVE ReadStep(c)
<1> DEFINE found == {e \in db.edges : e[1] \in call[c].dag.versions}
           g == [call[c].dag EXCEPT !.edges = found]
           r == [call[c] EXCEPT !.at = "store", !.dag = g]
<1>0. /\ call[c].at = "parents" /\ UNCHANGED <<db, tx, cache, moved, created>>
      /\ call' = [call EXCEPT ![c] = r]
  BY DEF QueryParents
<1>2. call[c] \in CallRecords /\ CallOK(call[c]) BY DEF Types
<1>1. g \in Graph
  <2>1. call[c].dag \in Graph BY <1>0, <1>2 DEF CallOK
  <2>2. found \in SUBSET (Vid \X Vid) BY RowsFields DEF Types, RowsOK
  <2> HIDE DEF found
  <2> QED BY <2>1, <2>2 DEF Graph
<1> HIDE DEF g
<1>3. /\ r.op = call[c].op /\ r.at = "store" /\ r.picked = call[c].picked
      /\ r.list = call[c].list /\ r.beaten = call[c].beaten /\ r \in CallRecords
      /\ r.dag = g
  <2>1. "store" \in Places BY DEF Places
  <2> HIDE DEF Lists, Graph
  <2> QED BY <1>1, <1>2, <2>1 DEF CallRecords
<1> HIDE DEF r
<1>4. ReadRecord(c, r) BY <1>0, <1>1, <1>2, <1>3 DEF ReadRecord, CallOK
<1> QED BY <1>0, <1>4 DEF ReadStep, Types

LEMMA StoreDAGRead == ASSUME Types, NEW c \in Clients, StoreDAG(c) PROVE ReadStep(c)
<1> DEFINE g == IF cache # NoDAG THEN cache ELSE call[c].dag
<1>0. /\ call[c].at = "store" /\ UNCHANGED <<db, tx, created>>
      /\ call' = [call EXCEPT ![c] = Loaded(c, g)]
      /\ cache' = IF c \in moved THEN cache ELSE g
      /\ moved' = moved \ {c}
  BY DEF StoreDAG
<1>1. g \in Graph BY <1>0 DEF Types, CallOK
<1> HIDE DEF g
<1>2. ReadRecord(c, Loaded(c, g)) BY <1>0, <1>1, LoadedRecord
<1> QED BY <1>0, <1>1, <1>2 DEF ReadStep, Types

LEMMA FailRead == ASSUME Types, NEW c \in Clients, Fail(c) PROVE ReadStep(c)
<1>1. /\ call[c].at # "commit" /\ call' = [call EXCEPT ![c] = NoCall]
      /\ moved' = moved \ {c} /\ UNCHANGED <<db, tx, cache, created>>
  BY DEF Fail
<1>2. ReadRecord(c, NoCall) BY <1>1, NoCallOK DEF ReadRecord
<1> QED BY <1>1, <1>2 DEF ReadStep, Types

LEMMA AbandonListRead == ASSUME Types, NEW c \in Clients, AbandonList(c) PROVE ReadStep(c)
<1>1. PICK v \in db.versions \ db.dead : List(c, "abandon", <<v>>) BY DEF AbandonList
<1>2. v \in Vid BY RowsFields DEF Types, RowsOK
<1>3. <<v>> \in Seq(Vid) /\ Idle(c) BY <1>2 DEF AbandonList, Retiring
<1> QED BY <1>1, <1>3, ListRead

LEMMA PruneListRead == ASSUME Types, NEW c \in Clients, PruneList(c) PROVE ReadStep(c)
<1>1. List(c, "prune", <<>>) /\ Idle(c) BY DEF PruneList, Retiring
<1>2. <<>> \in Seq(Vid) OBVIOUS
<1> QED BY <1>1, <1>2, ListRead

-----------------------------------------------------------------------------
(* What a prune removes exceeds its policy. *)

LEMMA Least ==
    ASSUME NEW S, S \subseteq Nat, S # {}
    PROVE  \E x \in S : \A y \in S : x <= y
<1>1. PICK x \in S : \A y \in S : ~(<<y, x>> \in OpToRel(<, Nat))
  BY NatLessThanWellFounded, WFMin
<1>2. \A y \in S : ~(y < x)
  BY <1>1 DEF OpToRel
<1> QED BY <1>2

\* One round of the filter that leaves a version only if its children are left.
Narrow(g, S) == {v \in S : Children(g, v) \subseteq S}

\* f is the sequence of rounds that starts from A.
Rounds(f, n, A, g) == f = [k \in 0 .. n |-> IF k = 0 THEN A ELSE Narrow(g, f[k - 1])]

\* The rounds exist: a shortest sequence of them that does not would extend one
\* that does.
LEMMA RoundsExist ==
    ASSUME NEW A, NEW g, NEW n \in Nat
    PROVE  \E f : Rounds(f, n, A, g)
<1> DEFINE Bad == {m \in Nat : ~ \E f : Rounds(f, m, A, g)}
<1> SUFFICES ASSUME Bad # {} PROVE FALSE OBVIOUS
<1>1. PICK m \in Bad : \A y \in Bad : m <= y BY Least
<1>2. m \in Nat /\ ~ \E f : Rounds(f, m, A, g) OBVIOUS
<1>3. m # 0
  <2> DEFINE f == [k \in 0 .. 0 |-> A]
  <2>1. Rounds(f, 0, A, g)
    <3>1. f = [k \in 0 .. 0 |-> IF k = 0 THEN A ELSE Narrow(g, f[k - 1])] OBVIOUS
    <3> QED BY <3>1 DEF Rounds
  <2> QED BY <1>2, <2>1
<1>4. m - 1 \in Nat /\ m - 1 \notin Bad BY <1>1, <1>2, <1>3
<1>5. PICK f : Rounds(f, m - 1, A, g) BY <1>4
<1> HIDE DEF Bad
<1> DEFINE h == [k \in 0 .. m |-> IF k = m THEN Narrow(g, f[m - 1]) ELSE f[k]]
<1>6. \A k \in 0 .. m - 1 : f[k] = IF k = 0 THEN A ELSE Narrow(g, f[k - 1])
  <2>1. f = [k \in 0 .. m - 1 |-> IF k = 0 THEN A ELSE Narrow(g, f[k - 1])] BY <1>5 DEF Rounds
  <2> QED BY <2>1, Zenon
<1>7. ASSUME NEW k \in 0 .. m PROVE h[k] = IF k = 0 THEN A ELSE Narrow(g, h[k - 1])
  <2>1. CASE k = m
    <3>1. h[k] = Narrow(g, f[m - 1]) /\ k # 0 BY <1>3, <2>1
    <3>2. h[k - 1] = f[m - 1] BY <1>2, <1>4, <2>1
    <3> QED BY <3>1, <3>2
  <2>2. CASE k # m
    <3>1. k \in 0 .. m - 1 /\ h[k] = f[k] BY <1>2, <2>2
    <3>2. k # 0 => h[k - 1] = f[k - 1] BY <1>2, <3>1
    <3> QED BY <1>6, <3>1, <3>2
  <2> QED BY <2>1, <2>2
<1>8. Rounds(h, m, A, g)
  <2> DEFINE i == [k \in 0 .. m |-> IF k = 0 THEN A ELSE Narrow(g, h[k - 1])]
  <2>1. \A k \in 0 .. m : h[k] = i[k] BY <1>7
  <2>2. h = [k \in 0 .. m |-> h[k]] /\ i = [k \in 0 .. m |-> i[k]] OBVIOUS
  <2> HIDE DEF h, i
  <2>3. h = i BY <2>1, <2>2
  <2> QED BY <2>3 DEF Rounds, i
<1> QED BY <1>2, <1>8

\* No round adds a version.
LEMMA RoundsNarrow ==
    ASSUME NEW A, NEW g, NEW n \in Nat, NEW f, Rounds(f, n, A, g)
    PROVE  \A k \in 0 .. n : f[k] \subseteq A
<1> DEFINE Bad == {m \in 0 .. n : ~(f[m] \subseteq A)}
<1> SUFFICES ASSUME Bad # {} PROVE FALSE OBVIOUS
<1>1. PICK m \in Bad : \A y \in Bad : m <= y
  <2>1. Bad \subseteq Nat OBVIOUS
  <2> QED BY <2>1, Least
<1>2. m \in 0 .. n /\ ~(f[m] \subseteq A) OBVIOUS
<1>3. \A k \in 0 .. n : f[k] = IF k = 0 THEN A ELSE Narrow(g, f[k - 1])
  <2>1. f = [k \in 0 .. n |-> IF k = 0 THEN A ELSE Narrow(g, f[k - 1])] BY DEF Rounds
  <2> QED BY <2>1, Zenon
<1>4. m # 0 BY <1>2, <1>3
<1>5. m - 1 \in 0 .. n /\ m - 1 \notin Bad BY <1>1, <1>2, <1>4
<1>6. f[m - 1] \subseteq A BY <1>5
<1>7. f[m] \subseteq f[m - 1] BY <1>2, <1>3, <1>4 DEF Narrow
<1> QED BY <1>2, <1>6, <1>7

LEMMA PrunableExceeds ==
    ASSUME NEW ls, NEW g, NEW policy, NEW old, NEW v \in ComputePrunable(ls, g, policy, old)
    PROVE  v \in ls.versions /\ PolicyExceeds(v, ls, policy, old)
<1> DEFINE liveHeads == {h \in Heads(g) : h \in ls.versions \ ls.dead}
           floor == liveHeads \cup Ancestors(g, liveHeads)
           A == {w \in ls.versions \ floor : PolicyExceeds(w, ls, policy, old)}
           candidates == CHOOSE f : f = [n \in 0 .. MaxSeq |->
                             IF n = 0 THEN {w \in ls.versions \ floor :
                                                PolicyExceeds(w, ls, policy, old)}
                             ELSE {w \in f[n - 1] : Children(g, w) \subseteq f[n - 1]}]
<1>1. v \in candidates[MaxSeq] BY DEF ComputePrunable
<1>2. Rounds(candidates, MaxSeq, A, g)
  <2>1. \E f : Rounds(f, MaxSeq, A, g) BY RoundsExist, BoundsAssumption
  <2> QED BY <2>1 DEF Rounds, Narrow
<1> HIDE DEF candidates, A
<1>3. candidates[MaxSeq] \subseteq A
  <2>1. MaxSeq \in Nat /\ MaxSeq \in 0 .. MaxSeq BY BoundsAssumption
  <2> QED BY <1>2, <2>1, RoundsNarrow
<1> QED BY <1>1, <1>3 DEF A

-----------------------------------------------------------------------------
(* The actions that write. *)

\* A request that is not conditional was not beaten.
LEMMA NotBeaten ==
    ASSUME Types, NEW c \in Clients, call[c].op # "match" PROVE ~call[c].beaten
BY DEF Types, CallOK

LEMMA IdleOp ==
    ASSUME Types, NEW c \in Clients, Idle(c)
    PROVE  call[c].op = "none" /\ call[c].at # "commit" /\ ~call[c].beaten
BY NotBeaten DEF Types, CallOK, Idle

LEMMA AppendWrite ==
    ASSUME Types, NEW c \in Clients, call[c].at # "commit", created' \in Nat,
           NEW x \in Data, NEW parents, NEW d, RowsOK(d),
           d.versions = db.versions, d.highWater = db.highWater,
           CanAppend(d, parents), Begin(c, AppendVersion(d, x, parents), NoCall),
           Life /\ OneLife =>
               /\ created' = 1 /\ d.doc # NoDoc /\ (created = 0 \/ db.versions # {})
               /\ ~call[c].beaten
               /\ call[c].op = "match" => call[c].picked[1][1] <= db.highWater
    PROVE  WriteStep(c)
<1> DEFINE e == AppendVersion(d, x, parents)
           n == <<d.highWater + 1, x>>
<1>1. /\ RowsOK(e) /\ e.doc = d.doc /\ e.versions = d.versions \cup {n}
      /\ e.highWater = d.highWater + 1
  BY AppendOK
<1>2. Begin(c, e, NoCall) OBVIOUS
<1>3. d.highWater \in 0 .. MaxSeq /\ d.versions \in SUBSET Vid BY RowsFields DEF RowsOK
<1>4. n[1] = d.highWater + 1 OBVIOUS
<1>5. \A v \in d.versions : v[1] \in Nat /\ v[1] <= d.highWater
  BY <1>3, VidFacts DEF RowsOK, WellFormed
<1> HIDE DEF e, n
<1>6. WriteRecord(c, e, NoCall) BY <1>1, NoCallOK DEF WriteRecord
<1>7. ASSUME Life, OneLife PROVE Legal(c, e)
  <2>1. \A v, w \in d.versions : v[1] = w[1] => v = w BY <1>7 DEF Life, History
  <2>2. \A v, w \in e.versions : v[1] = w[1] => v = w BY <1>1, <1>3, <1>4, <1>5, <2>1
  <2>3. n \in e.versions /\ n[1] = e.highWater BY <1>1, <1>4
  <2>4. e.doc # NoDoc BY <1>1, <1>7
  <2>5. History(e) BY <2>2, <2>3, <2>4 DEF History
  <2>6. e.highWater >= db.highWater BY <1>1, <1>3
  <2>7. ~(db.versions = {} /\ created >= 1) BY <1>7
  <2>8. call[c].op = "match" => call[c].picked[1][1] < e.highWater
    <3> SUFFICES ASSUME call[c].op = "match" PROVE call[c].picked[1][1] < e.highWater OBVIOUS
    <3>1. call[c].picked \in Seq(Vid) /\ call[c].picked # <<>>
      BY DEF Types, CallOK, CallRecords
    <3>2. call[c].picked[1] \in Vid BY <3>1
    <3>3. call[c].picked[1][1] \in Nat BY <3>2, VidFacts
    <3> QED BY <1>1, <1>3, <1>7, <3>3
  <2> QED BY <1>7, <2>5, <2>6, <2>7, <2>8 DEF Legal
<1> QED BY <1>2, <1>6, <1>7 DEF WriteStep

LEMMA CreateWrite == ASSUME Types, NEW c \in Clients, Create(c) PROVE WriteStep(c)
<1>1. PICK x \in Data : Begin(c, AppendVersion([db EXCEPT !.doc = x], x, {}), NoCall)
  BY DEF Create
<1> DEFINE d == [db EXCEPT !.doc = x]
<1>2. /\ RowsOK(d) /\ d.doc = x /\ d.versions = db.versions /\ d.highWater = db.highWater
  BY SetDocOK DEF Types
<1>3. Begin(c, AppendVersion(d, x, {}), NoCall) BY <1>1
<1> HIDE DEF d
<1>4. CanAppend(d, {}) BY <1>2 DEF Create, CanAppend
<1>5. created' \in Nat /\ created' = created + 1 /\ created < MaxCreates /\ created \in Nat
  BY DEF Create, Types
<1>6. OneLife => created' = 1 /\ created = 0 BY <1>5, BoundsAssumption DEF OneLife
<1>7. call[c].at # "commit" /\ ~call[c].beaten /\ call[c].op # "match"
  BY IdleOp DEF Create, Writing
<1>8. d.doc # NoDoc BY <1>2, DataAssumption
<1> QED BY <1>2, <1>3, <1>4, <1>5, <1>6, <1>7, <1>8, AppendWrite

\* The update's document exists, so that it has been created.
LEMMA UpdateTxWrite ==
    ASSUME Types, NEW c \in Clients, call[c].at # "commit", NEW x \in Data, UpdateTx(c, x),
           Life /\ OneLife =>
               /\ ~call[c].beaten
               /\ call[c].op = "match" => call[c].picked[1][1] <= db.highWater
    PROVE  WriteStep(c)
<1> DEFINE d == [db EXCEPT !.doc = x]
<1>1. /\ Begin(c, AppendVersion(d, x, Latest(db)), NoCall) /\ db.doc # NoDoc
      /\ CanAppend(db, Latest(db)) /\ created' = created
  BY DEF UpdateTx
<1>2. /\ RowsOK(d) /\ d.doc = x /\ d.versions = db.versions /\ d.highWater = db.highWater
  BY SetDocOK DEF Types
<1> HIDE DEF d
<1>3. CanAppend(d, Latest(db)) BY <1>1, <1>2 DEF CanAppend
<1>4. created' \in Nat BY <1>1 DEF Types
<1>5. Life => db.versions # {} /\ created = 1 BY <1>1 DEF Life, History, Follows
<1>6. d.doc # NoDoc BY <1>2, DataAssumption
<1> QED BY <1>1, <1>2, <1>3, <1>4, <1>5, <1>6, AppendWrite

LEMMA UpdateWrite == ASSUME Types, NEW c \in Clients, Update(c) PROVE WriteStep(c)
<1>1. PICK x \in Data : UpdateTx(c, x) BY DEF Update
<1>2. call[c].at # "commit" /\ ~call[c].beaten /\ call[c].op # "match"
  BY IdleOp DEF Update, Writing
<1> QED BY <1>1, <1>2, UpdateTxWrite

\* The version that the precondition names is the newest one, so that no other
\* conditional update of it has committed.
LEMMA UpdateIfMatchWrite ==
    ASSUME Types, NEW c \in Clients, UpdateIfMatch(c) PROVE WriteStep(c)
<1>1. PICK x \in Data : UpdateTx(c, x) BY DEF UpdateIfMatch
<1>2. /\ call[c].op = "match" /\ call[c].at = "update"
      /\ Latest(db) = {call[c].picked[1]}
  BY DEF UpdateIfMatch, At
<1> DEFINE v == call[c].picked[1]
<1>3. v \in db.versions /\ \A w \in db.versions : w[1] <= v[1] BY <1>2 DEF Latest
<1>4. /\ v[1] \in Nat /\ v[1] <= db.highWater /\ db.highWater \in Nat
  BY <1>3, RowsFields, VidFacts DEF Types, RowsOK, WellFormed
<1>5. Life => ~(v[1] < db.highWater) BY <1>3, <1>4 DEF Life, History
<1>6. Life => ~call[c].beaten BY <1>3, <1>5 DEF Life, Beaten, Over
<1> QED BY <1>1, <1>2, <1>4, <1>6, UpdateTxWrite

LEMMA RevertTipWrite == ASSUME Types, NEW c \in Clients, RevertTip(c) PROVE WriteStep(c)
<1>1. call[c].op = "revert" /\ call[c].at = "tip" /\ UpdateTx(c, call[c].picked[1][2])
  BY DEF RevertTip, At
<1>2. call[c].picked[1][2] \in Data
  <2>1. call[c].picked \in Seq(Vid) /\ call[c].picked # <<>>
    BY <1>1 DEF Types, CallOK, CallRecords
  <2>2. call[c].picked[1] \in Vid BY <2>1
  <2> QED BY <2>2, VidFacts
<1>3. ~call[c].beaten BY <1>1, NotBeaten
<1> QED BY <1>1, <1>2, <1>3, UpdateTxWrite

\* A request that appends to the rows as they are: its parents are among them, so
\* that there is a document.
LEMMA BranchWrite ==
    ASSUME Types, NEW c \in Clients, call[c].op # "match", call[c].at # "commit",
           NEW x \in Data, NEW parents, parents # {}, CanAppend(db, parents),
           Begin(c, AppendVersion(db, x, parents), NoCall), created' = created
    PROVE  WriteStep(c)
<1>1. ~call[c].beaten BY NotBeaten
<1>2. db.versions # {} BY DEF CanAppend
<1>3. Life => db.doc # NoDoc /\ created = 1 BY <1>2 DEF Life, History, Follows
<1>4. RowsOK(db) /\ created' \in Nat BY DEF Types
<1> QED BY <1>1, <1>2, <1>3, <1>4, AppendWrite

LEMMA ForkWrite == ASSUME Types, NEW c \in Clients, Fork(c) PROVE WriteStep(c)
<1> DEFINE source == call[c].picked[1]
<1>1. /\ call[c].op = "fork" /\ call[c].at = "append" /\ CanAppend(db, {source})
      /\ Begin(c, AppendVersion(db, source[2], {source}), NoCall) /\ created' = created
  BY DEF Fork, At
<1>2. source[2] \in Data
  BY <1>1, RowsFields, VidFacts DEF CanAppend, Types, RowsOK
<1> HIDE DEF source
<1> QED BY <1>1, <1>2, BranchWrite

LEMMA MergeTipWrite == ASSUME Types, NEW c \in Clients, MergeTip(c) PROVE WriteStep(c)
<1> DEFINE parents == {call[c].picked[1], call[c].picked[2]}
<1>1. /\ call[c].op = "merge" /\ call[c].at = "tip" /\ CanAppend(db, parents)
      /\ created' = created
      /\ \E x \in Data : Begin(c, AppendVersion(db, x, parents), NoCall)
  BY DEF MergeTip, At
<1>2. parents # {} OBVIOUS
<1> HIDE DEF parents
<1> QED BY <1>1, <1>2, BranchWrite

\* A mark leaves the rows where they are.
LEMMA DeadWrite ==
    ASSUME Types, NEW c \in Clients, call[c].op # "match", call[c].at # "commit",
           NEW v \in db.versions, NEW then, CallOK(then), then.at # "commit",
           ~then.beaten, then.list \in {NoList, call[c].list},
           Begin(c, SetDead(db, v), then), created' = created
    PROVE  WriteStep(c)
<1> DEFINE e == SetDead(db, v)
<1>1. /\ RowsOK(e) /\ e.doc = db.doc /\ e.versions = db.versions
      /\ e.highWater = db.highWater
  BY SetDeadOK DEF Types
<1>2. Begin(c, e, then) OBVIOUS
<1> HIDE DEF e
<1>3. WriteRecord(c, e, then) BY <1>1 DEF WriteRecord
<1>4. created' \in Nat BY DEF Types
<1>5. ASSUME Life, OneLife PROVE Legal(c, e)
  <2>1. History(e) BY <1>1, <1>5 DEF Life, History
  <2>2. created' = 1 BY <1>5 DEF Life, Follows
  <2>3. e.highWater >= db.highWater BY <1>1, RowsFields DEF Types, RowsOK
  <2> QED BY <2>1, <2>2, <2>3, NotBeaten DEF Legal
<1> QED BY <1>2, <1>3, <1>4, <1>5 DEF WriteStep

LEMMA MarkDeadStep ==
    ASSUME Types, NEW c \in Clients, call[c].op \in {"merge", "revert"},
           call[c].at \notin {"idle", "commit"}, NEW v, NEW next \in {"target", "tip"},
           MarkDead(c, v, next)
    PROVE  ReadStep(c) \/ WriteStep(c)
<1>0. v \in db.versions /\ created' = created BY DEF MarkDead
<1>1. CASE Children(db, v) = {}
  <2> DEFINE r == [call[c] EXCEPT !.at = next, !.half = TRUE]
  <2>1. Begin(c, SetDead(db, v), r) BY <1>1 DEF MarkDead
  <2>2. call[c] \in CallRecords /\ CallOK(call[c]) BY DEF Types
  <2>3. /\ r.op = call[c].op /\ r.at = next /\ r.picked = call[c].picked
        /\ r.list = call[c].list /\ r.beaten = call[c].beaten /\ r \in CallRecords
    <3>1. next \in Places BY DEF Places
    <3> HIDE DEF Lists
    <3> QED BY <2>2, <3>1 DEF CallRecords
  <2> HIDE DEF r
  <2>4. CallOK(r) /\ ~r.beaten BY <2>2, <2>3, NotBeaten DEF CallOK
  <2> QED BY <1>0, <2>1, <2>3, <2>4, DeadWrite
<1>2. CASE Children(db, v) # {}
  <2>1. call' = [call EXCEPT ![c].at = next] /\ UNCHANGED <<db, tx, cache, moved>>
    BY <1>2 DEF MarkDead
  <2> QED BY <1>0, <2>1, MoveRead
<1> QED BY <1>1, <1>2

LEMMA MarkSteps ==
    ASSUME Types, NEW c \in Clients, MergeSource(c) \/ MergeTarget(c) \/ RevertMark(c)
    PROVE  ReadStep(c) \/ WriteStep(c)
BY MarkDeadStep DEF MergeSource, MergeTarget, RevertMark, At

LEMMA AbandonWrite == ASSUME Types, NEW c \in Clients, Abandon(c) PROVE WriteStep(c)
<1> DEFINE v == call[c].picked[1]
<1>1. /\ call[c].op = "abandon" /\ call[c].at = "decide" /\ v \in db.versions
      /\ Begin(c, SetDead(db, v), NoCall) /\ created' = created
  BY DEF Abandon, At
<1> HIDE DEF v
<1> QED BY <1>1, NoCallOK, DeadWrite

LEMMA DeleteWrite == ASSUME Types, NEW c \in Clients, Delete(c) PROVE WriteStep(c)
<1> DEFINE e == DeleteHistory(db)
<1>1. RowsOK(e) /\ e.doc = NoDoc /\ e.versions = {} /\ e.highWater = 0
  BY DeleteHistoryOK DEF Types
<1>2. Begin(c, e, NoCall) /\ created' = created /\ db.doc # NoDoc BY DEF Delete
<1>3. call[c].op = "none" /\ call[c].at # "commit" /\ ~call[c].beaten
  BY IdleOp DEF Delete, Writing
<1> HIDE DEF e
<1>4. WriteRecord(c, e, NoCall) BY <1>1, <1>3, NoCallOK DEF WriteRecord
<1>5. created' \in Nat BY <1>2 DEF Types
<1>6. ASSUME Life, OneLife PROVE Legal(c, e)
  <2>1. History(e) BY <1>1 DEF History
  <2>2. created' = 1 BY <1>2, <1>6 DEF Life, History, Follows
  <2> QED BY <1>1, <1>3, <2>1, <2>2 DEF Legal
<1> QED BY <1>2, <1>4, <1>5, <1>6 DEF WriteStep

\* A prune by count does not reach the newest version: the list it works from
\* holds nothing newer.
LEMMA NewestStays ==
    ASSUME Types, Life, OneLife, NEW c \in Clients, NEW policy \in Policies, NEW old,
           NEW g, NEW t \in db.versions, t[1] = db.highWater
    PROVE  t \notin ComputePrunable(call[c].list, g, policy, old)
<1> DEFINE ls == call[c].list
           tail == {w \in ls.versions : w[1] >= t[1]}
<1> SUFFICES ASSUME t \in ComputePrunable(ls, g, policy, old) PROVE FALSE OBVIOUS
<1>1. t \in ls.versions /\ PolicyExceeds(t, ls, policy, old) BY PrunableExceeds
<1>2. policy.maxVersions \in Nat /\ policy.maxVersions > 0
  BY PoliciesAssumption DEF OneLife
<1>3. Cardinality(tail) > policy.maxVersions BY <1>1, <1>2 DEF PolicyExceeds
<1>4. ls.versions \in SUBSET Vid BY DEF Types, CallRecords, Lists
<1>5. \A w \in ls.versions : w[1] <= t[1] /\ w[1] \in Nat /\ t[1] \in Nat
  <2>1. \A w \in ls.versions : w[1] <= db.highWater BY DEF Life, Reads, Over
  <2>2. t \in Vid BY RowsFields DEF Types, RowsOK
  <2> QED BY <1>4, <2>1, <2>2, VidFacts
<1>6. \A w \in ls.versions : w[1] = t[1] => w = t BY <1>1 DEF Life, Reads
<1>7. tail = {t} BY <1>1, <1>5, <1>6
<1>8. Cardinality(tail) = 1 BY <1>7, FS_Singleton
<1> QED BY <1>2, <1>3, <1>8

LEMMA PruneWrite == ASSUME Types, NEW c \in Clients, Prune(c) PROVE WriteStep(c)
<1>1. PICK policy \in Policies : \E old \in IF policy.maxAge THEN 0 .. MaxSeq ELSE {0} :
          LET ids == ComputePrunable(call[c].list, call[c].dag, policy, old)
          IN  ids # {} /\ Begin(c, DeleteVersions(db, ids), NoCall)
  BY DEF Prune
<1>2. PICK old : LET ids == ComputePrunable(call[c].list, call[c].dag, policy, old)
                 IN  ids # {} /\ Begin(c, DeleteVersions(db, ids), NoCall)
  BY <1>1
<1> DEFINE ids == ComputePrunable(call[c].list, call[c].dag, policy, old)
           e == DeleteVersions(db, ids)
<1>3. ids # {} /\ Begin(c, e, NoCall) BY <1>2
<1>4. call[c].op = "prune" /\ call[c].at = "decide" /\ created' = created BY DEF Prune, At
<1>5. /\ RowsOK(e) /\ e.doc = db.doc /\ e.versions = db.versions \ ids
      /\ e.highWater = db.highWater
  <2> HIDE DEF ids
  <2> QED BY DeleteVersionsOK DEF Types
<1>6. \A v \in ids : v \in call[c].list.versions BY PrunableExceeds
<1>7. ASSUME Life, OneLife, NEW t \in db.versions, t[1] = db.highWater PROVE t \notin ids
  BY <1>7, NewestStays
<1> HIDE DEF ids, e
<1>8. WriteRecord(c, e, NoCall) BY <1>4, <1>5, NoCallOK DEF WriteRecord
<1>9. created' \in Nat BY <1>4 DEF Types
<1>10. ASSUME Life, OneLife PROVE Legal(c, e)
  <2>1. created' = 1 BY <1>3, <1>4, <1>6, <1>10 DEF Life, Reads
  <2>2. db.versions # {} => \E t \in e.versions : t[1] = e.highWater
    <3> SUFFICES ASSUME db.versions # {} PROVE \E t \in e.versions : t[1] = e.highWater
      OBVIOUS
    <3>1. PICK t \in db.versions : t[1] = db.highWater BY <1>10 DEF Life, History
    <3>2. t \notin ids BY <1>7, <1>10, <3>1
    <3> QED BY <1>5, <3>1, <3>2
  <2>3. \A v, w \in e.versions : v[1] = w[1] => v = w BY <1>5, <1>10 DEF Life, History
  <2>4. (e.doc # NoDoc) <=> (e.versions # {}) BY <1>5, <1>10, <2>2 DEF Life, History
  <2>5. History(e) BY <1>5, <2>2, <2>3, <2>4 DEF History
  <2>6. e.highWater >= db.highWater BY <1>5, RowsFields DEF Types, RowsOK
  <2> QED BY <1>4, <1>5, <2>1, <2>5, <2>6, NotBeaten DEF Legal
<1> QED BY <1>3, <1>8, <1>9, <1>10 DEF WriteStep

-----------------------------------------------------------------------------
(* Every step is of one of the kinds. *)

LEMMA InitTypes == Init => Types
<1> SUFFICES ASSUME Init PROVE Types OBVIOUS
<1>1. RowsOK(db) BY EmptyOK DEF Init
<1>2. NoCall \in CallRecords /\ CallOK(NoCall) BY NoCallOK DEF CallOK
<1> QED BY <1>1, <1>2 DEF Init, Types

LEMMA StepKinds ==
    ASSUME Types, Next
    PROVE  Commit \/ Crash \/ \E c \in Clients : ReadStep(c) \/ WriteStep(c)
<1>1. ASSUME NEW c \in Clients, Document(c) PROVE ReadStep(c) \/ WriteStep(c)
  BY <1>1, CreateWrite, UpdateWrite, ReadCurrentRead, UpdateIfMatchWrite, DeleteWrite
  DEF Document
<1>2. ASSUME NEW c \in Clients, Branching(c) PROVE ReadStep(c) \/ WriteStep(c)
  BY <1>2, ForkListRead, ForkWrite, MergeListRead, MarkSteps, MergeTipWrite, RevertListRead,
     RevertHeadRead, RevertTipWrite
  DEF Branching
<1>3. ASSUME NEW c \in Clients, Retention(c) PROVE ReadStep(c) \/ WriteStep(c)
  BY <1>3, BranchesRead, AbandonListRead, PruneListRead, LoadDAGRead, QueryVersionsRead,
     QueryParentsRead, StoreDAGRead, AbandonWrite, PruneWrite
  DEF Retention
<1>4. ASSUME NEW c \in Clients, Fail(c) PROVE ReadStep(c)
  BY <1>4, FailRead
<1> QED BY <1>1, <1>2, <1>3, <1>4 DEF Next

LEMMA NextTypes == Types /\ [Next]_vars => Types'
<1> SUFFICES ASSUME Types, [Next]_vars PROVE Types' OBVIOUS
<1>1. CASE Next
  BY <1>1, StepKinds, CommitTypes, CrashTypes, ReadStepTypes, WriteStepTypes
<1>2. CASE UNCHANGED vars BY <1>2 DEF vars, Types
<1> QED BY <1>1, <1>2

LEMMA TypesInvariant == Spec => []Types
<1> QED BY InitTypes, NextTypes, PTL DEF Spec

-----------------------------------------------------------------------------
(* The history of a document that is created once. *)

LEMMA InitLife == Init => Life
<1> SUFFICES ASSUME Init PROVE Life OBVIOUS
<1>1. /\ db.versions = {} /\ db.doc = NoDoc /\ tx = NoTx /\ created = 0
      /\ \A c \in Clients : call[c] = NoCall
  BY DEF Init, EmptyDB
<1>2. NoList.versions = {} BY DEF NoList
<1> QED
  BY <1>1, <1>2, NoCallOK DEF Life, History, Owners, Follows, Reads, Beaten

LEMMA ReadStepLife ==
    ASSUME Types, Life, NEW c \in Clients, ReadStep(c) PROVE Life'
<1>1. PICK r : ReadRecord(c, r) /\ call' = [call EXCEPT ![c] = r] BY DEF ReadStep
<1>2. \A k \in Clients : call'[k] = IF k = c THEN r ELSE call[k] BY <1>1 DEF Types
<1>3. db' = db /\ tx' = tx /\ created' = created BY DEF ReadStep
<1>4. tx # NoTx => tx.owner \in Clients /\ tx.owner # c /\ call'[tx.owner] = call[tx.owner]
  BY <1>1, <1>2 DEF Types, Life, Owners, ReadRecord
<1>5. Over' <=> Over BY <1>3 DEF Over
<1>6. History(db') BY <1>3 DEF Life
<1>7. Owners' BY <1>3, <1>4 DEF Life, Owners
<1>8. Follows' BY <1>3 DEF Life, Follows
<1>9. Reads'
  <2> SUFFICES ASSUME NEW k \in Clients
               PROVE  /\ call'[k].list.versions # {} => created = 1
                      /\ \A v, w \in call'[k].list.versions : v[1] = w[1] => v = w
                      /\ \A v \in call'[k].list.versions : v[1] <= db.highWater \/ Over
    BY <1>3, <1>5 DEF Reads
  <2>1. CASE k # c \/ r.list = call[c].list BY <1>2, <2>1 DEF Life, Reads
  <2>2. CASE k = c /\ r.list = NoList BY <1>2, <2>2 DEF NoList
  <2>3. CASE k = c /\ r.list = DbList
    <3>1. call'[k].list.versions = db.versions BY <1>2, <2>3 DEF DbList
    <3> QED BY <3>1 DEF Life, Follows, History, Types, RowsOK, WellFormed
  <2> QED BY <1>1, <2>1, <2>2, <2>3 DEF ReadRecord
<1>10. Beaten'
  BY <1>1, <1>2, <1>3, <1>4, <1>5 DEF Life, Beaten, ReadRecord
<1> QED BY <1>6, <1>7, <1>8, <1>9, <1>10 DEF Life

LEMMA WriteStepLife ==
    ASSUME Types, Life, OneLife, NEW c \in Clients, WriteStep(c) PROVE Life'
<1>1. PICK d, then : Begin(c, d, then) /\ WriteRecord(c, d, then) /\ Legal(c, d)
  BY DEF WriteStep
<1>2. /\ tx = NoTx /\ tx' = [owner |-> c, db |-> d, then |-> then] /\ db' = db
      /\ call' = [call EXCEPT ![c].at = "commit"]
  BY <1>1 DEF Begin
<1>3. tx'.owner = c /\ tx'.db = d /\ tx'.then = then BY <1>2
<1>4. \A k \in Clients :
          /\ k # c => call'[k] = call[k]
          /\ call'[k].list = call[k].list /\ call'[k].beaten = call[k].beaten
          /\ call'[k].picked = call[k].picked /\ call'[k].op = call[k].op
          /\ k = c => call'[k].at = "commit"
  BY <1>2 DEF Types, CallRecords
<1>5. created' = 1 /\ created <= 1 BY <1>1 DEF Legal, Life, Follows
<1>6. Over => Over' BY <1>1, <1>2, <1>3, <1>5 DEF Over, Legal
<1>7. History(db') BY <1>2 DEF Life
<1>8. Owners' BY <1>1, <1>3, <1>4 DEF Owners, WriteRecord
<1>9. Follows' BY <1>1, <1>2, <1>3, <1>5 DEF Follows, Legal
<1>10. Reads' BY <1>2, <1>4, <1>5, <1>6 DEF Life, Reads
<1>11. Beaten' BY <1>1, <1>2, <1>3, <1>4, <1>6 DEF Life, Beaten, Legal
<1> QED BY <1>7, <1>8, <1>9, <1>10, <1>11 DEF Life

LEMMA CommitLife == ASSUME Types, Life, Commit PROVE Life'
<1>1. /\ tx # NoTx /\ db' = tx.db /\ tx' = NoTx /\ created' = created
      /\ call' = [c \in Clients |->
                    IF c = tx.owner THEN tx.then
                    ELSE [call[c] EXCEPT !.beaten = @ \/ SameMatch(c, tx.owner)]]
  BY DEF Commit
<1>2. tx.owner \in Clients /\ RowsOK(tx.db) BY <1>1 DEF Types
<1>3. \A k \in Clients : k # tx.owner =>
          /\ call'[k].list = call[k].list /\ call'[k].picked = call[k].picked
          /\ call'[k].beaten => call[k].beaten \/ SameMatch(k, tx.owner)
  BY <1>1 DEF Types, CallRecords
<1>4. call'[tx.owner] = tx.then BY <1>1, <1>2
<1>5. created = 1 BY <1>1 DEF Life, Follows
<1>6. Over' <=> tx.db.versions = {} BY <1>1, <1>5 DEF Over
<1>7. /\ db.highWater \in Nat /\ db'.highWater \in Nat
  BY <1>1, <1>2, RowsFields DEF Types, RowsOK
<1>8. Over' \/ (~Over /\ db'.highWater >= db.highWater)
  BY <1>1, <1>6 DEF Life, Follows, Over
<1>9. History(db') BY <1>1 DEF Life, Follows
<1>10. Owners' BY <1>1 DEF Owners
<1>11. Follows' BY <1>1, <1>5 DEF Follows
<1>12. Reads'
  <2> SUFFICES ASSUME NEW k \in Clients
               PROVE  /\ \A v, w \in call'[k].list.versions : v[1] = w[1] => v = w
                      /\ \A v \in call'[k].list.versions : v[1] <= db'.highWater \/ Over'
    BY <1>1, <1>5 DEF Reads
  <2>1. call'[k].list = NoList \/ call'[k].list = call[k].list
    BY <1>1, <1>3, <1>4 DEF Life, Owners
  <2>2. CASE call'[k].list = NoList BY <2>2 DEF NoList
  <2>3. CASE call'[k].list = call[k].list
    <3>1. \A v \in call[k].list.versions : v[1] \in Nat
      BY VidFacts DEF Types, CallRecords, Lists
    <3>2. \A v \in call[k].list.versions : v[1] <= db.highWater \/ Over BY DEF Life, Reads
    <3>3. \A v \in call[k].list.versions : v[1] <= db'.highWater \/ Over'
      BY <1>7, <1>8, <3>1, <3>2
    <3> QED BY <2>3, <3>3 DEF Life, Reads
  <2> QED BY <2>1, <2>2, <2>3
<1>13. Beaten'
  <2> SUFFICES ASSUME NEW k \in Clients, call'[k].beaten
               PROVE  call'[k].picked[1][1] < db'.highWater \/ Over'
    BY <1>1 DEF Beaten
  <2>1. k # tx.owner BY <1>1, <1>4 DEF Life, Owners
  <2>2. call'[k].picked = call[k].picked BY <1>3, <2>1
  <2>3. CASE call[k].beaten
    <3>1. call[k].picked[1][1] \in Nat
      <4>1. call[k].op = "match" BY <2>3 DEF Types, CallOK
      <4>2. call[k].picked \in Seq(Vid) /\ call[k].picked # <<>>
        BY <4>1 DEF Types, CallOK, CallRecords
      <4>3. call[k].picked[1] \in Vid BY <4>2
      <4> QED BY <4>3, VidFacts
    <3>2. call[k].picked[1][1] < db.highWater \/ Over BY <2>3 DEF Life, Beaten
    <3> QED BY <1>7, <1>8, <2>2, <3>1, <3>2
  <2>4. CASE SameMatch(k, tx.owner)
    BY <1>1, <2>2, <2>4 DEF Life, Beaten, SameMatch
  <2> QED BY <1>3, <2>1, <2>3, <2>4
<1> QED BY <1>9, <1>10, <1>11, <1>12, <1>13 DEF Life

LEMMA CrashLife == ASSUME Types, Life, Crash PROVE Life'
<1>1. /\ db' = db /\ tx' = NoTx /\ created' = created
      /\ \A c \in Clients : call'[c] = NoCall
  BY DEF Crash
<1>2. NoList.versions = {} BY DEF NoList
<1> QED
  BY <1>1, <1>2, NoCallOK DEF Life, History, Owners, Follows, Reads, Beaten

LEMMA NextLife == OneLife /\ Types /\ Life /\ [Next]_vars => Life'
<1> SUFFICES ASSUME OneLife, Types, Life, [Next]_vars PROVE Life' OBVIOUS
<1>1. CASE Next
  BY <1>1, StepKinds, CommitLife, CrashLife, ReadStepLife, WriteStepLife
<1>2. CASE UNCHANGED vars
  BY <1>2 DEF vars, Life, History, Owners, Follows, Reads, Beaten, Over
<1> QED BY <1>1, <1>2

LEMMA LifeInvariant == ASSUME OneLife PROVE Spec => []Life
<1>1. Types /\ Life /\ [Next]_vars => Life' BY NextLife
<1> QED BY <1>1, InitLife, TypesInvariant, PTL DEF Spec

-----------------------------------------------------------------------------
(* The theorems. *)

\* The rows are well formed whatever requests interleave and wherever they are
\* cut: edges and live bits belong to rows, an edge goes to an older version, no
\* row is newer than the counter (TypeOK), for every policy and any number of
\* creations.
THEOREM RowsWellFormed == Spec => []TypeOK
<1>1. Types => TypeOK BY DEF Types, TypeOK, RowsOK
<1> QED BY <1>1, TypesInvariant, PTL

\* The refcount of a snapshot blob is the number of versions that hold it, after
\* every commit of an append, a prune or a delete (BlobsCounted).
THEOREM RefcountsExact == Spec => []BlobsCounted
<1>1. Types => BlobsCounted BY DEF Types, RowsOK, Counted, BlobsCounted
<1> QED BY <1>1, TypesInvariant, PTL

\* Of two conditional updates that name the same version, one that still waits
\* when the other commits does not write (NoLostUpdate), if the document is
\* created once and no prune is by age alone: either reuses what the newest
\* version is named by.
THEOREM ConditionalUpdatesSafe == ASSUME OneLife PROVE Spec => []NoLostUpdate
<1>1. Life => NoLostUpdate BY DEF Life, Beaten, NoLostUpdate
<1> QED BY <1>1, LifeInvariant, PTL

\* A document that is created once and never pruned by age alone exists exactly
\* when it has history: nothing that listed its versions before a Delete revives
\* it, and no prune empties it (DocumentHasHistory).
THEOREM HistoryOfDocument == ASSUME OneLife PROVE Spec => []DocumentHasHistory
<1>1. Life => DocumentHasHistory BY DEF Life, History, DocumentHasHistory
<1> QED BY <1>1, LifeInvariant, PTL
=============================================================================
