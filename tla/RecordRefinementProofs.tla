------------------------ MODULE RecordRefinementProofs ------------------------
(***************************************************************************)
(* Theorems about the record repository as a document store: where the     *)
(* keys of shared URIs stay, the four tables implement DocumentStore, and  *)
(* what is replaced is retired.                                            *)
(*                                                                         *)
(* Only a commit changes committed rows, so that every other step is a     *)
(* stutter of the store.  What is left is that a commit makes the one step *)
(* of its kind, which needs Exactness: what the transaction has written is *)
(* that step's change and nothing else.                                    *)
(***************************************************************************)
EXTENDS RecordRefinement, RecordIntegrityProofs

-----------------------------------------------------------------------------
(* The statements of one transaction leave the rows of the others.         *)

KeptAll(x) ==
    Kept(commitLog, commitLog', x) /\ Kept(record, record', x) /\ Kept(recordKey, recordKey', x)

\* A rollback leaves what other transactions have written.
LEMMA RollbackSteady ==
    ASSUME Parts, NEW S \in SUBSET Tx, Rollback(S), NEW x \in Tx \ S
    PROVE  KeptAll(x)
<1>1. Kept(commitLog, commitLog', x) /\ Kept(record, record', x)
  BY TablesTyped, RollbackKeeps DEF Rollback
<1>2. Kept(recordKey, recordKey', x)
  BY TablesTyped, RollbackKeeps DEF Rollback
<1> QED
  BY <1>1, <1>2 DEF KeptAll

\* Nor does a failed statement touch it, or a step that leaves the tables.
LEMMA QuietSteady ==
    ASSUME Parts, NEW t \in Tx, NEW x \in Tx \ {t}, NEW r,
           Fail(t, r) \/ Reply(t, r) \/ UNCHANGED tables
    PROVE  KeptAll(x)
<1>1. CASE Fail(t, r)
  <2>1. {t} \in SUBSET Tx /\ x \in Tx \ {t} /\ Rollback({t})
    BY <1>1 DEF Fail
  <2> QED
    BY <2>1, RollbackSteady
<1>2. CASE UNCHANGED tables
  BY <1>2, NothingKeeps DEF tables, KeptAll
<1> QED
  BY <1>1, <1>2 DEF Reply

\* The statements of a creation or an association wait for what they would overwrite,
LEMMA WriterSteady ==
    ASSUME Integrity, NEW t \in Tx, Create(t) \/ Associate(t), NEW x \in Tx \ {t}
    PROVE  KeptAll(x)
<1> DEFINE d == tx[t].doc
           u == tx[t].uri
           old == tx[t].old
<1>1. Parts /\ TxInv /\ WellDirected(tx[t]) /\ Course(tx[t])
  BY IntegrityOf DEF Parts
<1>2. CASE InsertCommit(t)
  <2>1. tx[t].pc = "insert_commit" /\ Writer(commitLog, d, t) = {}
    BY <1>2 DEF InsertCommit, At, Blockers
  <2>2. d \in Doc
    BY <1>1, <2>1, DocumentKeys DEF Course, Kinded, Written
  <2>3. CASE commitLog' = Write(commitLog, d, t, "kept")
    <3>1. Kept(commitLog, commitLog', x)
      BY <1>1, <2>1, <2>2, <2>3, WriteKeeps, LogTyped
    <3> QED
      BY <1>2, <3>1, NothingKeeps DEF InsertCommit, KeptAll
  <2>4. CASE commitLog' = commitLog
    BY <1>2, <2>4, NothingKeeps DEF InsertCommit, KeptAll
  <2> QED
    BY <1>2, <2>3, <2>4 DEF InsertCommit
<1>3. CASE InsertRecord(t)
  <2>1. /\ tx[t].pc = "insert_record"
        /\ Writer(record, d, t) = {} /\ Remover(commitLog, d, t) = {}
    BY <1>3 DEF InsertRecord, At, Blockers
  <2>2. d \in RecordDoc /\ d \in Doc
    BY <1>1, <2>1, DocumentKeys DEF Course, Kinded, Written, Creating
  <2>3. CASE /\ record' = Write(record, d, t, TRUE)
             /\ commitLog' = Share(commitLog, d, t)
             /\ recordKey' = recordKey
    <3>1. Kept(record, record', x)
      BY <1>1, <2>1, <2>2, <2>3, WriteKeeps, RecordTyped
    <3>2. Kept(commitLog, commitLog', x)
      BY <1>1, <2>1, <2>2, <2>3, ShareKeeps, LogTyped
    <3> QED
      BY <2>3, <3>1, <3>2, NothingKeeps DEF KeptAll
  <2> QED
    BY <1>1, <1>3, <2>3, QuietSteady DEF InsertRecord
<1>4. CASE LockKey(t)
  <2>1. tx[t].pc = "lock_key" /\ (Present(u, t) => Users(recordKey, u, t) = {})
    BY <1>4 DEF LockKey, At, Blockers
  <2>2. u \in Uri
    BY <1>1, <2>1, DocumentKeys DEF Course, Kinded, Written, Creating, Listed
  <2>3. Kept(recordKey, recordKey', x)
    <3>1. CASE Present(u, t)
      <4>1. recordKey' = ForUpdate(recordKey, u, t)
        BY <1>4, <3>1 DEF LockKey, Locked
      <4> QED
        BY <1>1, <2>1, <2>2, <3>1, <4>1, RemoveKeeps, KeyTyped
    <3>2. CASE ~Present(u, t)
      BY <1>4, <3>2, NothingKeeps DEF LockKey, Locked
    <3> QED
      BY <3>1, <3>2
  <2> QED
    BY <1>4, <2>3, NothingKeeps DEF LockKey, KeptAll
<1>5. CASE Climb(t) \/ Distribute(t)
  BY <1>1, <1>5, QuietSteady DEF Climb, Distribute
<1>6. CASE Plant(t)
  <2>1. tx[t].pc = "plant" /\ Writer(recordKey, Head(tx[t].path), t) = {}
    BY <1>6 DEF Plant, At, Blockers
  <2>2. Head(tx[t].path) \in Uri
    BY <1>1, <2>1 DEF TxInv, TxState, WellDirected
  <2>3. CASE ~Fail(t, "error")
    <3>1. /\ recordKey' = Write(recordKey, Head(tx[t].path), t,
                                Placeholder(Head(tx[t].path), tx[t].pid))
          /\ UNCHANGED <<commitLog, record>>
      BY <1>6, <2>3 DEF Plant
    <3>2. Kept(recordKey, recordKey', x)
      BY <1>1, <2>1, <2>2, <3>1, WriteKeeps, KeyTyped
    <3> QED
      BY <3>1, <3>2, NothingKeeps DEF KeptAll
  <2> QED
    BY <1>1, <2>3, QuietSteady
<1>7. CASE Point(t)
  <2>1. /\ tx[t].pc = "point" /\ Writer(recordKey, u, t) = {} /\ Remover(record, d, t) = {}
    <3>1. tx[t].pc = "point" /\ Holder(recordKey, u, t) \cup Remover(record, d, t) = {}
      BY <1>7 DEF Point, At, Blockers
    <3> QED
      BY <3>1 DEF Holder, Writer
  <2>2. d \in RecordDoc /\ u \in Uri
    BY <1>1, <2>1, DocumentKeys DEF Course, Kinded, Written, Creating, Listed
  <2>3. CASE ~Fail(t, "error")
    <3>1. /\ recordKey' = Write(recordKey, u, t, PointedAt(Sees(recordKey, u, t), t))
          /\ record' = Share(record, d, t)
          /\ UNCHANGED commitLog
      BY <1>7, <2>3 DEF Point
    <3>2. Kept(recordKey, recordKey', x)
      BY <1>1, <2>1, <2>2, <3>1, WriteKeeps, KeyTyped
    <3>3. Kept(record, record', x)
      BY <1>1, <2>1, <2>2, <3>1, ShareKeeps, RecordTyped
    <3> QED
      BY <3>1, <3>2, <3>3, NothingKeeps DEF KeptAll
  <2> QED
    BY <1>1, <2>3, QuietSteady
<1>8. CASE FlagOld(t)
  <2>1. tx[t].pc = "flag_old"
        /\ (commitLog[old].row # "none" => Writer(commitLog, old, t) = {})
    <3>1. tx[t].pc = "flag_old"
          /\ (commitLog[old].row # "none" => Holder(commitLog, old, t) = {})
      BY <1>8 DEF FlagOld, At, Blockers
    <3> QED
      BY <3>1 DEF Holder, Writer
  <2>2. old \in Doc
    BY <1>1, <2>1, DocumentKeys DEF Course, Kinded, Replaced, Creating, Listed, Pointed
  <2>3. Kept(commitLog, commitLog', x)
    <3>1. CASE commitLog[old].row # "none"
      BY <1>1, <1>8, <2>1, <2>2, <3>1, WriteKeeps, LogTyped DEF FlagOld
    <3>2. CASE commitLog[old].row = "none"
      BY <1>8, <3>2, NothingKeeps DEF FlagOld
    <3> QED
      BY <3>1, <3>2
  <2> QED
    BY <1>8, <2>3, NothingKeeps DEF FlagOld, KeptAll
<1>9. CASE DropOld(t)
  <2>1. tx[t].pc = "drop_old" /\ (record[old].row => Users(record, old, t) = {})
    BY <1>9 DEF DropOld, At, Blockers
  <2>2. old \in RecordDoc
    BY <1>1, <2>1, DocumentKeys DEF Course, Kinded, Replaced, Creating, Listed, Pointed
  <2>3. Kept(record, record', x)
    <3>1. CASE record[old].row
      <4>1. record' = Remove(record, old, t, FALSE)
        BY <1>9, <3>1 DEF DropOld
      <4> QED
        BY <1>1, <2>1, <2>2, <3>1, <4>1, RemoveKeeps, RecordTyped
    <3>2. CASE ~record[old].row
      BY <1>9, <3>2, NothingKeeps DEF DropOld
    <3> QED
      BY <3>1, <3>2
  <2> QED
    BY <1>9, <2>3, NothingKeeps DEF DropOld, KeptAll
<1>10. CASE Publish(t) \/ FindTarget(t)
  BY <1>1, <1>10, QuietSteady DEF Publish, FindTarget
<1>11. CASE InsertAssociation(t)
  <2>1. tx[t].pc = "insert_association" /\ Remover(recordKey, u, t) = {}
    BY <1>11 DEF InsertAssociation, At, Blockers
  <2>2. u \in Uri
    BY <1>1, <2>1, DocumentKeys DEF Course, Kinded, Written, Attaching
  <2>3. CASE ~Fail(t, "error")
    <3>1. recordKey' = Share(recordKey, u, t) /\ UNCHANGED <<commitLog, record>>
      BY <1>11, <2>3 DEF InsertAssociation
    <3>2. Kept(recordKey, recordKey', x)
      BY <1>1, <2>1, <2>2, <3>1, ShareKeeps, KeyTyped
    <3> QED
      BY <3>1, <3>2, NothingKeeps DEF KeptAll
  <2> QED
    BY <1>1, <2>3, QuietSteady
<1>12. CASE Commit(t)
  BY <1>12, CommitRows DEF Steady, KeptAll
<1> QED
  BY <1>2, <1>3, <1>4, <1>5, <1>6, <1>7, <1>8, <1>9, <1>10, <1>11, <1>12
  DEF Create, Associate

\* and so do those of a delete.
LEMMA ReaderSteady ==
    ASSUME Integrity, NEW t \in Tx, Find(t) \/ Delete(t), NEW x \in Tx \ {t}
    PROVE  KeptAll(x)
<1> DEFINE d == tx[t].doc
           u == UriOf(d)
<1>1. Parts /\ Course(tx[t])
  BY IntegrityOf
<1>2. CASE Find(t)
  BY <1>1, <1>2, QuietSteady DEF Find, FindById, FindKey, FindRecord, FindCommit
<1>3. CASE DeleteCommit(t)
  <2>1. tx[t].pc = "delete_commit" /\ (d # NoDoc => Users(commitLog, d, t) = {})
    BY <1>3 DEF DeleteCommit, At, Blockers
  <2>2. CASE ~Reply(t, "ok")
    <3>1. d # NoDoc /\ d \in Doc
      BY <1>1, <1>3, <2>1, <2>2, DocumentKeys DEF DeleteCommit, Course, Written
    <3>2. /\ commitLog' = Remove(commitLog, d, t, "none")
          /\ UNCHANGED <<record, recordKey>>
      BY <1>3, <2>2 DEF DeleteCommit
    <3>3. Kept(commitLog, commitLog', x)
      BY <1>1, <2>1, <3>1, <3>2, RemoveKeeps, LogTyped
    <3> QED
      BY <3>2, <3>3, NothingKeeps DEF KeptAll
  <2> QED
    BY <1>1, <2>2, QuietSteady
<1>4. CASE DeleteRecord(t)
  <2>1. tx[t].pc = "delete_record" /\ (record[d].row => Users(record, d, t) = {})
    BY <1>4 DEF DeleteRecord, At, Blockers
  <2>2. d \in RecordDoc
    BY <1>1, <2>1 DEF Course, Kinded, Written, Deleting
  <2>3. Kept(record, record', x)
    <3>1. CASE record[d].row
      <4>1. record' = Remove(record, d, t, FALSE)
        BY <1>4, <3>1 DEF DeleteRecord
      <4> QED
        BY <1>1, <2>1, <2>2, <3>1, <4>1, RemoveKeeps, RecordTyped
    <3>2. CASE ~record[d].row
      BY <1>4, <3>2, NothingKeeps DEF DeleteRecord
    <3> QED
      BY <3>1, <3>2
  <2> QED
    BY <1>4, <2>3, NothingKeeps DEF DeleteRecord, KeptAll
<1>5. CASE DeleteKey(t)
  <2>1. tx[t].pc = "delete_key" /\ (Cascades(d) => Users(recordKey, u, t) = {})
    BY <1>5 DEF DeleteKey, At, Blockers
  <2>2. u \in Uri
    BY <1>1, <2>1, DocumentKeys DEF Course, Kinded, Written, Deleting
  <2>3. Kept(recordKey, recordKey', x)
    <3>1. CASE Cascades(d)
      <4>1. recordKey' = Remove(recordKey, u, t, NoKey)
        BY <1>5, <3>1 DEF DeleteKey
      <4> QED
        BY <1>1, <2>1, <2>2, <3>1, <4>1, RemoveKeeps, KeyTyped
    <3>2. CASE ~Cascades(d)
      BY <1>5, <3>2, NothingKeeps DEF DeleteKey
    <3> QED
      BY <3>1, <3>2
  <2> QED
    BY <1>5, <2>3, NothingKeeps DEF DeleteKey, KeptAll
<1> QED
  BY <1>2, <1>3, <1>4, <1>5 DEF Delete

-----------------------------------------------------------------------------
(* A transaction that does not move stays exact.                           *)

\* The phases in which a transaction has written no commit.
AtRest == Replies \cup Reading \cup {"new", "idle", "insert_commit"}

\* A transaction whose rows nobody touches stays exact.
LEMMA SteadyExact ==
    ASSUME Integrity, NEW x \in Tx, Exact(x), KeptAll(x), Unmoved(x), NoRowChanges
    PROVE  Exact(x)'
<1> DEFINE s == tx[x]
<1>1. Parts /\ Course(s)
  BY IntegrityOf
<1>2. \A d \in Doc :
        /\ commitLog'[d].row = commitLog[d].row
        /\ commitLog'[d].by = x <=> commitLog[d].by = x
        /\ commitLog[d].by = x => commitLog'[d].dirty = commitLog[d].dirty
  BY <1>1, LogTyped DEF KeptAll, Kept, Own, NoRowChanges, SameRows
<1>3. \A d \in RecordDoc :
        /\ record'[d].by = x <=> record[d].by = x
        /\ record[d].by = x => record'[d].dirty = record[d].dirty
  BY <1>1, RecordTyped DEF KeptAll, Kept, Own
<1>4. \A u \in Uri :
        /\ recordKey'[u].row = recordKey[u].row
        /\ recordKey'[u].by = x <=> recordKey[u].by = x
        /\ recordKey[u].by = x => recordKey'[u].dirty = recordKey[u].dirty
        /\ Sole(recordKey, u, x) => Sole(recordKey', u, x)
  BY <1>1, KeyTyped DEF KeptAll, Kept, Own, NoRowChanges, SameRows
<1>5. CommitsWritten(x)'
  BY <1>2 DEF Exact, CommitsWritten, Unmoved
<1>6. KeysWritten(x)'
  BY <1>4 DEF Exact, KeysWritten, Unmoved
<1>7. OldIsLive(x)'
  <2>1. s.kind = "create" /\ s.pc \in Listed => s.uri \in Uri
    BY <1>1, DocumentKeys DEF Course, Written
  <2> QED
    BY <1>4, <2>1 DEF Exact, OldIsLive, Unmoved
<1>8. OldIsRetired(x)'
  <2>1. s.kind = "create" /\ s.old # NoDoc /\ s.pc \in Retiring =>
            s.old \in RecordDoc /\ s.old \in Doc
    BY <1>1, DocumentKeys DEF Course, Replaced, Listed, Pointed, Retiring
  <2> QED
    BY <1>2, <1>3, <2>1 DEF Exact, OldIsRetired, Unmoved, Retiring
<1> QED
  BY <1>5, <1>6, <1>7, <1>8 DEF Exact, Unmoved

\* Nor does the commit of another one disturb it: that one holds no shared key.
LEMMA CommitSparesExact ==
    ASSUME Exactness, NEW t \in Tx, Commit(t), NEW x \in Tx \ {t}
    PROVE  Exact(x)'
<1> DEFINE s == tx[x]
<1>1. /\ Integrity /\ Parts /\ KeysInv /\ Course(s) /\ Grip(t) /\ Exact(x) /\ Exact(t)
      /\ Course(tx[t]) /\ tx[t].pc = "commit"
      /\ KeptAll(x) /\ Unmoved(x) /\ Spares(x)
  <2>1. Integrity /\ Parts /\ KeysInv
    BY IntegrityOf DEF Exactness, Parts
  <2>2. Unmoved(x)
    BY <2>1 DEF Commit, Unmoved, Parts, TxInv
  <2>3. Steady(x) /\ Spares(x)
    BY <2>1, CommitRows, CommitSpares
  <2> QED
    BY <2>1, <2>2, <2>3, IntegrityOf DEF Exactness, Commit, At, Steady, KeptAll
<1>2. \A d \in Doc :
        /\ commitLog[d].by = x => commitLog'[d].row = commitLog[d].row
        /\ commitLog'[d].by = x <=> commitLog[d].by = x
        /\ commitLog[d].by = x => commitLog'[d].dirty = commitLog[d].dirty
  BY <1>1, LogTyped DEF KeptAll, Kept, Own, Spares
<1>3. \A d \in RecordDoc :
        /\ record'[d].by = x <=> record[d].by = x
        /\ record[d].by = x => record'[d].dirty = record[d].dirty
  BY <1>1, RecordTyped DEF KeptAll, Kept, Own
<1>4. \A u \in Uri :
        /\ recordKey[u].by = x => recordKey'[u].row = recordKey[u].row
        /\ recordKey'[u].by = x <=> recordKey[u].by = x
        /\ recordKey[u].by = x => recordKey'[u].dirty = recordKey[u].dirty
        /\ Sole(recordKey, u, x) => Sole(recordKey', u, x)
  BY <1>1, KeyTyped DEF KeptAll, Kept, Own, Spares
<1>5. CommitsWritten(x)'
  BY <1>1, <1>2 DEF Exact, CommitsWritten, Unmoved
<1>6. KeysWritten(x)'
  BY <1>1, <1>4 DEF Exact, KeysWritten, Unmoved
<1>7. OldIsLive(x)'
  <2> DEFINE u == s.uri
  <2>1. SUFFICES ASSUME s.kind = "create", s.pc \in Listed \ {"lock_key"}, Shared(u)
                 PROVE  s.old = recordKey'[u].row.rec /\ Sole(recordKey', u, x)
    BY <1>1 DEF OldIsLive, Unmoved
  <2>2. u \in Uri /\ s.old = recordKey[u].row.rec /\ Sole(recordKey, u, x)
    BY <1>1, <2>1, DocumentKeys DEF Course, Written, Exact, OldIsLive
  <2>3. recordKey[u].row.id # NoId
    BY <2>1, <2>2 DEF Exactness, SharedKeysThere, Has
  <2>4. recordKey[u].by # t
    <3>1. SUFFICES ASSUME recordKey[u].by = t
                   PROVE  FALSE
      OBVIOUS
    <3>2. CASE recordKey[u].dirty.rec # NoDoc
      <4>1. tx[t].kind = "create" /\ tx[t].uri = u
        BY <1>1, <2>2, <3>1, <3>2 DEF Grip, KeyPointed
      <4>2. Sole(recordKey, u, t)
        BY <1>1, <2>1, <4>1 DEF Exact, OldIsLive, Listed, Pointed
      <4> QED
        BY <2>2, <4>2 DEF Sole
    <3>3. CASE recordKey[u].dirty.rec = NoDoc /\ recordKey[u].dirty.id = NoId
      BY <1>1, <2>2, <3>1, <3>3 DEF Grip, KeyDeleted, Sole
    <3>4. CASE recordKey[u].dirty.rec = NoDoc /\ recordKey[u].dirty.id # NoId
      BY <1>1, <2>2, <2>3, <3>1, <3>4 DEF Exact, KeysWritten, NoKey
    <3> QED
      BY <3>2, <3>3, <3>4
  <2>5. recordKey'[u].row = recordKey[u].row
    BY <1>1, <2>2, <2>4, CommitRows DEF Sees
  <2> QED
    BY <1>4, <2>2, <2>5
<1>8. OldIsRetired(x)'
  <2>1. s.kind = "create" /\ s.old # NoDoc /\ s.pc \in Retiring =>
            s.old \in RecordDoc /\ s.old \in Doc
    BY <1>1, DocumentKeys DEF Course, Replaced, Listed, Pointed, Retiring
  <2> QED
    BY <1>1, <1>2, <1>3, <2>1 DEF Exact, OldIsRetired, Unmoved, Retiring
<1> QED
  BY <1>1, <1>5, <1>6, <1>7, <1>8 DEF Exact, Unmoved

\* A transaction at rest that reads, or begins, stays exact,
LEMMA ReadExact ==
    ASSUME Integrity, NEW t \in Tx, Exact(t), UNCHANGED tables,
           tx[t].pc \in AtRest, tx'[t].pc \in AtRest \cup {"insert_record"},
           MayName(tx'[t].kind, tx'[t].doc, tx'[t].uri)
    PROVE  Exact(t)'
<1>1. /\ \A d \in Doc : commitLog[d].by # t
      /\ \A u \in Uri : (recordKey[u].by = t /\ recordKey[u].dirty.rec = NoDoc) =>
            recordKey[u].dirty.id # NoId /\ recordKey[u].row = NoKey
  <2>1. tx[t].pc \notin Writing \cup Retiring \cup Deleting
    BY DEF AtRest, Writing, Listed, Pointed, Attaching, Retiring, Deleting, Replies, Reading
  <2>2. Grip(t)
    BY IntegrityOf
  <2>3. \A u \in Uri : recordKey[u].by = t => recordKey[u].dirty.id # NoId
    BY <2>1, <2>2 DEF Grip, KeyDeleted, Retiring
  <2> QED
    BY <2>1, <2>3 DEF Exact, CommitsWritten, KeysWritten
<1>2. tx'[t].pc \notin Listed \cup Retiring
  BY DEF AtRest, Listed, Pointed, Retiring, Replies, Reading
<1> QED
  BY <1>1, <1>2 DEF tables, Exact, CommitsWritten, KeysWritten, OldIsLive, OldIsRetired

\* and so does one that is over.
LEMMA OverExact ==
    ASSUME NEW t \in Tx, tx'[t].pc \in AtRest,
           \A d \in Doc : commitLog'[d].by # t,
           \A u \in Uri : recordKey'[u].by # t,
           MayName(tx'[t].kind, tx'[t].doc, tx'[t].uri)
    PROVE  Exact(t)'
<1>1. tx'[t].pc \notin Listed \cup Retiring
  BY DEF AtRest, Listed, Pointed, Retiring, Replies, Reading
<1> QED
  BY <1>1 DEF Exact, CommitsWritten, KeysWritten, OldIsLive, OldIsRetired

\* What is over names what it named, or nothing.
LEMMA EndedMayName ==
    ASSUME NEW t \in Tx, NEW r, MayName(tx[t].kind, tx[t].doc, tx[t].uri)
    PROVE  LET s == Ended(t, r) IN MayName(s.kind, s.doc, s.uri)
  BY DEF Ended, Fresh, MayName

-----------------------------------------------------------------------------
(* A transaction that moves stays exact.                                   *)

\* A statement that fails, or a request that is answered without a commit.
LEMMA FailExact ==
    ASSUME Integrity, NEW t \in Tx, Exact(t), NEW r \in Replies, Fail(t, r)
    PROVE  Exact(t)'
<1>1. Parts /\ tx \in [Tx -> TxState] /\ {t} \in SUBSET Tx
  BY IntegrityOf DEF Parts, TxInv
<1>2. tx'[t] = Ended(t, r)
  BY <1>1 DEF Fail
<1>3. tx'[t].pc \in AtRest /\ MayName(tx'[t].kind, tx'[t].doc, tx'[t].uri)
  BY <1>2, EndedPc, EndedMayName DEF AtRest, Exact
<1>4. /\ \A d \in Doc : commitLog'[d].by # t
      /\ \A u \in Uri : recordKey'[u].by # t
  BY <1>1, LogTyped, KeyTyped, RollbackKeeps DEF Fail, Rollback
<1> QED
  BY <1>3, <1>4, OverExact

\* A reader that replies has written nothing.
LEMMA ReplyExact ==
    ASSUME Integrity, NEW t \in Tx, Exact(t), NEW r \in Replies, Reply(t, r),
           tx[t].pc \in Reading
    PROVE  Exact(t)'
<1>1. tx'[t] = Ended(t, r)
  <2>1. tx \in [Tx -> TxState]
    BY IntegrityOf DEF Parts, TxInv
  <2> QED
    BY <2>1 DEF Reply
<1>2. tx'[t].pc \in AtRest /\ MayName(tx'[t].kind, tx'[t].doc, tx'[t].uri)
  BY <1>1, EndedPc, EndedMayName DEF AtRest, Exact
<1> QED
  BY <1>2, ReadExact DEF Reply, AtRest

\* The commit is written as it was not there,
LEMMA InsertCommitExact ==
    ASSUME Integrity, NEW t \in Tx, Exact(t), InsertCommit(t)
    PROVE  Exact(t)'
<1> DEFINE d == tx[t].doc
           pc == IF d \in AssocDoc THEN "find_target" ELSE "insert_record"
<1>1. /\ Parts /\ TxInv /\ Course(tx[t]) /\ tx[t].pc = "insert_commit"
      /\ Goto(t, pc) /\ recordKey' = recordKey
      /\ commitLog' = IF commitLog[d].row = "none"
                      THEN Write(commitLog, d, t, "kept") ELSE commitLog
  BY IntegrityOf DEF Parts, InsertCommit, At
<1>2. Onward(t, pc) /\ pc \in Writing /\ pc \notin Listed \cup Retiring
  BY <1>1, GotoOnward DEF Writing, Listed, Pointed, Retiring, Attaching
<1>3. d \in Doc /\ tx[t].kind \in {"create", "associate"}
  BY <1>1, DocumentKeys DEF Course, Kinded, Written
<1> HIDE DEF pc
<1>4. \A j \in Doc : commitLog[j].by # t
  BY <1>1 DEF Exact, CommitsWritten, Writing, Listed, Pointed, Attaching, Retiring, Deleting
<1>5. CommitsWritten(t)'
  <2>1. CASE commitLog[d].row = "none"
    <3>1. commitLog' = Write(commitLog, d, t, "kept")
      BY <1>1, <2>1
    <3>2. \A j \in Doc :
              /\ commitLog'[j].row = commitLog[j].row
              /\ j # d => commitLog'[j].by = commitLog[j].by
              /\ j = d => commitLog'[j].by = t /\ commitLog'[j].dirty = "kept"
      BY <1>1, <1>3, <3>1, WriteCells, LogTyped
    <3> QED
      BY <1>2, <1>3, <1>4, <2>1, <3>2 DEF CommitsWritten, Onward
  <2>2. CASE commitLog[d].row # "none"
    BY <1>1, <1>4, <2>2 DEF CommitsWritten
  <2> QED
    BY <2>1, <2>2
<1>6. KeysWritten(t)' /\ OldIsLive(t)' /\ OldIsRetired(t)'
  BY <1>1, <1>2 DEF Exact, KeysWritten, OldIsLive, OldIsRetired, Onward
<1> QED
  BY <1>2, <1>5, <1>6 DEF Exact, Onward

\* What stays is what neither the commits nor the keys of t nor what it found change.
LEMMA OnwardExact ==
    ASSUME Integrity, NEW t \in Tx, Exact(t), NEW pc, Onward(t, pc),
           \A d \in Doc : /\ commitLog'[d].row = commitLog[d].row
                          /\ commitLog'[d].by = commitLog[d].by
                          /\ commitLog'[d].dirty = commitLog[d].dirty,
           KeysWritten(t)',
           \A u \in Uri : /\ recordKey'[u].row = recordKey[u].row
                          /\ Sole(recordKey, u, t) => Sole(recordKey', u, t),
           tx[t].pc \in Writing => pc \in Writing,
           tx[t].pc \in Deleting => pc \in Deleting,
           tx[t].pc \in Retiring => pc \in Retiring,
           pc \in Listed \ {"lock_key"} =>
               tx[t].pc \in Listed \ {"lock_key"} \/ tx[t].kind # "create",
           OldIsRetired(t)'
    PROVE  Exact(t)'
<1>1. CommitsWritten(t)'
  BY DEF Exact, CommitsWritten, Onward
<1>2. OldIsLive(t)'
  <2>1. (tx[t].kind = "create" /\ tx[t].pc \in Listed) => tx[t].uri \in Uri
    BY IntegrityOf, DocumentKeys DEF Course, Written
  <2> QED
    BY <2>1 DEF Exact, OldIsLive, Onward
<1> QED
  BY <1>1, <1>2 DEF Exact, Onward

\* the record under the lock of the commit,
LEMMA InsertRecordExact ==
    ASSUME Integrity, NEW t \in Tx, Exact(t), InsertRecord(t)
    PROVE  Exact(t)'
<1> DEFINE d == tx[t].doc
<1>1. /\ Parts /\ TxInv /\ Course(tx[t]) /\ tx[t].pc = "insert_record"
  BY IntegrityOf DEF Parts, InsertRecord, At
<1>2. CASE Fail(t, "error")
  BY <1>2, FailExact DEF Replies
<1>3. CASE ~Fail(t, "error")
  <2>1. /\ Goto(t, "lock_key") /\ recordKey' = recordKey
        /\ commitLog' = Share(commitLog, d, t) \/ commitLog' = commitLog
    BY <1>3 DEF InsertRecord, tables
  <2>2. Onward(t, "lock_key")
    BY <1>1, <2>1, GotoOnward
  <2>3. d \in Doc
    BY <1>1, DocumentKeys DEF Course, Kinded, Written, Creating
  <2>4. \A j \in Doc : /\ commitLog'[j].row = commitLog[j].row
                       /\ commitLog'[j].by = commitLog[j].by
                       /\ commitLog'[j].dirty = commitLog[j].dirty
    <3>1. CASE commitLog' = Share(commitLog, d, t)
      BY <1>1, <2>3, <3>1, ShareCells, LogTyped
    <3> QED
      BY <2>1, <3>1
  <2>5. KeysWritten(t)' /\ OldIsRetired(t)'
    BY <2>1, <2>2 DEF Exact, KeysWritten, OldIsRetired, Onward, Retiring
  <2> QED
    BY <1>1, <2>1, <2>2, <2>4, <2>5, OnwardExact
    DEF Writing, Deleting, Retiring, Listed, Pointed, Attaching
<1> QED
  BY <1>2, <1>3

\* and a shared key, which is there, is locked: what it resolves to stays until t ends.
LEMMA LockKeyExact ==
    ASSUME Exactness, NEW t \in Tx, LockKey(t)
    PROVE  Exact(t)'
<1> DEFINE u == tx[t].uri
           old == Sees(recordKey, u, t).rec
<1>1. /\ Integrity /\ Parts /\ TxInv /\ Light(t) /\ Course(tx[t]) /\ Exact(t)
      /\ tx[t].pc = "lock_key" /\ Blockers(t) = {}
      /\ recordKey' = Locked(u, t) /\ commitLog' = commitLog
      /\ tx' = [tx EXCEPT ![t].pc = "climb", ![t].old = old, ![t].path = <<u>>]
  BY IntegrityOf, GripIsLight DEF Exactness, Parts, LockKey, At, Early
<1>2. tx[t].kind = "create" /\ u \in Uri
  BY <1>1, DocumentKeys DEF Course, Kinded, Written, Creating, Listed
<1>3. /\ tx'[t].pc = "climb" /\ tx'[t].old = old /\ tx'[t].kind = "create"
      /\ tx'[t].doc = tx[t].doc /\ tx'[t].uri = u
  BY <1>1, <1>2 DEF TxInv, TxState
<1>4. \A w \in Uri : /\ recordKey'[w].row = recordKey[w].row
                     /\ recordKey'[w].by = recordKey[w].by
                     /\ recordKey'[w].dirty = recordKey[w].dirty
                     /\ recordKey'[w].share = recordKey[w].share
                     /\ (w = u /\ Present(u, t)) => recordKey'[w].excl = t
  <2>1. CASE Present(u, t)
    BY <1>1, <1>2, <2>1, LockCells, KeyTyped DEF Locked
  <2>2. CASE ~Present(u, t)
    BY <1>1, <2>2 DEF Locked
  <2> QED
    BY <2>1, <2>2
<1>5. CommitsWritten(t)' /\ KeysWritten(t)'
  BY <1>1, <1>2, <1>3, <1>4, ZenonT(40)
  DEF Exact, CommitsWritten, KeysWritten, Writing, Listed, Retiring
<1>6. OldIsLive(t)'
  <2>1. SUFFICES ASSUME Shared(u)
                 PROVE  old = recordKey'[u].row.rec /\ Sole(recordKey', u, t)
    BY <1>3 DEF OldIsLive
  <2>2. recordKey[u].row.id # NoId
    BY <1>2, <2>1 DEF Exactness, SharedKeysThere, Has
  <2>3. recordKey[u].by # t
    BY <1>1, <1>2, <2>2 DEF Light, Exact, KeysWritten, NoKey
  <2>4. Present(u, t) /\ old = recordKey[u].row.rec
    BY <2>2, <2>3 DEF Present, Sees
  <2>5. Users(recordKey, u, t) = {}
    BY <1>1, <2>4 DEF Blockers
  <2>6. recordKey[u].share \subseteq Tx /\ NoTx \notin Tx
    BY <1>1, <1>2, KeyTyped, KeysAssumption DEF CellOf
  <2> QED
    BY <1>2, <1>4, <2>4, <2>5, <2>6 DEF Users, Sole
<1>7. OldIsRetired(t)'
  BY <1>3 DEF OldIsRetired, Retiring
<1> QED
  BY <1>1, <1>2, <1>3, <1>5, <1>6, <1>7 DEF Exact

\* Looking the parents up writes nothing.
LEMMA ClimbExact ==
    ASSUME Integrity, NEW t \in Tx, Exact(t), Climb(t)
    PROVE  Exact(t)'
<1>1. /\ TxInv /\ tx[t].pc = "climb" /\ UNCHANGED tables
      /\ tx[t].kind = "create"
  BY IntegrityOf DEF Parts, Climb, At, Course, Kinded, Creating
<1>2. /\ tx'[t].pc \in {"climb", "plant", "point"}
      /\ tx'[t].kind = tx[t].kind /\ tx'[t].doc = tx[t].doc
      /\ tx'[t].uri = tx[t].uri /\ tx'[t].old = tx[t].old
  BY <1>1 DEF TxInv, TxState, Climb, Found, Missing, Descend
<1> QED
  BY <1>1, <1>2 DEF tables, Exact, CommitsWritten, KeysWritten, OldIsLive, OldIsRetired,
     Writing, Listed, Retiring

\* A key that is planted was not there.
LEMMA PlantExact ==
    ASSUME Integrity, NEW t \in Tx, Exact(t), Plant(t)
    PROVE  Exact(t)'
<1> DEFINE u == Head(tx[t].path)
           new == Placeholder(u, tx[t].pid)
<1>1. /\ Parts /\ TxInv /\ KeysInv /\ WellDirected(tx[t]) /\ Light(t) /\ tx[t].pc = "plant"
      /\ tx[t].kind = "create" /\ Course(tx[t])
  BY IntegrityOf, GripIsLight DEF Parts, Plant, At, Course, Kinded, Creating, Early
<1>2. CASE Fail(t, "error")
  BY <1>2, FailExact DEF Replies
<1>3. CASE ~Fail(t, "error")
  <2>1. /\ ~Present(u, t)
        /\ recordKey' = Write(recordKey, u, t, new)
        /\ tx' = [tx EXCEPT ![t].pc = Descend(Tail(tx[t].path)),
                            ![t].path = Tail(@),
                            ![t].pid = NewId(u)]
        /\ commitLog' = commitLog /\ record' = record
    BY <1>3 DEF Plant
  <2>2. /\ tx'[t].pc \in {"plant", "point"}
        /\ tx'[t].kind = tx[t].kind /\ tx'[t].doc = tx[t].doc
        /\ tx'[t].uri = tx[t].uri /\ tx'[t].old = tx[t].old
    BY <1>1, <2>1 DEF TxInv, TxState, Descend
  <2>3. u \in Uri
    BY <1>1 DEF TxInv, TxState, WellDirected
  <2>4. \A w \in Uri :
            /\ recordKey'[w].row = recordKey[w].row
            /\ recordKey'[w].share = recordKey[w].share /\ recordKey'[w].excl = recordKey[w].excl
            /\ w # u => recordKey'[w].by = recordKey[w].by
                        /\ recordKey'[w].dirty = recordKey[w].dirty
            /\ w = u => recordKey'[w].by = t /\ recordKey'[w].dirty = new
    <3> HIDE DEF new
    <3> QED
      BY <1>1, <2>1, <2>3, WriteCells, KeyTyped, SMTT(20), ZenonT(40)
  <2>5. recordKey[u].row = NoKey
    <3>1. recordKey[u].row.id = NoId
      BY <1>1, <2>1, <2>3 DEF Present, Sees, Light
    <3> QED
      BY <1>1, <2>3, <3>1 DEF KeysInv, KeyBelongs
  <2>6. new.rec = NoDoc /\ new.id # NoId
    BY <1>1, <2>3, NewIdIsSome DEF Placeholder
  <2>7. KeysWritten(t)'
    BY <2>2, <2>4, <2>5, <2>6 DEF Exact, KeysWritten
  <2>8. CommitsWritten(t)' /\ OldIsRetired(t)'
    BY <1>1, <2>1, <2>2 DEF Exact, CommitsWritten, OldIsRetired, Writing, Listed, Retiring
  <2>9. OldIsLive(t)'
    <3>1. tx[t].uri \in Uri
      BY <1>1, DocumentKeys DEF Course, Written, Listed
    <3> QED
      BY <1>1, <2>2, <2>4, <3>1 DEF Exact, OldIsLive, Listed, Sole
  <2> QED
    BY <2>2, <2>7, <2>8, <2>9 DEF Exact
<1> QED
  BY <1>2, <1>3

\* The upsert points the key; only a document that is replaced is to be retired.
LEMMA PointExact ==
    ASSUME Integrity, NEW t \in Tx, Exact(t), Point(t)
    PROVE  Exact(t)'
<1> DEFINE d == tx[t].doc
           u == tx[t].uri
           new == PointedAt(Sees(recordKey, u, t), t)
           pc == IF Superseded(t) # {} THEN "flag_old" ELSE "distribute"
<1>1. /\ Parts /\ TxInv /\ Course(tx[t]) /\ tx[t].pc = "point"
  BY IntegrityOf DEF Parts, Point, At
<1>2. tx[t].kind = "create" /\ d \in RecordDoc /\ u \in Uri /\ d # NoDoc
  BY <1>1, DocumentKeys DEF Course, Kinded, Written, Creating, Listed
<1>3. CASE Fail(t, "error")
  BY <1>3, FailExact DEF Replies
<1>4. CASE ~Fail(t, "error")
  <2>1. /\ recordKey' = Write(recordKey, u, t, new)
        /\ Goto(t, pc) /\ commitLog' = commitLog
    BY <1>4 DEF Point
  <2>2. Onward(t, pc)
    BY <1>1, <2>1, GotoOnward
  <2>3. /\ pc \in {"flag_old", "distribute"}
        /\ pc = "distribute" => tx[t].old \in {NoDoc, d}
    BY DEF Superseded
  <2>4. \A w \in Uri :
            /\ recordKey'[w].row = recordKey[w].row
            /\ recordKey'[w].share = recordKey[w].share /\ recordKey'[w].excl = recordKey[w].excl
            /\ w # u => recordKey'[w].by = recordKey[w].by
                        /\ recordKey'[w].dirty = recordKey[w].dirty
            /\ w = u => recordKey'[w].by = t /\ recordKey'[w].dirty = new
    <3> HIDE DEF new
    <3> QED
      BY <1>1, <1>2, <2>1, WriteCells, KeyTyped
  <2>5. new.rec = d
    <3>1. Sees(recordKey, u, t) \in KeyRow
      BY <1>1, <1>2, KeyTyped DEF Sees, CellOf
    <3> QED
      BY <3>1 DEF PointedAt, KeyRow
  <2> HIDE DEF pc, new
  <2>6. KeysWritten(t)'
    BY <1>2, <2>2, <2>4, <2>5 DEF Exact, KeysWritten, Onward
  <2>7. OldIsRetired(t)'
    BY <2>2, <2>3 DEF OldIsRetired, Onward, Retiring
  <2> QED
    BY <1>1, <2>1, <2>2, <2>3, <2>4, <2>6, <2>7, OnwardExact
    DEF Writing, Deleting, Retiring, Listed, Pointed, Attaching, Sole
<1> QED
  BY <1>3, <1>4

\* What is replaced shares its URI, and is what the URI resolves to.
LEMMA ReplacedIsThere ==
    ASSUME Integrity, NEW t \in Tx, Exact(t),
           tx[t].kind = "create", tx[t].pc \in Pointed, tx[t].old \notin {NoDoc, tx[t].doc}
    PROVE  LET old == tx[t].old IN
           /\ Shared(tx[t].uri)
           /\ old = recordKey[tx[t].uri].row.rec
           /\ old \in RecordDoc /\ record[old].row /\ commitLog[old].row # "none"
<1> DEFINE s == tx[t]
<1>1. /\ Course(s) /\ RowsResolve
      /\ s.pc \in Listed \ {"lock_key"}
  BY IntegrityOf DEF Integrity, Listed, Pointed
<1>2. /\ s.doc \in RecordDoc /\ s.uri = UriOf(s.doc) /\ s.uri \in Uri
      /\ s.old \in RecordDoc /\ UriOf(s.old) = s.uri
  BY <1>1, DocumentKeys DEF Course, Written, Replaced
<1>3. Shared(s.uri)
  BY <1>2 DEF Shared
<1>4. s.old = recordKey[s.uri].row.rec
  BY <1>1, <1>3 DEF Exact, OldIsLive
<1>5. record[s.old].row
  BY <1>1, <1>2, <1>4 DEF RowsResolve, Live
<1> QED
  BY <1>1, <1>2, <1>3, <1>4, <1>5 DEF RowsResolve

\* Its commit is flagged, since it is there,
LEMMA FlagOldExact ==
    ASSUME Integrity, NEW t \in Tx, Exact(t), FlagOld(t)
    PROVE  Exact(t)'
<1> DEFINE old == tx[t].old
<1>1. /\ Parts /\ TxInv /\ Course(tx[t]) /\ tx[t].pc = "flag_old"
      /\ Goto(t, "drop_old") /\ recordKey' = recordKey
  BY IntegrityOf DEF Parts, FlagOld, At
<1>2. /\ tx[t].kind = "create" /\ old \notin {NoDoc, tx[t].doc}
      /\ old \in Doc /\ commitLog[old].row # "none"
  <2>1. tx[t].kind = "create" /\ old \notin {NoDoc, tx[t].doc}
    BY <1>1 DEF Course, Kinded, Replaced
  <2> QED
    BY <1>1, <2>1, ReplacedIsThere, DocumentKeys DEF Pointed
<1>3. Onward(t, "drop_old")
  BY <1>1, GotoOnward
<1>4. commitLog' = Write(commitLog, old, t, "gc")
  BY <1>2 DEF FlagOld
<1>5. \A j \in Doc :
          /\ commitLog'[j].row = commitLog[j].row
          /\ j # old => commitLog'[j].by = commitLog[j].by
                        /\ commitLog'[j].dirty = commitLog[j].dirty
          /\ j = old => commitLog'[j].by = t /\ commitLog'[j].dirty = "gc"
  BY <1>1, <1>2, <1>4, WriteCells, LogTyped
<1>6. CommitsWritten(t)'
  BY <1>1, <1>2, <1>3, <1>5
  DEF Exact, CommitsWritten, Onward, Writing, Listed, Pointed, Retiring, Deleting
<1>7. KeysWritten(t)' /\ OldIsLive(t)'
  BY <1>1, <1>3 DEF Exact, KeysWritten, OldIsLive, Onward, Listed, Pointed
<1>8. OldIsRetired(t)'
  BY <1>2, <1>3, <1>5 DEF OldIsRetired, Onward, Retiring
<1> QED
  BY <1>3, <1>6, <1>7, <1>8 DEF Exact, Onward

\* and so is its record, which is deleted.
LEMMA DropOldExact ==
    ASSUME Integrity, NEW t \in Tx, Exact(t), DropOld(t)
    PROVE  Exact(t)'
<1> DEFINE old == tx[t].old
<1>1. /\ Parts /\ TxInv /\ Course(tx[t]) /\ tx[t].pc = "drop_old"
      /\ Goto(t, "distribute") /\ recordKey' = recordKey /\ commitLog' = commitLog
  BY IntegrityOf DEF Parts, DropOld, At
<1>2. /\ tx[t].kind = "create" /\ old \notin {NoDoc, tx[t].doc}
      /\ old \in RecordDoc /\ record[old].row
  <2>1. tx[t].kind = "create" /\ old \notin {NoDoc, tx[t].doc}
    BY <1>1 DEF Course, Kinded, Replaced
  <2> QED
    BY <1>1, <2>1, ReplacedIsThere DEF Pointed
<1>3. Onward(t, "distribute")
  BY <1>1, GotoOnward
<1>4. record'[old].by = t /\ ~record'[old].dirty
  <2>1. record' = Remove(record, old, t, FALSE)
    BY <1>2 DEF DropOld
  <2> QED
    BY <1>1, <1>2, <2>1, RecordTyped DEF Remove, CellOf
<1>5. KeysWritten(t)'
  BY <1>1, <1>3 DEF Exact, KeysWritten, Onward
<1>6. OldIsRetired(t)'
  BY <1>1, <1>2, <1>3, <1>4 DEF Exact, OldIsRetired, Onward, Retiring
<1> QED
  BY <1>1, <1>3, <1>5, <1>6, OnwardExact
  DEF Writing, Deleting, Retiring, Listed, Pointed, Attaching

\* The last statements before the commit write neither.
LEMMA PublishExact ==
    ASSUME Integrity, NEW t \in Tx, Exact(t), Publish(t)
    PROVE  Exact(t)'
<1>1. /\ Parts /\ TxInv /\ Course(tx[t]) /\ tx[t].pc = "publish"
  BY IntegrityOf DEF Parts, Publish, At
<1>2. CASE Fail(t, "unpublished")
  BY <1>2, FailExact DEF Replies
<1>3. CASE ~Fail(t, "unpublished")
  <2>1. Goto(t, "commit") /\ UNCHANGED tables
    BY <1>3 DEF Publish
  <2>2. Onward(t, "commit")
    BY <1>1, <2>1, GotoOnward
  <2>3. KeysWritten(t)' /\ OldIsRetired(t)'
    BY <1>1, <2>1, <2>2 DEF tables, Exact, KeysWritten, OldIsRetired, Onward, Retiring
  <2> QED
    BY <1>1, <2>1, <2>2, <2>3, OnwardExact
    DEF tables, Writing, Deleting, Retiring, Listed, Pointed, Attaching
<1> QED
  BY <1>2, <1>3

\* A record is distributed by a transaction that was idle.
LEMMA DistributeExact ==
    ASSUME Integrity, NEW t \in Tx, Exact(t), NEW x \in Tx, Exact(x), Distribute(t),
           x = t \/ tx'[x] # tx[x]
    PROVE  Exact(x)'
<1>1. /\ Parts /\ TxInv /\ Course(tx[t]) /\ tx[t].pc = "distribute" /\ UNCHANGED tables
      /\ tx[t].kind = "create"
  BY IntegrityOf DEF Parts, Distribute, At, Course, Kinded
<1>2. CASE Goto(t, "publish")
  <2>1. Onward(t, "publish") /\ x = t
    BY <1>1, <1>2, GotoOnward DEF Onward, Others
  <2>2. KeysWritten(t)' /\ OldIsRetired(t)'
    BY <1>1, <2>1 DEF tables, Exact, KeysWritten, OldIsRetired, Onward, Retiring
  <2> QED
    BY <1>1, <2>1, <2>2, OnwardExact
    DEF tables, Writing, Deleting, Retiring, Listed, Pointed, Attaching
<1>3. CASE ~Goto(t, "publish")
  <2> DEFINE r == Ref(t[1])
  <2>1. PICK c \in tx[t].todo :
            /\ tx[r].pc = "idle"
            /\ tx' = [tx EXCEPT
                  ![t].todo = Remaining(@, c),
                  ![r] = [Fresh("insert_commit") EXCEPT
                      !.doc = [of |-> tx[t].doc, in |-> c, by |-> t[1]],
                      !.uri = RefUri(t, c)]]
    BY <1>3 DEF Distribute
  <2>2. r \in Tx /\ r # t
    BY <1>1, <2>1 DEF Tx, Ref
  <2>3. CASE x = r
    <3>1. tx[r].pc = "idle" /\ tx'[r].pc = "insert_commit" /\ tx'[r].kind = "create"
      BY <1>1, <2>1, <2>2 DEF TxInv, Fresh
    <3> QED
      BY <1>1, <2>3, <3>1, ReadExact DEF AtRest, MayName
  <2>4. CASE x = t
    <3>1. /\ tx'[t].pc = tx[t].pc /\ tx'[t].kind = tx[t].kind /\ tx'[t].doc = tx[t].doc
          /\ tx'[t].uri = tx[t].uri /\ tx'[t].old = tx[t].old
      BY <1>1, <2>1, <2>2 DEF TxInv, TxState
    <3> QED
      BY <1>1, <2>4, <3>1 DEF tables, Exact, CommitsWritten, KeysWritten, OldIsLive,
         OldIsRetired
  <2> QED
    BY <1>1, <2>1, <2>2, <2>3, <2>4 DEF TxInv
<1> QED
  BY <1>2, <1>3

\* The statements of an association.
LEMMA AssociateExact ==
    ASSUME Integrity, NEW t \in Tx, Exact(t), Associate(t)
    PROVE  Exact(t)'
<1>1. /\ Parts /\ TxInv /\ Course(tx[t]) /\ tx[t].kind = "associate"
      /\ tx[t].pc \in {"find_target", "insert_association"}
  BY IntegrityOf DEF Parts, Associate, FindTarget, InsertAssociation, At, Course, Kinded
<1>2. CASE Fail(t, "error")
  BY <1>2, FailExact DEF Replies
<1>3. CASE ~Fail(t, "error")
  <2>1. /\ tx'[t].pc \in Attaching /\ tx'[t].kind = tx[t].kind
        /\ tx'[t].doc = tx[t].doc /\ tx'[t].uri = tx[t].uri
    BY <1>1, <1>3 DEF Associate, FindTarget, InsertAssociation, Goto, TxInv, TxState, Attaching
  <2>2. /\ commitLog' = commitLog
        /\ recordKey' = Share(recordKey, tx[t].uri, t) \/ recordKey' = recordKey
    BY <1>3 DEF Associate, FindTarget, InsertAssociation, tables
  <2>3. tx[t].uri \in Uri
    BY <1>1, DocumentKeys DEF Course, Written, Attaching
  <2>4. \A w \in Uri : /\ recordKey'[w].row = recordKey[w].row
                       /\ recordKey'[w].by = recordKey[w].by
                       /\ recordKey'[w].dirty = recordKey[w].dirty
    <3>1. CASE recordKey' = Share(recordKey, tx[t].uri, t)
      BY <1>1, <2>3, <3>1, ShareCells, KeyTyped
    <3> QED
      BY <2>2, <3>1
  <2>5. CommitsWritten(t)' /\ KeysWritten(t)'
    BY <1>1, <2>1, <2>2, <2>4 DEF Exact, CommitsWritten, KeysWritten, Writing
  <2>6. OldIsLive(t)' /\ OldIsRetired(t)'
    BY <1>1, <2>1 DEF OldIsLive, OldIsRetired
  <2> QED
    BY <1>1, <2>1, <2>5, <2>6 DEF Exact
<1> QED
  BY <1>2, <1>3

\* A lookup finds what is keyed by the URI it was given.
LEMMA FindExact ==
    ASSUME Integrity, NEW t \in Tx, Exact(t), Find(t)
    PROVE  Exact(t)'
<1>1. /\ Parts /\ TxInv /\ Course(tx[t]) /\ WellDirected(tx[t])
      /\ tx[t].pc \in {"find_id", "find_key", "find_record", "find_commit"}
  BY IntegrityOf DEF Parts, Find, FindById, FindKey, FindRecord, FindCommit, At
<1>2. ASSUME NEW r \in Replies, Reply(t, r)
      PROVE  Exact(t)'
  BY <1>1, <1>2, ReplyExact DEF Reading
<1>3. CASE FindById(t) \/ FindKey(t)
  <2>1. CASE ~Reply(t, "error")
    <3>1. /\ UNCHANGED tables /\ tx'[t].pc \in AtRest
          /\ tx'[t].kind = tx[t].kind /\ tx'[t].doc = tx[t].doc /\ tx'[t].uri = tx[t].uri
      BY <1>1, <1>3, <2>1 DEF FindById, FindKey, Goto, TxInv, TxState, AtRest, Reading
    <3> QED
      BY <1>1, <3>1, ReadExact DEF Exact, AtRest, Reading
  <2> QED
    BY <1>2, <2>1 DEF Replies
<1>4. CASE FindRecord(t)
  <2> DEFINE old == tx[t].old
             found == IF old # NoDoc /\ record[old].row THEN old ELSE NoDoc
  <2>1. /\ UNCHANGED tables /\ tx[t].pc = "find_record" /\ tx'[t].pc \in AtRest
        /\ tx'[t].kind = tx[t].kind /\ tx'[t].doc = found /\ tx'[t].uri = tx[t].uri
    BY <1>1, <1>4 DEF FindRecord, At, TxInv, TxState, AtRest, Reading
  <2>2. /\ tx[t].uri \in Uri
        /\ found # NoDoc => found \in RecordDoc /\ UriOf(found) = tx[t].uri
    BY <1>1, <2>1 DEF WellDirected, Finding, Course, Replaced
  <2> HIDE DEF found
  <2>3. MayName(tx'[t].kind, tx'[t].doc, tx'[t].uri)
    BY <2>1, <2>2, DocumentKeys DEF Exact, MayName
  <2> QED
    BY <1>1, <2>1, <2>3, ReadExact DEF AtRest, Reading
<1>5. CASE FindCommit(t)
  BY <1>2, <1>5 DEF FindCommit, Replies
<1> QED
  BY <1>3, <1>4, <1>5 DEF Find

\* A commit that is deleted was there,
LEMMA DeleteCommitExact ==
    ASSUME Integrity, NEW t \in Tx, Exact(t), DeleteCommit(t)
    PROVE  Exact(t)'
<1> DEFINE d == tx[t].doc
<1>1. /\ Parts /\ TxInv /\ Course(tx[t]) /\ Grip(t) /\ tx[t].pc = "delete_commit"
      /\ tx[t].kind = "delete"
  BY IntegrityOf DEF Parts, DeleteCommit, At, Course, Kinded
<1>2. CASE Reply(t, "ok")
  BY <1>1, <1>2, ReplyExact DEF Reading, Replies
<1>3. CASE ~Reply(t, "ok")
  <2>1. /\ d # NoDoc /\ commitLog[d].row # "none"
        /\ commitLog' = Remove(commitLog, d, t, "none")
        /\ Goto(t, "delete_record") /\ recordKey' = recordKey
    BY <1>3 DEF DeleteCommit
  <2>2. d \in Doc
    BY <1>1, <2>1, DocumentKeys DEF Course, Written
  <2>3. Onward(t, "delete_record")
    BY <1>1, <2>1, GotoOnward
  <2>4. \A j \in Doc :
            /\ commitLog'[j].row = commitLog[j].row
            /\ j # d => commitLog'[j].by = commitLog[j].by
            /\ j = d => commitLog'[j].by = t /\ commitLog'[j].dirty = "none"
    BY <1>1, <2>1, <2>2, RemoveCells, LogTyped
  <2>5. \A j \in Doc : commitLog[j].by # t
    BY <1>1 DEF Exact, CommitsWritten, Deleting
  <2>6. CommitsWritten(t)'
    BY <1>1, <2>1, <2>3, <2>4, <2>5 DEF CommitsWritten, Onward, Deleting
  <2>7. KeysWritten(t)' /\ OldIsLive(t)' /\ OldIsRetired(t)'
    BY <1>1, <2>1, <2>3 DEF Exact, KeysWritten, OldIsLive, OldIsRetired, Onward
  <2> QED
    BY <2>3, <2>6, <2>7 DEF Exact, Onward
<1> QED
  BY <1>2, <1>3

\* its record goes with it,
LEMMA DeleteRecordExact ==
    ASSUME Integrity, NEW t \in Tx, Exact(t), DeleteRecord(t)
    PROVE  Exact(t)'
<1>1. /\ Parts /\ TxInv /\ Course(tx[t]) /\ tx[t].pc = "delete_record"
      /\ tx[t].kind = "delete"
      /\ Goto(t, "delete_key") /\ recordKey' = recordKey /\ commitLog' = commitLog
  BY IntegrityOf DEF Parts, DeleteRecord, At, Course, Kinded
<1>2. Onward(t, "delete_key")
  BY <1>1, GotoOnward
<1>3. KeysWritten(t)' /\ OldIsRetired(t)'
  BY <1>1, <1>2 DEF Exact, KeysWritten, OldIsRetired, Onward
<1> QED
  BY <1>1, <1>2, <1>3, OnwardExact DEF Writing, Deleting, Retiring, Listed, Pointed, Attaching

\* and the key, if that is what it resolves to.
LEMMA DeleteKeyExact ==
    ASSUME Integrity, NEW t \in Tx, Exact(t), DeleteKey(t)
    PROVE  Exact(t)'
<1> DEFINE d == tx[t].doc
           u == UriOf(d)
<1>1. /\ Parts /\ TxInv /\ Course(tx[t]) /\ Grip(t) /\ tx[t].pc = "delete_key"
      /\ tx[t].kind = "delete" /\ Goto(t, "commit") /\ commitLog' = commitLog
      /\ recordKey' = IF Cascades(d) THEN Remove(recordKey, u, t, NoKey) ELSE recordKey
  BY IntegrityOf DEF Parts, DeleteKey, At, Course, Kinded
<1>2. Onward(t, "commit")
  BY <1>1, GotoOnward
<1>3. u \in Uri
  BY <1>1, DocumentKeys DEF Course, Written, Deleting
<1>4. KeysWritten(t)'
  <2>1. CASE Cascades(d)
    <3>1. \A w \in Uri :
              /\ recordKey'[w].row = recordKey[w].row
              /\ w # u => recordKey'[w].by = recordKey[w].by
                          /\ recordKey'[w].dirty = recordKey[w].dirty
              /\ w = u => recordKey'[w].dirty = NoKey
      BY <1>1, <1>3, <2>1, RemoveCells, KeyTyped
    <3>2. recordKey[u].row.rec = d /\ NoKey.id = NoId
      BY <2>1 DEF Cascades, NoKey
    <3> QED
      BY <1>2, <3>1, <3>2 DEF Exact, KeysWritten, Onward
  <2>2. CASE ~Cascades(d)
    BY <1>1, <1>2, <2>2 DEF Exact, KeysWritten, Onward
  <2> QED
    BY <2>1, <2>2
<1>5. CommitsWritten(t)'
  BY <1>1, <1>2 DEF Exact, CommitsWritten, Onward, Deleting
<1>6. OldIsLive(t)' /\ OldIsRetired(t)'
  BY <1>1, <1>2 DEF OldIsLive, OldIsRetired, Onward
<1> QED
  BY <1>2, <1>4, <1>5, <1>6 DEF Exact, Onward

\* What has committed has nothing left to commit.
LEMMA CommitExact ==
    ASSUME Integrity, NEW t \in Tx, Exact(t), Commit(t)
    PROVE  Exact(t)'
<1>1. tx'[t] = Ended(t, "ok")
  <2>1. tx \in [Tx -> TxState]
    BY IntegrityOf DEF Parts, TxInv
  <2> QED
    BY <2>1 DEF Commit
<1>2. tx'[t].pc \in AtRest /\ MayName(tx'[t].kind, tx'[t].doc, tx'[t].uri)
  <2>1. "ok" \in Replies
    BY DEF Replies
  <2> QED
    BY <1>1, <2>1, EndedPc, EndedMayName DEF AtRest, Exact
<1> QED
  BY <1>2, CommitRows, OverExact

-----------------------------------------------------------------------------
(* A commit is one step of the store.                                      *)

\* The rows that a commit changes, seen as what the store holds.
stored  == {d \in Doc : commitLog[d].row # "none"}
retired == {d \in Doc : commitLog[d].row = "gc"}
listed  == {d \in RecordDoc : record[d].row}
live    == [u \in Uri |-> Live(u)]

\* What a commit makes of the rows, in the terms of Exactness.
LEMMA CommittedRows ==
    ASSUME Exactness, NEW t \in Tx, Commit(t)
    PROVE  /\ Integrity /\ Exact(t) /\ Grip(t) /\ Course(tx[t]) /\ KeysInv /\ RowsResolve
           /\ tx[t].pc = "commit" /\ tx[t].kind \in {"create", "associate", "delete"}
           /\ \A d \in Doc : commitLog'[d].row = Sees(commitLog, d, t)
           /\ \A d \in RecordDoc : record'[d].row = Sees(record, d, t)
           /\ \A u \in Uri : recordKey'[u].row = Sees(recordKey, u, t)
<1>1. Integrity /\ Exact(t) /\ tx[t].pc = "commit"
  BY DEF Exactness, Commit, At
<1>2. Grip(t) /\ Course(tx[t]) /\ KeysInv /\ RowsResolve
  BY <1>1, IntegrityOf DEF Integrity, Parts
<1> QED
  BY <1>1, <1>2, CommitRows DEF Course, Kinded

\* The commit of a creation puts its document in the place of what the URI resolved to,
LEMMA CommitPuts ==
    ASSUME Exactness, NEW t \in Tx, Commit(t), tx[t].kind = "create"
    PROVE  \E d \in RecordDoc : Store!Put(d)
<1> DEFINE s == tx[t]
           d == s.doc
           u == s.uri
           replaced == {Live(u)} \ {NoDoc, d}
<1>1. /\ Integrity /\ Exact(t) /\ Grip(t) /\ Course(s) /\ KeysInv /\ RowsResolve
      /\ s.pc = "commit"
      /\ \A j \in Doc : commitLog'[j].row = Sees(commitLog, j, t)
      /\ \A j \in RecordDoc : record'[j].row = Sees(record, j, t)
      /\ \A w \in Uri : recordKey'[w].row = Sees(recordKey, w, t)
  BY CommittedRows
<1>2. d \in RecordDoc /\ d \in Doc /\ d # NoDoc /\ u = UriOf(d) /\ u \in Uri
  BY <1>1, DocumentKeys DEF Course, Written, Listed, Pointed
<1>3. replaced = {s.old} \ {NoDoc, d}
  <2>1. CASE Shared(u)
    BY <1>1, <2>1 DEF Exact, OldIsLive, Listed, Pointed, Live
  <2>2. CASE ~Shared(u)
    <3>1. Live(u) \in {NoDoc, d}
      BY <1>1, <1>2, <2>2 DEF KeysInv, KeyBelongs, NoKey, Shared, Live
    <3>2. s.old \in {NoDoc, d}
      BY <1>1, <1>2, <2>2 DEF Course, Replaced, Shared, Listed, Pointed
    <3> QED
      BY <3>1, <3>2
  <2> QED
    BY <2>1, <2>2
<1>4. \A j \in replaced : /\ j \in RecordDoc /\ j \in Doc /\ j # d
                          /\ commitLog'[j].row = "gc" /\ ~record'[j].row
                          /\ commitLog[j].row # "none"
  <2>1. SUFFICES ASSUME s.old \notin {NoDoc, d}
                 PROVE  /\ s.old \in RecordDoc /\ s.old \in Doc
                        /\ commitLog'[s.old].row = "gc" /\ ~record'[s.old].row
                        /\ commitLog[s.old].row # "none"
    BY <1>3
  <2>2. s.old \in RecordDoc /\ s.old \in Doc /\ commitLog[s.old].row # "none"
    BY <1>1, <2>1, ReplacedIsThere, DocumentKeys DEF Pointed
  <2> QED
    BY <1>1, <2>1, <2>2 DEF Exact, OldIsRetired, Retiring, Sees
<1>5. recordKey[u].by = t /\ recordKey[u].dirty.rec = d
  BY <1>1 DEF Grip, KeyPointed, Pointed
<1>6. Sees(record, d, t)
  BY <1>1, <1>2, <1>5 DEF Grip, KeyPointed
<1>7. commitLog'[d].row # "none"
  <2>1. CASE record[d].by = t
    BY <1>1, <1>2, <1>6, <2>1 DEF Grip, RecordInserted, Sees
  <2>2. CASE record[d].by # t
    BY <1>1, <1>2, <1>6, <2>2 DEF RowsResolve, Grip, CommitHeld, Sees
  <2> QED
    BY <2>1, <2>2
<1>8. commitLog'[d].row = "gc" <=> commitLog[d].row = "gc"
  BY <1>1, <1>2 DEF Exact, CommitsWritten, Sees
<1>9. \A j \in Doc : j \notin replaced \cup {d} => commitLog'[j].row = commitLog[j].row
  BY <1>1, <1>2, <1>3, DocumentKeys DEF Exact, CommitsWritten, Sees
<1>10. \A j \in RecordDoc : j \notin replaced \cup {d} => record'[j].row = record[j].row
  BY <1>1, <1>2, <1>3, DocumentKeys DEF Grip, RecordInserted, RecordDeleted, Sees
<1>11. \A w \in Uri : recordKey'[w].row.rec = IF w = u THEN d ELSE Live(w)
  <2>1. recordKey'[u].row.rec = d
    BY <1>1, <1>2, <1>5 DEF Sees
  <2>2. ASSUME NEW w \in Uri, w # u
        PROVE  recordKey'[w].row.rec = Live(w)
    <3>1. CASE recordKey[w].by = t
      <4>1. recordKey[w].dirty.rec = NoDoc
        BY <1>1, <2>2, <3>1 DEF Grip, KeyPointed
      <4>2. recordKey[w].dirty.id # NoId
        BY <1>1, <2>2, <3>1 DEF Grip, KeyDeleted
      <4>3. recordKey[w].row.rec = NoDoc
        BY <1>1, <3>1, <4>1, <4>2 DEF Exact, KeysWritten, NoKey
      <4> QED
        BY <1>1, <3>1, <4>1, <4>3 DEF Sees, Live
    <3>2. CASE recordKey[w].by # t
      BY <1>1, <3>2 DEF Sees, Live
    <3> QED
      BY <3>1, <3>2
  <2> QED
    BY <1>2, <2>1, <2>2
<1> HIDE DEF replaced
<1>12. stored' = stored \cup {d}
  BY <1>2, <1>4, <1>7, <1>9 DEF stored
<1>13. retired' = retired \cup replaced
  BY <1>2, <1>4, <1>8, <1>9 DEF retired
<1>14. listed' = (listed \ replaced) \cup {d}
  BY <1>1, <1>2, <1>4, <1>6, <1>10 DEF listed
<1>15. live' = [live EXCEPT ![u] = d]
  BY <1>2, <1>11 DEF live, Live
<1>16. live[u] = Live(u)
  BY <1>2 DEF live
<1> QED
  BY <1>2, <1>12, <1>13, <1>14, <1>15, <1>16
  DEF Store!Put, stored, retired, listed, live, replaced

\* that of an association keeps its document in the log,
LEMMA CommitKeepsDocument ==
    ASSUME Exactness, NEW t \in Tx, Commit(t), tx[t].kind = "associate"
    PROVE  \E d \in AssocDoc : Store!Keep(d)
<1> DEFINE s == tx[t]
           d == s.doc
<1>1. /\ Exact(t) /\ Grip(t) /\ Course(s) /\ s.pc = "commit"
      /\ \A j \in Doc : commitLog'[j].row = Sees(commitLog, j, t)
      /\ \A j \in RecordDoc : record'[j].row = Sees(record, j, t)
      /\ \A w \in Uri : recordKey'[w].row = Sees(recordKey, w, t)
  BY CommittedRows
<1>2. d \in AssocDoc /\ d \in Doc
  BY <1>1, DocumentKeys DEF Course, Written, Attaching
<1>3. commitLog'[d].row # "none" /\ (commitLog'[d].row = "gc" <=> commitLog[d].row = "gc")
  <2>1. commitLog'[d].row # "none"
    BY <1>1, <1>2 DEF Grip, CommitHeld, Attaching
  <2>2. commitLog'[d].row = "gc" <=> commitLog[d].row = "gc"
    BY <1>1, <1>2 DEF Exact, CommitsWritten, Sees
  <2> QED
    BY <2>1, <2>2
<1>4. \A j \in Doc : j # d => commitLog'[j].row = commitLog[j].row
  BY <1>1, <1>2 DEF Exact, CommitsWritten, Sees
<1>5. \A j \in RecordDoc : record'[j].row = record[j].row
  BY <1>1 DEF Grip, RecordInserted, RecordDeleted, Sees
<1>6. \A w \in Uri : recordKey'[w].row.rec = Live(w)
  <2>1. ASSUME NEW w \in Uri, recordKey[w].by = t
        PROVE  recordKey'[w].row.rec = Live(w)
    <3>1. recordKey[w].dirty.rec = NoDoc
      BY <1>1, <2>1 DEF Grip, KeyPointed
    <3>2. recordKey[w].dirty.id # NoId
      BY <1>1, <2>1 DEF Grip, KeyDeleted
    <3>3. recordKey[w].row.rec = NoDoc
      BY <1>1, <2>1, <3>1, <3>2 DEF Exact, KeysWritten, NoKey
    <3> QED
      BY <1>1, <2>1, <3>1, <3>3 DEF Sees, Live
  <2> QED
    BY <1>1, <2>1 DEF Sees, Live
<1>7. stored' = stored \cup {d} /\ retired' = retired
  BY <1>2, <1>3, <1>4 DEF stored, retired
<1>8. listed' = listed /\ live' = live
  BY <1>5, <1>6 DEF listed, live, Live
<1> QED
  BY <1>2, <1>7, <1>8 DEF Store!Keep, stored, retired, listed, live

\* and that of a delete erases what it found.
LEMMA CommitErases ==
    ASSUME Exactness, NEW t \in Tx, Commit(t), tx[t].kind = "delete"
    PROVE  \E d \in RecordDoc : Store!Erase(d)
<1> DEFINE s == tx[t]
           d == s.doc
<1>1. /\ Exact(t) /\ Grip(t) /\ Course(s) /\ KeysInv /\ s.pc = "commit"
      /\ \A j \in Doc : commitLog'[j].row = Sees(commitLog, j, t)
      /\ \A j \in RecordDoc : record'[j].row = Sees(record, j, t)
      /\ \A w \in Uri : recordKey'[w].row = Sees(recordKey, w, t)
  BY CommittedRows
<1>2. d \in RecordDoc /\ d \in Doc /\ d # NoDoc
  BY <1>1, DocumentKeys DEF Course, Written, Deleting
<1>3. commitLog[d].by = t /\ commitLog[d].dirty = "none"
  BY <1>1 DEF Grip, CommitHeld, Deleting
<1>4. commitLog[d].row # "none" /\ commitLog'[d].row = "none"
  BY <1>1, <1>2, <1>3 DEF Exact, CommitsWritten, Sees
<1>5. \A j \in Doc : j # d => commitLog'[j].row = commitLog[j].row
  BY <1>1, <1>2 DEF Exact, CommitsWritten, Sees
<1>6. /\ ~record'[d].row
      /\ \A j \in RecordDoc : j # d => record'[j].row = record[j].row
  BY <1>1, <1>2 DEF Grip, RecordInserted, RecordDeleted, Sees
<1>7. \A w \in Uri : recordKey'[w].row.rec = IF Live(w) = d THEN NoDoc ELSE Live(w)
  <2>1. ASSUME NEW w \in Uri, recordKey[w].by = t
        PROVE  recordKey'[w].row.rec = IF Live(w) = d THEN NoDoc ELSE Live(w)
    <3>1. recordKey[w].dirty.rec = NoDoc
      BY <1>1, <2>1 DEF Grip, KeyPointed
    <3>2. recordKey[w].row.rec \in {NoDoc, d}
      BY <1>1, <2>1, <3>1 DEF Exact, KeysWritten, NoKey
    <3> QED
      BY <1>1, <2>1, <3>1, <3>2 DEF Sees, Live
  <2>2. ASSUME NEW w \in Uri, recordKey[w].by # t
        PROVE  Live(w) # d
    <3>1. SUFFICES ASSUME Live(w) = d
                   PROVE  FALSE
      OBVIOUS
    <3>2. UriOf(d) = w
      BY <1>1, <1>2, <3>1 DEF KeysInv, KeyBelongs, NoKey, Live
    <3> QED
      BY <1>1, <2>2, <3>1, <3>2 DEF Grip, KeyDeleted, Live
  <2> QED
    BY <1>1, <2>1, <2>2 DEF Sees, Live
<1>8. stored' = stored \ {d} /\ retired' = retired \ {d} /\ d \in stored
  BY <1>2, <1>4, <1>5 DEF stored, retired
<1>9. listed' = listed \ {d}
  BY <1>2, <1>6 DEF listed
<1>10. live' = [w \in Uri |-> IF live[w] = d THEN NoDoc ELSE live[w]]
  BY <1>7 DEF live, Live
<1> QED
  BY <1>2, <1>8, <1>9, <1>10 DEF Store!Erase, stored, retired, listed, live

\* A commit is one step of the store.
LEMMA CommitIsOneStep ==
    ASSUME Exactness, NEW t \in Tx, Commit(t)
    PROVE  Store!Next
  BY CommittedRows, CommitPuts, CommitKeepsDocument, CommitErases DEF Store!Next

-----------------------------------------------------------------------------
(* The store keeps listed and unretired records live.                      *)

\* SupersededIsRetired, said of the store.
LEMMA RetiredInStore ==
    ASSUME commitLog \in [Doc -> CellOf({"none", "kept", "gc"}, Tx)]
    PROVE  SupersededIsRetired <=>
              \A d \in RecordDoc :
                  (d \in listed \/ d \in stored \ retired) => live[UriOf(d)] = d
<1>1. \A d \in RecordDoc :
        /\ d \in listed <=> record[d].row
        /\ d \in stored \ retired <=> commitLog[d].row = "kept"
        /\ live[UriOf(d)] = Live(UriOf(d))
  BY DocumentKeys DEF listed, stored, retired, live, CellOf
<1> QED
  BY <1>1 DEF SupersededIsRetired

\* No step of the store makes it false.
LEMMA StoreRetires ==
    ASSUME SupersededIsRetired, Store!Next,
           commitLog \in [Doc -> CellOf({"none", "kept", "gc"}, Tx)],
           commitLog' \in [Doc -> CellOf({"none", "kept", "gc"}, Tx)]
    PROVE  SupersededIsRetired'
<1>1. \A d \in RecordDoc :
        (d \in listed \/ d \in stored \ retired) => live[UriOf(d)] = d
  BY RetiredInStore
<1>2. DOMAIN live = Uri /\ \A d \in RecordDoc : UriOf(d) \in Uri /\ d \notin AssocDoc /\ d # NoDoc
  BY DocumentKeys DEF live
<1>3. \A d \in RecordDoc :
        (d \in listed' \/ d \in stored' \ retired') => live'[UriOf(d)] = d
  <2>1. ASSUME NEW d \in RecordDoc, Store!Put(d)
        PROVE  <1>3
    <3>1. /\ stored' = stored \cup {d}
          /\ live' = [live EXCEPT ![UriOf(d)] = d]
          /\ retired' = retired \cup ({live[UriOf(d)]} \ {NoDoc, d})
          /\ listed' = (listed \ ({live[UriOf(d)]} \ {NoDoc, d})) \cup {d}
      BY <2>1 DEF Store!Put, stored, retired, listed, live
    <3> QED
      BY <1>1, <1>2, <3>1
  <2>2. ASSUME NEW d \in RecordDoc, Store!Erase(d)
        PROVE  <1>3
    <3>1. /\ stored' = stored \ {d} /\ retired' = retired \ {d} /\ listed' = listed \ {d}
          /\ live' = [w \in Uri |-> IF live[w] = d THEN NoDoc ELSE live[w]]
      BY <2>2 DEF Store!Erase, stored, retired, listed, live
    <3> QED
      BY <1>1, <1>2, <3>1
  <2>3. ASSUME NEW d \in AssocDoc, Store!Keep(d)
        PROVE  <1>3
    <3>1. stored' = stored \cup {d} /\ UNCHANGED <<live, retired, listed>>
      BY <2>3 DEF Store!Keep, stored, retired, listed, live
    <3> QED
      BY <1>1, <1>2, <3>1
  <2> QED
    BY <2>1, <2>2, <2>3 DEF Store!Next
<1>4. \A d \in RecordDoc :
        /\ d \in listed' <=> record'[d].row
        /\ d \in stored' \ retired' <=> commitLog'[d].row = "kept"
        /\ live'[UriOf(d)] = recordKey'[UriOf(d)].row.rec
  BY DocumentKeys DEF listed, stored, retired, live, CellOf, Live
<1> QED
  BY <1>3, <1>4 DEF SupersededIsRetired, Live

\* The key of a shared URI is deleted by nobody.
LEMMA CommitKeepsSharedKeys ==
    ASSUME Exactness, NEW t \in Tx, Commit(t)
    PROVE  SharedKeysThere'
<1>1. /\ Exact(t) /\ Grip(t) /\ Course(tx[t])
      /\ \A w \in Uri : recordKey'[w].row = Sees(recordKey, w, t)
  BY CommittedRows
<1>2. ASSUME NEW u \in Uri, Shared(u)
      PROVE  recordKey'[u].row.id # NoId
  <2>1. recordKey[u].row.id # NoId
    BY <1>2 DEF Exactness, SharedKeysThere, Has
  <2>2. recordKey[u].by = t => recordKey[u].dirty.id # NoId
    BY <1>1, <1>2 DEF Grip, KeyDeleted, Exact, MayName, Course, Written, Deleting
  <2> QED
    BY <1>1, <2>1, <2>2 DEF Sees
<1> QED
  BY <1>2 DEF SharedKeysThere, Has, Shared

-----------------------------------------------------------------------------
(* Exactness is an invariant, where the keys of shared URIs stay.          *)

\* Nothing is written yet, and every stored document is live.
LEMMA InitExactness ==
    ASSUME SharedKeysStay, Init
    PROVE  Exactness
<1>1. Integrity
  BY InitIntegrity
<1>2. /\ commitLog = [d \in Doc |-> Cell(IF d \in Stored THEN "kept" ELSE "none")]
      /\ record = [d \in RecordDoc |-> Cell(d \in Stored)]
      /\ recordKey = [u \in Uri |-> Cell(StartKey(u))]
      /\ tx = [t \in Tx |-> Fresh(IF t[2] = "main" THEN "new" ELSE "idle")]
  BY DEF Init
<1>3. ASSUME NEW t \in Tx
      PROVE  Exact(t)
  <2>1. /\ \A d \in Doc : commitLog[d].by # t
        /\ \A u \in Uri : recordKey[u].by # t
    BY <1>2, KeysAssumption DEF Cell
  <2>2. tx[t].pc \in {"new", "idle"} /\ tx[t].kind = "create"
    BY <1>2 DEF Fresh
  <2>3. tx[t].pc \notin Listed \cup Retiring
    BY <2>2 DEF Listed, Pointed, Retiring
  <2> QED
    BY <2>1, <2>2, <2>3
    DEF Exact, CommitsWritten, KeysWritten, OldIsLive, OldIsRetired, MayName
<1>4. ASSUME NEW u \in Uri, Shared(u)
      PROVE  Has(u)
  <2>1. u \in Planted
    BY <1>4 DEF SharedKeysStay
  <2>2. recordKey[u].row.id = <<u, 1>>
    BY <1>2, <2>1 DEF Cell, StartKey
  <2> QED
    BY <2>2, KeysAssumption DEF Has, NoId
<1>5. ASSUME NEW d \in RecordDoc, d \in Stored
      PROVE  Live(UriOf(d)) = d
  <2>1. UriOf(d) = Home[d] /\ Home[d] \in Planted /\ Home[d] \in Uri
    BY <1>5, StartAssumption DEF UriOf
  <2>2. Live(Home[d]) = CHOOSE e \in Stored : Home[e] = Home[d]
    BY <1>2, <1>5, <2>1 DEF Cell, StartKey, Live
  <2>3. \A e \in Stored : Home[e] = Home[d] => e = d
    BY <1>5, StartAssumption
  <2>4. (CHOOSE e \in Stored : Home[e] = Home[d]) = d
    BY <1>5, <2>3
  <2> QED
    BY <2>1, <2>2, <2>4
<1>6. SupersededIsRetired
  BY <1>2, <1>5, DocumentKeys DEF SupersededIsRetired, Cell
<1> QED
  BY <1>1, <1>3, <1>4, <1>6 DEF Exactness, SharedKeysThere

\* Where no row changes, what is there and what is live stays.
LEMMA RowsStayRetired ==
    ASSUME Parts, SharedKeysThere, SupersededIsRetired, NoRowChanges
    PROVE  SharedKeysThere' /\ SupersededIsRetired'
<1>1. /\ \A d \in Doc : commitLog'[d].row = commitLog[d].row
      /\ \A d \in RecordDoc : record'[d].row = record[d].row
      /\ \A u \in Uri : recordKey'[u].row = recordKey[u].row
  BY TablesTyped DEF NoRowChanges, SameRows
<1>2. SharedKeysThere'
  BY <1>1 DEF SharedKeysThere, Has, Shared
<1>3. SupersededIsRetired'
  BY <1>1, DocumentKeys DEF SupersededIsRetired, Live
<1> QED
  BY <1>2, <1>3

\* Each statement keeps its transaction exact,
LEMMA OwnStatementExact ==
    ASSUME Exactness, NEW t \in Tx, Statement(t)
    PROVE  Exact(t)'
<1>1. Integrity /\ Exact(t)
  BY DEF Exactness
<1>2. CASE Create(t)
  BY <1>1, <1>2, InsertCommitExact, InsertRecordExact, LockKeyExact, ClimbExact, PlantExact,
     PointExact, FlagOldExact, DropOldExact, DistributeExact, PublishExact, CommitExact
  DEF Create
<1>3. CASE Associate(t) \/ Find(t)
  BY <1>1, <1>3, AssociateExact, FindExact
<1>4. CASE Delete(t)
  BY <1>1, <1>4, DeleteCommitExact, DeleteRecordExact, DeleteKeyExact DEF Delete
<1> QED
  BY <1>2, <1>3, <1>4 DEF Statement

\* and the others.
LEMMA OtherStatementExact ==
    ASSUME Exactness, NEW t \in Tx, Statement(t), NEW x \in Tx \ {t}
    PROVE  Exact(x)'
<1>1. Integrity /\ Parts /\ Exact(t) /\ Exact(x)
  BY IntegrityOf DEF Exactness
<1>2. CASE Commit(t)
  BY <1>2, CommitSparesExact
<1>3. CASE Distribute(t) /\ tx'[x] # tx[x]
  BY <1>1, <1>3, DistributeExact
<1>4. CASE ~Commit(t) /\ (Distribute(t) => tx'[x] = tx[x])
  <2>1. tx'[x] = tx[x]
    BY <1>1, <1>4, StatementOfOne
  <2>2. KeptAll(x)
    BY <1>1, WriterSteady, ReaderSteady DEF Statement
  <2>3. NoRowChanges
    <3>1. Goes(t) \/ Ends(t)
      BY <1>1, WriterSteps, ReaderSteps DEF Statement
    <3>2. \A r : Fail(t, r) => NoRowChanges
      <4>1. {t} \in SUBSET Tx
        OBVIOUS
      <4> QED
        BY <1>1, <4>1, RolledBackRows DEF Fail
    <3>3. \A r : Reply(t, r) => NoRowChanges
      BY TablesUntouched DEF Reply
    <3> QED
      BY <1>4, <3>1, <3>2, <3>3 DEF Goes, Ends
  <2> QED
    BY <1>1, <2>1, <2>2, <2>3, SteadyExact DEF Unmoved
<1> QED
  BY <1>2, <1>3, <1>4

\* A request that begins names what the menu lets it name.
LEMMA BeginExact ==
    ASSUME SharedKeysStay, Exactness, NEW p \in Req, Begin(p), NEW x \in Tx
    PROVE  Exact(x)'
<1> DEFINE t == Main(p)
<1>1. /\ Integrity /\ Parts /\ Exact(x) /\ tx \in [Tx -> TxState] /\ t \in Tx
      /\ UNCHANGED tables
  BY IntegrityOf DEF Exactness, Parts, TxInv, Begin, Main, Tx
<1>2. CASE x = t
  <2>1. PICK o \in Menu[p] :
            /\ tx'[t].pc = FirstStatement(o)
            /\ tx'[t].kind = o.kind /\ tx'[t].doc = o.doc /\ tx'[t].uri = o.uri
    BY <1>1 DEF Begin, Fresh
  <2>2. tx[t].pc \in AtRest
    BY DEF Begin, AtRest
  <2>3. FirstStatement(o) \in AtRest
    BY MenuAssumption DEF Operation, Kinds, FirstStatement, AtRest, Reading, Replies
  <2>4. MayName(o.kind, o.doc, o.uri)
    BY DEF SharedKeysStay
  <2> QED
    BY <1>1, <1>2, <2>1, <2>2, <2>3, <2>4, ReadExact
<1>3. CASE x # t
  <2>1. KeptAll(x) /\ NoRowChanges
    BY <1>1, <1>3, QuietSteady, TablesUntouched
  <2>2. tx'[x] = tx[x]
    BY <1>1, <1>3 DEF Begin
  <2> QED
    BY <1>1, <2>1, <2>2, SteadyExact DEF Unmoved
<1> QED
  BY <1>2, <1>3

\* Transactions that are rolled back have nothing left, the others have what they had.
LEMMA RollbackExact ==
    ASSUME Integrity, NEW S \in SUBSET Tx, Rollback(S), NEW x \in Tx, Exact(x),
           x \notin S => tx'[x] = tx[x],
           x \in S => (\/ \E r \in Replies : tx'[x] = Ended(x, r)
                       \/ tx'[x] = tx[x] /\ tx[x].pc \in AtRest)
    PROVE  Exact(x)'
<1>1. Parts
  BY IntegrityOf
<1>2. CASE x \in S
  <2>1. /\ \A d \in Doc : commitLog'[d].by # x
        /\ \A u \in Uri : recordKey'[u].by # x
    <3>1. \A d \in Doc : commitLog'[d].by \notin S
      BY <1>1, LogTyped, RollbackKeeps DEF Rollback
    <3>2. \A u \in Uri : recordKey'[u].by \notin S
      BY <1>1, KeyTyped, RollbackKeeps DEF Rollback
    <3> QED
      BY <1>2, <3>1, <3>2
  <2>2. tx'[x].pc \in AtRest /\ MayName(tx'[x].kind, tx'[x].doc, tx'[x].uri)
    BY <1>2, EndedPc, EndedMayName DEF AtRest, Exact
  <2> QED
    BY <2>1, <2>2, OverExact
<1>3. CASE x \notin S
  <2>1. KeptAll(x) /\ NoRowChanges
    BY <1>1, <1>3, RollbackSteady, RolledBackRows
  <2> QED
    BY <1>3, <2>1, SteadyExact DEF Unmoved
<1> QED
  BY <1>2, <1>3

\* So it is when the context is cancelled, a deadlock is broken or the server dies.
LEMMA FaultExact ==
    ASSUME Exactness, NEW x \in Tx,
           \/ Crash \/ (\E p \in Req : Cancel(p))
           \/ (\E t \in Tx : DeadlockAbort(t) \/ CommitFails(t))
    PROVE  Exact(x)'
<1>1. /\ Integrity /\ Exact(x) /\ tx \in [Tx -> TxState] /\ Nested
  BY IntegrityOf DEF Exactness, Parts, TxInv, Integrity
<1>2. {"error", "uncommitted", "cancelled", "crashed"} \subseteq Replies
  BY DEF Replies
<1>3. ASSUME NEW t \in Tx, DeadlockAbort(t) \/ CommitFails(t)
      PROVE  Exact(x)'
  <2>1. {t} \in SUBSET Tx /\ Rollback({t})
    BY <1>3 DEF DeadlockAbort, CommitFails, Fail
  <2>2. PICK r \in {"error", "uncommitted"} : tx'[x] = IF x = t THEN Ended(x, r) ELSE tx[x]
    BY <1>1, <1>3 DEF DeadlockAbort, CommitFails, Fail
  <2> QED
    BY <1>1, <1>2, <2>1, <2>2, RollbackExact
<1>4. ASSUME NEW p \in Req, Cancel(p)
      PROVE  Exact(x)'
  <2>1. {Main(p), Ref(p)} \in SUBSET Tx /\ Rollback({Main(p), Ref(p)})
    BY <1>4 DEF Cancel, Main, Ref, Tx
  <2>2. x[1] = p <=> x \in {Main(p), Ref(p)}
    BY DEF Main, Ref, Tx
  <2>3. tx'[x] = IF x \in {Main(p), Ref(p)} THEN Ended(x, "cancelled") ELSE tx[x]
    BY <1>4, <2>2 DEF Cancel, Over
  <2> QED
    BY <1>1, <1>2, <2>1, <2>3, RollbackExact
<1>5. CASE Crash
  <2>1. Tx \in SUBSET Tx /\ Rollback(Tx)
    BY <1>5 DEF Crash
  <2>2. PICK p \in Req : x \in {Main(p), Ref(p)} /\ x[1] = p
    BY DEF Main, Ref, Tx
  <2>3. tx'[x] = IF InFlight(p) THEN Ended(x, "crashed") ELSE tx[x]
    BY <1>5, <2>2 DEF Crash, Over
  <2>4. ~InFlight(p) => tx[x].pc \in AtRest
    BY <1>1, <2>2 DEF InFlight, Nested, AtRest, Replies
  <2> QED
    BY <1>1, <1>2, <2>1, <2>3, <2>4, RollbackExact
<1> QED
  BY <1>3, <1>4, <1>5

\* Every step keeps Exactness.
LEMMA NextExactness ==
    ASSUME SharedKeysStay, Exactness, [Next]_vars
    PROVE  Exactness'
<1>1. Integrity /\ Parts /\ Integrity' /\ Parts'
  <2>1. Integrity /\ Parts
    BY PartsOfInductive DEF Exactness, Integrity
  <2>2. Integrity' /\ Parts'
    BY <2>1, NextIntegrity, NextParts
  <2> QED
    BY <2>1, <2>2
<1>2. ASSUME NEW x \in Tx
      PROVE  Exact(x)'
  <2>1. CASE UNCHANGED vars
    BY <1>2, <2>1 DEF vars, Exactness, Exact, CommitsWritten, KeysWritten, OldIsLive,
       OldIsRetired, Sole
  <2>2. ASSUME NEW t \in Tx, Statement(t)
        PROVE  Exact(x)'
    BY <2>2, OwnStatementExact, OtherStatementExact
  <2> QED
    BY <2>1, <2>2, BeginExact, FaultExact DEF Next, Quiet
<1>3. SharedKeysThere' /\ SupersededIsRetired'
  <2>1. CASE NoRowChanges
    BY <1>1, <2>1, RowsStayRetired DEF Exactness
  <2>2. ASSUME NEW t \in Tx, Commit(t)
        PROVE  SharedKeysThere' /\ SupersededIsRetired'
    <3>1. Store!Next
      BY <2>2, CommitIsOneStep
    <3>2. /\ commitLog \in [Doc -> CellOf({"none", "kept", "gc"}, Tx)]
          /\ commitLog' \in [Doc -> CellOf({"none", "kept", "gc"}, Tx)]
      BY <1>1 DEF Parts, RestTyped
    <3> QED
      BY <2>2, <3>1, <3>2, StoreRetires, CommitKeepsSharedKeys DEF Exactness
  <2> QED
    BY <1>1, <2>1, <2>2, OnlyCommits
<1> QED
  BY <1>1, <1>2, <1>3 DEF Exactness

(***************************************************************************)
(* Where a shared key stays, every transaction has written, at each of its *)
(* phases, what one step of the document store changes and nothing else,   *)
(* and what it is about to retire is what the URI resolves to              *)
(* (record.go:92-281, 391-563).                                            *)
(***************************************************************************)
THEOREM ExactnessAlways ==
    ASSUME SharedKeysStay
    PROVE  Spec => []Exactness
<1>1. Init => Exactness
  BY InitExactness
<1>2. Exactness /\ [Next]_vars => Exactness'
  BY NextExactness
<1> QED
  BY <1>1, <1>2, PTL DEF Spec

\* Nothing that was replaced stays listed or unflagged, whoever else wrote to its URI
\* (record.go:112-205).
THEOREM SupersededIsRetiredAlways ==
    ASSUME SharedKeysStay
    PROVE  Spec => []SupersededIsRetired
<1>1. Exactness => SupersededIsRetired
  BY DEF Exactness
<1> QED
  BY <1>1, ExactnessAlways, PTL

-----------------------------------------------------------------------------
(* The refinement.                                                         *)

\* The tables start as the store does,
LEMMA InitRefines ==
    ASSUME Init
    PROVE  Store!Init
<1>1. /\ commitLog = [d \in Doc |-> Cell(IF d \in Stored THEN "kept" ELSE "none")]
      /\ record = [d \in RecordDoc |-> Cell(d \in Stored)]
      /\ recordKey = [u \in Uri |-> Cell(StartKey(u))]
  BY DEF Init
<1>2. Stored \subseteq UserDoc /\ Stored \subseteq RecordDoc /\ Stored \subseteq Doc
  BY StartAssumption DEF RecordDoc, Doc
<1>3. \A d \in Stored : UriOf(d) = Home[d]
  BY <1>2 DEF UriOf
<1>4. stored = Stored /\ listed = Stored /\ retired = {}
  BY <1>1, <1>2 DEF stored, listed, retired, Cell
<1>5. Store!AtMostOneLivePerUri(stored)
  BY <1>3, <1>4, StartAssumption DEF Store!AtMostOneLivePerUri
<1>6. ASSUME NEW u \in Uri
      PROVE  Live(u) = IF \E d \in stored : UriOf(d) = u
                       THEN CHOOSE d \in stored : UriOf(d) = u ELSE NoDoc
  <2>1. CASE \E d \in stored : UriOf(d) = u
    <3>1. PICK d \in Stored : UriOf(d) = u /\ Home[d] = u
      BY <1>3, <1>4, <2>1
    <3>2. u \in Planted /\ \A e \in Stored : Home[e] = u => e = d
      BY <3>1, StartAssumption
    <3>3. (CHOOSE e \in Stored : Home[e] = u) = d
      BY <3>1, <3>2
    <3>4. (CHOOSE e \in stored : UriOf(e) = u) = d
      <4>1. d \in stored /\ \A e \in stored : UriOf(e) = u => e = d
        BY <1>3, <1>4, <3>1, <3>2
      <4> QED
        BY <3>1, <4>1
    <3>5. Live(u) = d
      BY <1>1, <3>1, <3>2, <3>3 DEF Cell, StartKey, Live
    <3> QED
      BY <2>1, <3>4, <3>5
  <2>2. CASE ~\E d \in stored : UriOf(d) = u
    <3>1. ~\E d \in Stored : Home[d] = u
      BY <1>3, <1>4, <2>2
    <3> QED
      BY <1>1, <2>2, <3>1 DEF Cell, StartKey, NoKey, Live
  <2> QED
    BY <2>1, <2>2
<1>7. live = [u \in Uri |-> IF \E d \in stored : UriOf(d) = u
                            THEN CHOOSE d \in stored : UriOf(d) = u ELSE NoDoc]
  BY <1>6 DEF live
<1> QED
  BY <1>2, <1>4, <1>5, <1>7 DEF Store!Init, stored, listed, retired, live

\* and a step that changes no committed row changes nothing of the store.
LEMMA QuietIsStutter ==
    ASSUME Parts, NoRowChanges
    PROVE  UNCHANGED Store!abstractVars
<1>1. /\ \A d \in Doc : commitLog'[d].row = commitLog[d].row
      /\ \A d \in RecordDoc : record'[d].row = record[d].row
      /\ \A u \in Uri : recordKey'[u].row = recordKey[u].row
  BY TablesTyped DEF NoRowChanges, SameRows
<1>2. stored' = stored /\ retired' = retired /\ listed' = listed /\ live' = live
  BY <1>1 DEF stored, retired, listed, live, Live
<1> QED
  BY <1>2 DEF Store!abstractVars, stored, retired, listed, live

\* The commit log, the records and the keys implement the store: every COMMIT is one
\* step of it, at once for all three tables, and no other statement, error, retry,
\* cancellation or crash is visible there.
THEOREM StoreImplemented ==
    ASSUME SharedKeysStay
    PROVE  Spec => ImplementsDocumentStore
<1>1. Init => Store!Init
  BY InitRefines
<1>2. Exactness /\ [Next]_vars => [Store!Next]_(Store!abstractVars)
  <2>1. ASSUME Exactness, [Next]_vars
        PROVE  Store!Next \/ UNCHANGED Store!abstractVars
    <3>1. Parts
      BY <2>1, PartsOfInductive DEF Exactness, Integrity
    <3> QED
      BY <2>1, <3>1, OnlyCommits, CommitIsOneStep, QuietIsStutter
  <2> QED
    BY <2>1
<1> QED
  BY <1>1, <1>2, ExactnessAlways, PTL DEF Spec, ImplementsDocumentStore, Store!Spec
=============================================================================
