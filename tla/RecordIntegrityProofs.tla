------------------------ MODULE RecordIntegrityProofs ------------------------
(***************************************************************************)
(* Theorems about what the record repository keeps together, for any       *)
(* requests, documents, URIs, operations and faults: that Integrity is     *)
(* inductive, and what follows from it.                                    *)
(*                                                                         *)
(* KeysInductive, the part of it that says that keys stay with their       *)
(* paths, is inductive by itself and comes first.                          *)
(*                                                                         *)
(* For the rest: a step has one actor.  The rows it may touch are those    *)
(* nobody else has written or locked against it, so that every other       *)
(* transaction keeps its grip (Steady, Unmoved); what is left to prove of  *)
(* a statement is that its own transaction has the grip of its next phase. *)
(* Only Commit changes committed rows, and only its proof has to look at   *)
(* what the others rely on.                                                *)
(***************************************************************************)
EXTENDS RecordIntegrity, TLAPS

-----------------------------------------------------------------------------
(* A table keeps its type under every operation of a transaction on it.    *)

\* A write gives the row another value of its type.
LEMMA WriteTyped ==
    ASSUME NEW K, NEW V, NEW T \in [K -> CellOf(V, Tx)], NEW k, NEW t \in Tx, NEW v \in V
    PROVE  /\ Write(T, k, t, v) \in [K -> CellOf(V, Tx)]
           /\ Remove(T, k, t, v) \in [K -> CellOf(V, Tx)]
<1>1. Write(T, k, t, v) \in [K -> CellOf(V, Tx)]
  BY DEF Write, CellOf
<1>2. Remove(T, k, t, v) \in [K -> CellOf(V, Tx)]
  <2>1. ASSUME k \in K
        PROVE  [T[k] EXCEPT !.dirty = v, !.by = t, !.excl = t] \in CellOf(V, Tx)
    BY <2>1 DEF CellOf
  <2> QED
    BY <2>1 DEF Remove
<1> QED
  BY <1>1, <1>2

\* A lock adds the transaction to the row's holders.
LEMMA LockTyped ==
    ASSUME NEW K, NEW V, NEW T \in [K -> CellOf(V, Tx)], NEW k, NEW t \in Tx
    PROVE  /\ Share(T, k, t) \in [K -> CellOf(V, Tx)]
           /\ ForUpdate(T, k, t) \in [K -> CellOf(V, Tx)]
  BY DEF Share, ForUpdate, CellOf

\* The end of a transaction leaves in each row one of the two versions it had.
LEMMA CommittedTyped ==
    ASSUME NEW K, NEW V, NEW T \in [K -> CellOf(V, Tx)], NEW t \in Tx
    PROVE  Committed(T, t) \in [K -> CellOf(V, Tx)]
  BY DEF Committed, Release, CellOf

\* A table keeps its type when transactions are rolled back.
LEMMA RolledBackTyped ==
    ASSUME NEW K, NEW V, NEW T \in [K -> CellOf(V, Tx)], NEW S \in SUBSET Tx
    PROVE  RolledBack(T, S) \in [K -> CellOf(V, Tx)]
  BY DEF RolledBack, Release, CellOf

-----------------------------------------------------------------------------
(* The local state of a transaction.                                       *)

TxInv == tx \in [Tx -> TxState] /\ \A t \in Tx : WellDirected(tx[t])

\* A step that changes the local state of one transaction to a well directed
\* one leaves all of them so.
LEMMA TxStep ==
    ASSUME TxInv, NEW t \in Tx, NEW s \in TxState, WellDirected(s),
           tx' = [tx EXCEPT ![t] = s]
    PROVE  TxInv'
  BY DEF TxInv

\* A transaction that is over has nothing to direct.
LEMMA EndedDirected ==
    ASSUME TxInv, NEW t \in Tx, NEW r \in Replies
    PROVE  Ended(t, r) \in TxState /\ WellDirected(Ended(t, r))
<1> DEFINE e == Ended(t, r)
<1>1. tx[t] \in TxState
  BY DEF TxInv
<1>2. e.pc \in Replies \cup {"idle"} /\ e.todo = {}
  BY DEF Ended, Fresh
<1>3. e \in TxState
  <2>1. \A pc \in Pcs : Fresh(pc) \in TxState
    BY DEF Fresh, TxState, Kinds, NoId, RowId
  <2>2. r \in Pcs /\ "idle" \in Pcs
    BY DEF Pcs
  <2> QED
    BY <1>1, <2>1, <2>2 DEF Ended, TxState
<1>4. WellDirected(e)
  BY <1>2 DEF WellDirected, Creating, Following, Finding, Replies
<1> QED
  BY <1>3, <1>4

\* One whose program counter leaves the creation, with nothing more to distribute
\* to than it had, is well directed.
LEMMA GotoDirected ==
    ASSUME TxInv, NEW t \in Tx, NEW pc \in Pcs,
           pc \notin Creating \cup Finding \cup {"insert_commit"},
           pc \in Following => tx[t].doc \in Doc
    PROVE  /\ [tx[t] EXCEPT !.pc = pc] \in TxState
           /\ WellDirected([tx[t] EXCEPT !.pc = pc])
<1> DEFINE s == [tx[t] EXCEPT !.pc = pc]
<1>1. tx[t] \in TxState /\ WellDirected(tx[t])
  BY DEF TxInv
<1>2. s \in TxState /\ s.pc = pc /\ s.todo = tx[t].todo /\ s.doc = tx[t].doc
  BY <1>1 DEF TxState
<1>3. WellDirected(s)
  <2> HIDE DEF s
  <2> QED
    BY <1>1, <1>2 DEF WellDirected, Creating, Following, Finding
<1> QED
  BY <1>2, <1>3

\* A step that moves a transaction out of the creation keeps TxInv.
LEMMA GotoStep ==
    ASSUME TxInv, NEW t \in Tx, NEW pc \in Pcs,
           pc \notin Creating \cup Finding \cup {"insert_commit"},
           pc \in Following => tx[t].doc \in Doc,
           Goto(t, pc)
    PROVE  TxInv'
  BY GotoDirected, TxStep DEF Goto

-----------------------------------------------------------------------------
(* The record keys.                                                        *)

KeysInv ==
    /\ recordKey \in [Uri -> CellOf(KeyRow, Tx)]
    /\ \A u \in Uri : KeyBelongs(u, recordKey[u].row) /\ KeyBelongs(u, recordKey[u].dirty)

\* What a transaction sees of a key belongs to its URI.
LEMMA SeenKey ==
    ASSUME KeysInv, NEW u \in Uri, NEW t \in Tx
    PROVE  Sees(recordKey, u, t) \in KeyRow /\ KeyBelongs(u, Sees(recordKey, u, t))
  BY DEF KeysInv, Sees, CellOf

\* Writing a row that belongs to the URI, or deleting it, keeps KeysInv.
LEMMA KeyWritten ==
    ASSUME KeysInv, NEW u, NEW t \in Tx, NEW v \in KeyRow, KeyBelongs(u, v),
           \/ recordKey' = Write(recordKey, u, t, v)
           \/ recordKey' = Remove(recordKey, u, t, v)
    PROVE  KeysInv'
<1>1. recordKey' \in [Uri -> CellOf(KeyRow, Tx)]
  <2>1. recordKey \in [Uri -> CellOf(KeyRow, Tx)]
    BY DEF KeysInv
  <2>2. /\ Write(recordKey, u, t, v) \in [Uri -> CellOf(KeyRow, Tx)]
        /\ Remove(recordKey, u, t, v) \in [Uri -> CellOf(KeyRow, Tx)]
    BY <2>1, WriteTyped
  <2> QED
    BY <2>2
<1>2. ASSUME NEW w \in Uri
      PROVE  recordKey'[w].row = recordKey[w].row
             /\ recordKey'[w].dirty = IF w = u THEN v ELSE recordKey[w].dirty
  BY DEF KeysInv, Write, Remove, CellOf
<1>3. \A w \in Uri : KeyBelongs(w, recordKey'[w].row) /\ KeyBelongs(w, recordKey'[w].dirty)
  BY <1>2 DEF KeysInv
<1> QED
  BY <1>1, <1>3 DEF KeysInv, KeyBelongs

\* So does locking it,
LEMMA KeyLocked ==
    ASSUME KeysInv, NEW u, NEW t \in Tx,
           \/ recordKey' = Share(recordKey, u, t)
           \/ recordKey' = ForUpdate(recordKey, u, t)
    PROVE  KeysInv'
<1>1. recordKey' \in [Uri -> CellOf(KeyRow, Tx)]
  <2>1. recordKey \in [Uri -> CellOf(KeyRow, Tx)]
    BY DEF KeysInv
  <2>2. /\ Share(recordKey, u, t) \in [Uri -> CellOf(KeyRow, Tx)]
        /\ ForUpdate(recordKey, u, t) \in [Uri -> CellOf(KeyRow, Tx)]
    BY <2>1, LockTyped
  <2> QED
    BY <2>2
<1>2. ASSUME NEW w \in Uri
      PROVE  recordKey'[w].row = recordKey[w].row /\ recordKey'[w].dirty = recordKey[w].dirty
  <2>1. recordKey \in [Uri -> CellOf(KeyRow, Tx)]
    BY DEF KeysInv
  <2>2. CASE recordKey' = Share(recordKey, u, t)
    BY <2>1, <2>2 DEF Share, CellOf
  <2>3. CASE recordKey' = ForUpdate(recordKey, u, t)
    BY <2>1, <2>3 DEF ForUpdate, CellOf
  <2> QED
    BY <2>2, <2>3
<1> QED
  BY <1>1, <1>2 DEF KeysInv, KeyBelongs

\* and a commit
LEMMA KeyCommitted ==
    ASSUME KeysInv, NEW t \in Tx, recordKey' = Committed(recordKey, t)
    PROVE  KeysInv'
<1>1. recordKey \in [Uri -> CellOf(KeyRow, Tx)]
  BY DEF KeysInv
<1>2. recordKey' \in [Uri -> CellOf(KeyRow, Tx)]
  BY <1>1, CommittedTyped
<1>3. ASSUME NEW w \in Uri
      PROVE  /\ recordKey'[w].row \in {recordKey[w].row, recordKey[w].dirty}
             /\ recordKey'[w].dirty \in {recordKey[w].row, recordKey[w].dirty}
  BY <1>1 DEF Committed, Release, CellOf
<1>4. \A w \in Uri : KeyBelongs(w, recordKey'[w].row) /\ KeyBelongs(w, recordKey'[w].dirty)
  BY <1>3 DEF KeysInv
<1> QED
  BY <1>2, <1>4 DEF KeysInv, KeyBelongs

\* or the end of transactions that are rolled back.
LEMMA KeyRolledBack ==
    ASSUME KeysInv, NEW S \in SUBSET Tx, recordKey' = RolledBack(recordKey, S)
    PROVE  KeysInv'
<1>1. recordKey \in [Uri -> CellOf(KeyRow, Tx)]
  BY DEF KeysInv
<1>2. recordKey' \in [Uri -> CellOf(KeyRow, Tx)]
  BY <1>1, RolledBackTyped
<1>3. ASSUME NEW w \in Uri
      PROVE  /\ recordKey'[w].row \in {recordKey[w].row, recordKey[w].dirty}
             /\ recordKey'[w].dirty \in {recordKey[w].row, recordKey[w].dirty}
  BY <1>1 DEF RolledBack, Release, CellOf
<1>4. \A w \in Uri : KeyBelongs(w, recordKey'[w].row) /\ KeyBelongs(w, recordKey'[w].dirty)
  BY <1>3 DEF KeysInv
<1> QED
  BY <1>2, <1>4 DEF KeysInv, KeyBelongs

\* KeysInv does not change with what it does not mention.
LEMMA KeyUnchanged ==
    ASSUME KeysInv, UNCHANGED recordKey
    PROVE  KeysInv'
  BY DEF KeysInv, KeyBelongs

-----------------------------------------------------------------------------
(* The inductive invariant in three parts, each disturbed by other actions. *)

RestTyped ==
    /\ commitLog \in [Doc -> CellOf({"none", "kept", "gc"}, Tx)]
    /\ record \in [RecordDoc -> CellOf(BOOLEAN, Tx)]
    /\ association \in [Slots -> CellOf(AssociationRow, Tx)]
    /\ drawn \in [Uri -> Nat]
    /\ published \subseteq Doc

Parts == TxInv /\ KeysInv /\ RestTyped

\* They are the inductive invariant, regrouped.
LEMMA PartsOfInductive == KeysInductive <=> Parts
  BY DEF KeysInductive, TypeOK, Parts, TxInv, KeysInv, RestTyped

\* Rolling a set of transactions back keeps the tables in order.
LEMMA RollbackStep ==
    ASSUME Parts, NEW S \in SUBSET Tx, Rollback(S)
    PROVE  KeysInv' /\ RestTyped'
<1>1. KeysInv'
  BY KeyRolledBack DEF Parts, Rollback
<1>2. RestTyped'
  <2>1. RestTyped
    BY DEF Parts
  <2>2. commitLog' \in [Doc -> CellOf({"none", "kept", "gc"}, Tx)]
    BY <2>1, RolledBackTyped DEF RestTyped, Rollback
  <2>3. record' \in [RecordDoc -> CellOf(BOOLEAN, Tx)]
    BY <2>1, RolledBackTyped DEF RestTyped, Rollback
  <2>4. association' \in [Slots -> CellOf(AssociationRow, Tx)]
    BY <2>1, RolledBackTyped DEF RestTyped, Rollback
  <2> QED
    BY <2>1, <2>2, <2>3, <2>4 DEF RestTyped, Rollback
<1> QED
  BY <1>1, <1>2

\* A statement that fails,
LEMMA FailStep ==
    ASSUME Parts, NEW t \in Tx, NEW r \in Replies, Fail(t, r)
    PROVE  Parts'
<1>1. KeysInv' /\ RestTyped'
  BY RollbackStep DEF Fail
<1>2. TxInv'
  BY EndedDirected, TxStep DEF Parts, Fail
<1> QED
  BY <1>1, <1>2 DEF Parts

\* or a request that is answered without touching a table.
LEMMA ReplyStep ==
    ASSUME Parts, NEW t \in Tx, NEW r \in Replies, Reply(t, r)
    PROVE  Parts'
<1>1. KeysInv' /\ RestTyped'
  BY KeyUnchanged DEF Parts, Reply, tables, RestTyped
<1>2. TxInv'
  BY EndedDirected, TxStep DEF Parts, Reply
<1> QED
  BY <1>1, <1>2 DEF Parts

\* Cancelled and crashed requests end together with their transactions.
LEMMA OverStep ==
    ASSUME Parts, NEW S \in SUBSET Req, NEW r \in Replies, Over(S, r)
    PROVE  TxInv'
<1>1. TxInv
  BY DEF Parts
<1>2. ASSUME NEW t \in Tx
      PROVE  tx'[t] \in TxState /\ WellDirected(tx'[t])
  BY <1>1, EndedDirected DEF Over, TxInv
<1> QED
  BY <1>2 DEF TxInv, Over

-----------------------------------------------------------------------------
(* The statements of a creation.                                           *)

\* A request is dispatched.
LEMMA BeginStep ==
    ASSUME Parts, NEW p \in Req, Begin(p)
    PROVE  Parts'
<1>1. PICK o \in Menu[p] :
          tx' = [tx EXCEPT ![Main(p)] = [Fresh(FirstStatement(o)) EXCEPT
                    !.kind = o.kind,
                    !.doc = o.doc,
                    !.uri = o.uri,
                    !.todo = IF o.kind = "create" THEN MemberOf[o.doc] ELSE {}]]
  BY DEF Begin
<1> DEFINE s == [Fresh(FirstStatement(o)) EXCEPT
                    !.kind = o.kind,
                    !.doc = o.doc,
                    !.uri = o.uri,
                    !.todo = IF o.kind = "create" THEN MemberOf[o.doc] ELSE {}]
<1>2. /\ o \in Operation
      /\ o.kind = "create" => o.doc \in UserDoc /\ o.uri = Home[o.doc]
      /\ o.kind = "associate" => o.doc \in AssocDoc /\ o.uri = Target[o.doc]
  BY MenuAssumption
<1>3. o.kind \in Kinds /\ o.doc \in Doc \cup {NoDoc} /\ o.uri \in Uri \cup {Root}
  BY <1>2 DEF Operation
<1>4. /\ FirstStatement(o) \in {"insert_commit", "find_id", "find_key", "find_commit", "error"}
      /\ FirstStatement(o) = "insert_commit" => o.kind \in {"create", "associate"}
      /\ FirstStatement(o) = "find_key" => o.kind \in {"delete", "get"} /\ o.uri # Root
  BY <1>3 DEF FirstStatement, Kinds
<1>5. (IF o.kind = "create" THEN MemberOf[o.doc] ELSE {}) \in SUBSET Uri
  BY KeysAssumption, <1>2
<1>6. s \in TxState
  <2>1. \A pc \in Pcs : Fresh(pc) \in TxState
    BY DEF Fresh, TxState, Kinds, NoId, RowId
  <2>2. FirstStatement(o) \in Pcs
    BY <1>4 DEF Pcs, Replies
  <2>3. ASSUME NEW f \in TxState, NEW todo \in SUBSET Uri
        PROVE  [f EXCEPT !.kind = o.kind, !.doc = o.doc, !.uri = o.uri, !.todo = todo]
                  \in TxState
    BY <1>3 DEF TxState
  <2> QED
    BY <2>1, <2>2, <2>3, <1>5
<1>7. WellDirected(s)
  <2>1. /\ s.pc = FirstStatement(o)
        /\ s.doc = o.doc /\ s.uri = o.uri
        /\ s.todo = IF o.kind = "create" THEN MemberOf[o.doc] ELSE {}
    BY DEF Fresh
  <2> HIDE DEF s
  <2>2. o.kind = "create" => o.doc \in RecordDoc /\ UriOf(o.doc) = o.uri /\ o.uri \in Uri
    BY KeysAssumption, <1>2 DEF RecordDoc, UriOf
  <2>3. o.kind = "associate" => o.doc \in AssocDoc /\ o.doc \notin RecordDoc /\ o.uri \in Uri
    BY KeysAssumption, <1>2 DEF RecordDoc
  <2> QED
    BY <1>2, <1>3, <1>4, <2>1, <2>2, <2>3 DEF WellDirected, Creating, Following, Finding
<1>8. TxInv'
  <2>1. Main(p) \in Tx
    BY DEF Tx, Main
  <2> QED
    BY <1>1, <1>6, <1>7, <2>1, TxStep DEF Parts
<1>9. KeysInv' /\ RestTyped'
  BY KeyUnchanged DEF Parts, Begin, tables, RestTyped
<1> QED
  BY <1>8, <1>9 DEF Parts

\* The commit is inserted, and the record or the association follows.
LEMMA InsertCommitStep ==
    ASSUME Parts, NEW t \in Tx, InsertCommit(t)
    PROVE  Parts'
<1> DEFINE d == tx[t].doc
           pc == IF d \in AssocDoc THEN "find_target" ELSE "insert_record"
           s == [tx[t] EXCEPT !.pc = pc]
<1>1. tx[t] \in TxState /\ WellDirected(tx[t]) /\ tx[t].pc = "insert_commit"
  BY DEF Parts, TxInv, InsertCommit, At
<1>2. d \in Doc /\ (d \in RecordDoc => tx[t].uri = UriOf(d)) /\ d \in RecordDoc \cup AssocDoc
  BY <1>1 DEF WellDirected, Doc
<1>3. s \in TxState /\ s.pc = pc /\ s.doc = d /\ s.uri = tx[t].uri /\ s.todo = tx[t].todo
  BY <1>1 DEF TxState, Pcs
<1>4. WellDirected(s)
  <2> HIDE DEF s
  <2> QED
    BY <1>1, <1>2, <1>3 DEF WellDirected, Creating, Following, Finding
<1>5. TxInv'
  BY <1>3, <1>4, TxStep DEF Parts, InsertCommit, Goto
<1>6. commitLog' \in [Doc -> CellOf({"none", "kept", "gc"}, Tx)]
  BY WriteTyped DEF Parts, RestTyped, InsertCommit
<1>7. KeysInv' /\ RestTyped'
  BY <1>6, KeyUnchanged DEF Parts, InsertCommit, RestTyped
<1> QED
  BY <1>5, <1>7 DEF Parts

\* The record is inserted, found, or has lost its commit.
LEMMA InsertRecordStep ==
    ASSUME Parts, NEW t \in Tx, InsertRecord(t)
    PROVE  Parts'
<1> DEFINE s == [tx[t] EXCEPT !.pc = "lock_key"]
<1>1. tx[t] \in TxState /\ WellDirected(tx[t]) /\ tx[t].pc = "insert_record"
  BY DEF Parts, TxInv, InsertRecord, At
<1>2. CASE Fail(t, "error")
  BY <1>2, FailStep DEF Replies
<1>3. CASE Goto(t, "lock_key")
  <2>1. s \in TxState /\ s.pc = "lock_key" /\ s.doc = tx[t].doc /\ s.uri = tx[t].uri
        /\ s.todo = tx[t].todo
    BY <1>1 DEF TxState, Pcs
  <2>2. WellDirected(s)
    <3> HIDE DEF s
    <3> QED
      BY <1>1, <2>1 DEF WellDirected, Creating, Following, Finding
  <2>3. TxInv'
    BY <1>3, <2>1, <2>2, TxStep DEF Parts, Goto
  <2>4. \/ UNCHANGED <<tables, drawn, published>>
        \/ /\ record' = Write(record, tx[t].doc, t, TRUE)
           /\ commitLog' = Share(commitLog, tx[t].doc, t)
           /\ UNCHANGED <<recordKey, association, drawn, published>>
        \/ Fail(t, "error")
    BY DEF InsertRecord
  <2>5. CASE UNCHANGED <<tables, drawn, published>>
    BY <2>3, <2>5, KeyUnchanged DEF Parts, RestTyped, tables
  <2>6. CASE /\ record' = Write(record, tx[t].doc, t, TRUE)
             /\ commitLog' = Share(commitLog, tx[t].doc, t)
             /\ UNCHANGED <<recordKey, association, drawn, published>>
    <3>1. record' \in [RecordDoc -> CellOf(BOOLEAN, Tx)]
      BY <2>6, WriteTyped DEF Parts, RestTyped
    <3>2. commitLog' \in [Doc -> CellOf({"none", "kept", "gc"}, Tx)]
      BY <2>6, LockTyped DEF Parts, RestTyped
    <3> QED
      BY <2>3, <2>6, <3>1, <3>2, KeyUnchanged DEF Parts, RestTyped
  <2> QED
    BY <1>2, <2>4, <2>5, <2>6
<1> QED
  BY <1>2, <1>3 DEF InsertRecord

\* Reading the key with its lock starts the chain at the record's own URI.
LEMMA LockKeyStep ==
    ASSUME Parts, NEW t \in Tx, LockKey(t)
    PROVE  Parts'
<1> DEFINE u == tx[t].uri
           old == Sees(recordKey, u, t).rec
           s == [tx[t] EXCEPT !.pc = "climb", !.old = old, !.path = <<u>>]
<1>1. tx[t] \in TxState /\ WellDirected(tx[t]) /\ tx[t].pc = "lock_key"
  BY DEF Parts, TxInv, LockKey, At
<1>2. tx[t].doc \in RecordDoc /\ u = UriOf(tx[t].doc)
  BY <1>1 DEF WellDirected, Creating, Following, Finding
<1>3. u \in Uri
  BY KeysAssumption, <1>2 DEF RecordDoc, UriOf
<1>4. old \in Doc \cup {NoDoc}
  BY <1>3, SeenKey DEF Parts, KeyRow
<1>5. <<u>> \in Seq(Uri) /\ ChainTo(<<u>>, u)
  BY <1>3 DEF ChainTo
<1>6. s \in TxState /\ s.pc = "climb" /\ s.doc = tx[t].doc /\ s.uri = u
      /\ s.todo = tx[t].todo /\ s.path = <<u>>
  BY <1>1, <1>4, <1>5 DEF TxState, Pcs
<1>7. WellDirected(s)
  <2> HIDE DEF s
  <2> QED
    BY <1>1, <1>2, <1>5, <1>6 DEF WellDirected, Creating, Following, Finding
<1>8. TxInv'
  <2>1. tx' = [tx EXCEPT ![t] = s]
    BY DEF LockKey
  <2> QED
    BY <1>6, <1>7, <2>1, TxStep DEF Parts
<1>9. KeysInv'
  BY KeyLocked, KeyUnchanged DEF Parts, LockKey, Locked
<1> QED
  BY <1>8, <1>9 DEF Parts, LockKey, RestTyped

\* One more ancestor at the head of a chain keeps it a chain.
LEMMA ChainGrows ==
    ASSUME NEW path \in Seq(Uri), NEW u \in Uri, ChainTo(path, u),
           Parent[path[1]] \in Uri
    PROVE  /\ <<Parent[path[1]]>> \o path \in Seq(Uri)
           /\ ChainTo(<<Parent[path[1]]>> \o path, u)
<1> DEFINE up == Parent[path[1]]
           q == <<up>> \o path
<1>1. /\ q \in Seq(Uri)
      /\ Len(path) \in Nat /\ Len(path) > 0
      /\ Len(q) = Len(path) + 1
      /\ q[1] = up
      /\ \A i \in 1 .. Len(path) : q[i + 1] = path[i]
  BY DEF ChainTo
<1>2. q # <<>> /\ q[Len(q)] = u
  BY <1>1 DEF ChainTo
<1>3. ASSUME NEW i \in 1 .. (Len(q) - 1)
      PROVE  Parent[q[i + 1]] = q[i]
  <2>1. CASE i = 1
    BY <1>1, <2>1
  <2>2. CASE i # 1
    <3>1. i - 1 \in 1 .. (Len(path) - 1) /\ i \in 1 .. Len(path)
      BY <1>1, <2>2
    <3>2. q[i + 1] = path[i] /\ q[i] = path[i - 1]
      BY <1>1, <3>1
    <3> QED
      BY <3>1, <3>2 DEF ChainTo
  <2> QED
    BY <2>1, <2>2
<1> QED
  BY <1>1, <1>2, <1>3 DEF ChainTo

\* So does taking the head off a chain of two or more.
LEMMA ChainShrinks ==
    ASSUME NEW path \in Seq(Uri), NEW u \in Uri, ChainTo(path, u), Len(path) > 1
    PROVE  /\ Tail(path) \in Seq(Uri)
           /\ ChainTo(Tail(path), u)
           /\ Parent[Tail(path)[1]] = path[1]
<1>1. /\ Tail(path) \in Seq(Uri)
      /\ Len(path) \in Nat
      /\ Len(Tail(path)) = Len(path) - 1
      /\ \A i \in 1 .. Len(Tail(path)) : Tail(path)[i] = path[i + 1]
  OBVIOUS
<1>2. Tail(path) # <<>> /\ Tail(path)[Len(Tail(path))] = u
  <2>1. Len(Tail(path)) \in 1 .. Len(Tail(path)) /\ Len(Tail(path)) + 1 = Len(path)
    BY <1>1
  <2>2. Tail(path)[Len(Tail(path))] = path[Len(path)]
    BY <1>1, <2>1
  <2>3. \A q \in Seq(Uri) : Len(q) > 0 => q # <<>>
    OBVIOUS
  <2>4. \A q : q = Tail(path) => q # <<>>
    <3> TAKE q
    <3> HAVE q = Tail(path)
    <3>1. q \in Seq(Uri) /\ Len(q) > 0
      BY <1>1
    <3> QED
      BY <3>1, <2>3
  <2> QED
    BY <2>2, <2>4 DEF ChainTo
<1>3. ASSUME NEW i \in 1 .. (Len(Tail(path)) - 1)
      PROVE  Parent[Tail(path)[i + 1]] = Tail(path)[i]
  <2>1. i \in 1 .. Len(Tail(path)) /\ i + 1 \in 1 .. Len(Tail(path))
        /\ i + 1 \in 1 .. (Len(path) - 1)
    BY <1>1
  <2>2. Tail(path)[i] = path[i + 1] /\ Tail(path)[i + 1] = path[(i + 1) + 1]
    BY <1>1, <2>1
  <2> QED
    BY <2>1, <2>2 DEF ChainTo
<1>4. Parent[Tail(path)[1]] = path[1]
  <2>1. Tail(path)[1] = path[1 + 1] /\ 1 \in 1 .. (Len(path) - 1)
    BY <1>1
  <2> QED
    BY <2>1 DEF ChainTo
<1> QED
  BY <1>1, <1>2, <1>3, <1>4 DEF ChainTo

\* A chain that is not empty ends here, or goes on with the parent it starts at.
LEMMA ClimbingState ==
    ASSUME TxInv, NEW t \in Tx, tx[t].pc \in {"climb", "plant", "point"}
    PROVE  /\ tx[t] \in TxState /\ WellDirected(tx[t])
           /\ tx[t].path \in Seq(Uri) /\ ChainTo(tx[t].path, tx[t].uri)
           /\ Head(tx[t].path) = tx[t].path[1] /\ tx[t].path[1] \in Uri
           /\ Len(tx[t].path) \in Nat /\ Len(tx[t].path) >= 1
           /\ tx[t].doc \in RecordDoc /\ tx[t].uri \in Uri /\ tx[t].uri = UriOf(tx[t].doc)
<1>1. tx[t] \in TxState /\ WellDirected(tx[t])
  BY DEF TxInv
<1>2. tx[t].path \in Seq(Uri) /\ ChainTo(tx[t].path, tx[t].uri)
  BY <1>1 DEF TxState, WellDirected
<1>3. tx[t].path # <<>>
  BY <1>2 DEF ChainTo
<1>4. tx[t].doc \in RecordDoc /\ tx[t].uri = UriOf(tx[t].doc)
  BY <1>1 DEF WellDirected, Creating, Following, Finding
<1>5. tx[t].uri \in Uri
  BY KeysAssumption, <1>4 DEF RecordDoc, UriOf
<1>6. \A q \in Seq(Uri) : q # <<>> => Len(q) \in Nat /\ Len(q) >= 1 /\ Head(q) = q[1]
                                    /\ q[1] \in Uri
  OBVIOUS
<1> QED
  BY <1>1, <1>2, <1>3, <1>4, <1>5, <1>6

\* The length of a chain tells whether ancestors remain to be planted.
LEMMA DescendSplits ==
    ASSUME NEW q \in Seq(Uri), Len(q) \in Nat, Len(q) >= 1
    PROVE  /\ Descend(q) \in {"plant", "point"}
           /\ Descend(q) = "plant" => Len(q) > 1
           /\ Descend(q) = "point" => Len(q) = 1
  BY DEF Descend

\* The parent is found, the root is reached, or the chain grows.
LEMMA ClimbStep ==
    ASSUME Parts, NEW t \in Tx, Climb(t)
    PROVE  Parts'
<1> SUFFICES TxInv'
  BY KeyUnchanged DEF Parts, Climb, tables, RestTyped
<1> DEFINE path == tx[t].path
           up == Parent[Head(path)]
<1>1. tx[t].pc = "climb" /\ TxInv /\ KeysInv
  BY DEF Climb, At, Parts
<1>2. /\ tx[t] \in TxState /\ WellDirected(tx[t])
      /\ path \in Seq(Uri) /\ ChainTo(path, tx[t].uri)
      /\ Head(path) = path[1] /\ path[1] \in Uri
      /\ Len(path) \in Nat /\ Len(path) >= 1
      /\ tx[t].doc \in RecordDoc /\ tx[t].uri \in Uri /\ tx[t].uri = UriOf(tx[t].doc)
  BY <1>1, ClimbingState
<1>3. up \in Uri \cup {Root}
  BY KeysAssumption, <1>2
<1>4. /\ Descend(path) \in {"plant", "point"}
      /\ Descend(path) = "plant" => Len(path) > 1
      /\ Descend(path) = "point" => Len(path) = 1
  BY <1>2, DescendSplits
<1>5. ASSUME NEW id \in RowId, id[1] = up,
             Found(t, id)
      PROVE  TxInv'
  <2> DEFINE s == [tx[t] EXCEPT !.pc = Descend(path), !.pid = id]
  <2>1. s \in TxState /\ s.pc = Descend(path) /\ s.pid = id /\ s.path = path
        /\ s.doc = tx[t].doc /\ s.uri = tx[t].uri /\ s.todo = tx[t].todo
    BY <1>2, <1>4 DEF TxState, Pcs
  <2>2. WellDirected(s)
    <3> HIDE DEF s
    <3> QED
      BY <1>2, <1>4, <1>5, <2>1 DEF WellDirected, Creating, Following, Finding
  <2>3. tx' = [tx EXCEPT ![t] = s]
    BY <1>5 DEF Found
  <2> QED
    BY <1>1, <2>1, <2>2, <2>3, TxStep
<1>6. CASE up = Root /\ Found(t, NoId)
  <2>1. NoId \in RowId /\ NoId[1] = up
    BY <1>6 DEF NoId, RowId
  <2> QED
    BY <1>5, <1>6, <2>1
<1>7. CASE /\ up # Root /\ Present(up, t)
           /\ Found(t, Sees(recordKey, up, t).id)
  <2>1. up \in Uri
    BY <1>3, <1>7
  <2>2. Sees(recordKey, up, t).id \in RowId /\ Sees(recordKey, up, t).id[1] = up
    BY <1>1, <1>7, <2>1, SeenKey DEF Present, KeyRow, KeyBelongs
  <2> QED
    BY <1>5, <1>7, <2>2
<1>8. CASE up # Root /\ Missing(t, up)
  <2> DEFINE q == <<up>> \o path
             s == [tx[t] EXCEPT !.path = q]
  <2>1. q \in Seq(Uri) /\ ChainTo(q, tx[t].uri)
    BY <1>2, <1>3, <1>8, ChainGrows
  <2>2. s \in TxState /\ s.pc = "climb" /\ s.path = q
        /\ s.doc = tx[t].doc /\ s.uri = tx[t].uri /\ s.todo = tx[t].todo
    <3> HIDE DEF q
    <3> QED
      BY <1>1, <1>2, <2>1 DEF TxState
  <2>3. WellDirected(s)
    <3> HIDE DEF s, q
    <3> QED
      BY <1>1, <1>2, <2>1, <2>2 DEF WellDirected, Creating, Following, Finding
  <2>4. tx' = [tx EXCEPT ![t] = s]
    BY <1>8 DEF Missing
  <2> QED
    BY <1>1, <2>2, <2>3, <2>4, TxStep
<1> QED
  BY <1>6, <1>7, <1>8 DEF Climb

\* A placeholder belongs to its URI, and the chain goes on below it.
LEMMA PlantStep ==
    ASSUME Parts, NEW t \in Tx, Plant(t)
    PROVE  Parts'
<1> DEFINE path == tx[t].path
           u == Head(path)
<1>1. tx[t].pc = "plant" /\ TxInv /\ KeysInv /\ RestTyped
  BY DEF Plant, At, Parts
<1>2. /\ tx[t] \in TxState /\ WellDirected(tx[t])
      /\ path \in Seq(Uri) /\ ChainTo(path, tx[t].uri)
      /\ u = path[1] /\ u \in Uri
      /\ tx[t].doc \in RecordDoc /\ tx[t].uri \in Uri /\ tx[t].uri = UriOf(tx[t].doc)
  BY <1>1, ClimbingState
<1>3. Len(path) > 1 /\ tx[t].pid \in RowId /\ tx[t].pid[1] = Parent[u]
  BY <1>1, <1>2 DEF WellDirected, TxState
<1>4. CASE Fail(t, "error")
  BY <1>4, FailStep DEF Replies
<1>5. CASE /\ recordKey' = Write(recordKey, u, t, Placeholder(u, tx[t].pid))
           /\ tx' = [tx EXCEPT ![t].pc = Descend(Tail(tx[t].path)),
                               ![t].path = Tail(@),
                               ![t].pid = NewId(u)]
           /\ Draw(u)
           /\ UNCHANGED <<commitLog, record, association, published>>
  <2>1. drawn[u] + 1 \in Nat /\ drawn' \in [Uri -> Nat]
    BY <1>1, <1>2, <1>5 DEF RestTyped, Draw
  <2>2. NewId(u) \in RowId /\ NewId(u)[1] = u /\ NewId(u) # NoId
    BY <1>2, <2>1, KeysAssumption DEF NewId, RowId, NoId
  <2>3. KeysInv'
    <3>1. Placeholder(u, tx[t].pid) \in KeyRow
          /\ KeyBelongs(u, Placeholder(u, tx[t].pid))
      BY <1>3, <2>2 DEF Placeholder, KeyRow, KeyBelongs
    <3> QED
      BY <1>1, <1>2, <1>5, <3>1, KeyWritten
  <2>4. TxInv'
    <3> DEFINE q == Tail(path)
               s == [tx[t] EXCEPT !.pc = Descend(q), !.path = q, !.pid = NewId(u)]
    <3>1. q \in Seq(Uri) /\ ChainTo(q, tx[t].uri) /\ Parent[q[1]] = u
      BY <1>2, <1>3, ChainShrinks
    <3>2. /\ Descend(q) \in {"plant", "point"}
          /\ Descend(q) = "plant" => Len(q) > 1
          /\ Descend(q) = "point" => Len(q) = 1
      <4>1. \A x \in Seq(Uri) : x # <<>> => Len(x) \in Nat /\ Len(x) >= 1
        OBVIOUS
      <4>2. q # <<>>
        BY <3>1 DEF ChainTo
      <4> HIDE DEF q
      <4> QED
        BY <3>1, <4>1, <4>2, DescendSplits
    <3> HIDE DEF q
    <3>3. s \in TxState /\ s.pc = Descend(q) /\ s.path = q /\ s.pid = NewId(u)
          /\ s.doc = tx[t].doc /\ s.uri = tx[t].uri /\ s.todo = tx[t].todo
      BY <1>2, <2>2, <3>1, <3>2 DEF TxState, Pcs
    <3>4. WellDirected(s)
      <4> HIDE DEF s
      <4> QED
        BY <1>2, <2>2, <3>1, <3>2, <3>3 DEF WellDirected, Creating, Following, Finding
    <3>5. tx' = [tx EXCEPT ![t] = s]
      BY <1>5 DEF q
    <3> QED
      BY <1>1, <3>3, <3>4, <3>5, TxStep
  <2> QED
    BY <1>1, <1>5, <2>1, <2>3, <2>4 DEF Parts, RestTyped
<1> QED
  BY <1>4, <1>5 DEF Plant

\* The upsert leaves a row that belongs to the URI of the document.
LEMMA PointStep ==
    ASSUME Parts, NEW t \in Tx, Point(t)
    PROVE  Parts'
<1> DEFINE d == tx[t].doc
           u == tx[t].uri
           key == Sees(recordKey, u, t)
           next == IF Superseded(t) # {} THEN "flag_old" ELSE "distribute"
<1>1. tx[t].pc = "point" /\ TxInv /\ KeysInv /\ RestTyped
  BY DEF Point, At, Parts
<1>2. /\ tx[t] \in TxState /\ WellDirected(tx[t])
      /\ ChainTo(tx[t].path, u)
      /\ d \in RecordDoc /\ u \in Uri /\ u = UriOf(d)
  BY <1>1, ClimbingState
<1>3. tx[t].path[1] = u /\ tx[t].pid \in RowId /\ tx[t].pid[1] = Parent[u]
  BY <1>1, <1>2 DEF WellDirected, TxState, ChainTo
<1>4. CASE Fail(t, "error")
  BY <1>4, FailStep DEF Replies
<1>5. CASE /\ recordKey' = Write(recordKey, u, t, PointedAt(key, t))
           /\ record' = Share(record, d, t)
           /\ IF key.id = NoId THEN Draw(u) ELSE UNCHANGED drawn
           /\ Goto(t, next)
           /\ UNCHANGED <<commitLog, association, published>>
  <2>1. drawn[u] + 1 \in Nat /\ drawn' \in [Uri -> Nat]
    BY <1>1, <1>2, <1>5 DEF RestTyped, Draw
  <2>2. NewId(u) \in RowId /\ NewId(u)[1] = u /\ NewId(u) # NoId
    BY <1>2, <2>1, KeysAssumption DEF NewId, RowId, NoId
  <2>3. key \in KeyRow /\ KeyBelongs(u, key)
    BY <1>1, <1>2, SeenKey
  <2>4. d \in Doc /\ d # NoDoc
    BY <1>2, KeysAssumption DEF Doc
  <2>5. PointedAt(key, t) \in KeyRow /\ KeyBelongs(u, PointedAt(key, t))
    <3> HIDE DEF key
    <3>1. CASE key.id = NoId
      BY <1>2, <1>3, <2>2, <2>4, <3>1 DEF PointedAt, KeyRow, KeyBelongs
    <3>2. CASE key.id # NoId
      BY <1>2, <2>3, <2>4, <3>2 DEF PointedAt, KeyRow, KeyBelongs
    <3> QED
      BY <3>1, <3>2
  <2>6. KeysInv'
    BY <1>1, <1>2, <1>5, <2>5, KeyWritten
  <2>7. record' \in [RecordDoc -> CellOf(BOOLEAN, Tx)]
    BY <1>1, <1>5, LockTyped DEF RestTyped
  <2>8. TxInv'
    <3>1. next \in Pcs /\ next \notin Creating \cup Finding \cup {"insert_commit"}
      BY DEF Pcs, Creating, Finding
    <3> QED
      BY <1>1, <1>5, <2>4, <3>1, GotoStep
  <2> QED
    BY <1>1, <1>5, <2>1, <2>6, <2>7, <2>8 DEF Parts, RestTyped
<1> QED
  BY <1>4, <1>5 DEF Point

\* Retiring the old document touches neither keys nor directions.
LEMMA RetireStep ==
    ASSUME Parts, NEW t \in Tx, FlagOld(t) \/ DropOld(t)
    PROVE  Parts'
<1>1. TxInv /\ KeysInv /\ RestTyped
  BY DEF Parts
<1>2. CASE FlagOld(t)
  <2>1. TxInv'
    BY <1>1, <1>2, GotoStep DEF FlagOld, At, TxInv, WellDirected, Following, Finding, Pcs,
                                       Creating
  <2>2. commitLog' \in [Doc -> CellOf({"none", "kept", "gc"}, Tx)]
    BY <1>1, <1>2, WriteTyped DEF FlagOld, RestTyped
  <2> QED
    BY <1>1, <1>2, <2>1, <2>2, KeyUnchanged DEF FlagOld, Parts, RestTyped
<1>3. CASE DropOld(t)
  <2>1. TxInv'
    BY <1>1, <1>3, GotoStep DEF DropOld, At, TxInv, WellDirected, Following, Finding, Pcs,
                                       Creating
  <2>2. record' \in [RecordDoc -> CellOf(BOOLEAN, Tx)]
    BY <1>1, <1>3, WriteTyped DEF DropOld, RestTyped
  <2> QED
    BY <1>1, <1>3, <2>1, <2>2, KeyUnchanged DEF DropOld, Parts, RestTyped
<1> QED
  BY <1>2, <1>3

\* The document of a nested creation is a reference, keyed in its collection.
LEMMA DistributeStep ==
    ASSUME Parts, NEW t \in Tx, Distribute(t)
    PROVE  Parts'
<1>1. TxInv /\ KeysInv /\ RestTyped /\ tx[t] \in TxState /\ WellDirected(tx[t])
      /\ tx[t].pc = "distribute"
  BY DEF Parts, TxInv, Distribute, At
<1> SUFFICES TxInv'
  BY KeyUnchanged DEF Parts, Distribute, tables, RestTyped
<1>2. CASE Goto(t, "publish")
  BY <1>1, <1>2, GotoStep DEF WellDirected, Following, Finding, Pcs, Creating
<1>3. ASSUME NEW c \in tx[t].todo,
             tx[Ref(t[1])].pc = "idle",
             tx' = [tx EXCEPT
                  ![t].todo = Remaining(@, c),
                  ![Ref(t[1])] = [Fresh("insert_commit") EXCEPT
                      !.doc = [of |-> tx[t].doc, in |-> c, by |-> t[1]],
                      !.uri = RefUri(t, c)]]
      PROVE  TxInv'
  <2> DEFINE r == Ref(t[1])
             d == [of |-> tx[t].doc, in |-> c, by |-> t[1]]
             x == [Fresh("insert_commit") EXCEPT !.doc = d, !.uri = RefUri(t, c)]
             s == [tx[t] EXCEPT !.todo = Remaining(@, c)]
  <2>1. t[1] \in Req /\ r \in Tx /\ r # t
    <3>1. t[1] \in Req
      BY DEF Tx
    <3> QED
      BY <1>1, <1>3, <3>1 DEF Tx, Ref
  <2>2. tx[t].doc \in UserDoc /\ c \in MemberOf[tx[t].doc]
    BY <1>1 DEF WellDirected
  <2>3. d \in RefDoc /\ d \in RecordDoc /\ d \in Doc
    BY <2>1, <2>2 DEF RefDoc, RecordDoc, Doc
  <2>4. d.in = c /\ d.of = tx[t].doc
    OBVIOUS
  <2>5. RefUri(t, c) = UriOf(d) /\ UriOf(d) \in Uri
    <3>1. d \notin UserDoc
      BY <2>3, KeysAssumption
    <3> QED
      BY <2>3, <2>4, <3>1, KeysAssumption DEF RefUri, UriOf
  <2>6. x \in TxState /\ WellDirected(x)
    <3> HIDE DEF d
    <3>1. Fresh("insert_commit") \in TxState
      BY DEF Fresh, TxState, Kinds, NoId, RowId, Pcs
    <3>2. x \in TxState /\ x.pc = "insert_commit" /\ x.doc = d /\ x.uri = RefUri(t, c)
          /\ x.todo = {}
      BY <2>3, <2>5, <3>1 DEF TxState, Fresh
    <3>3. WellDirected(x)
      <4> HIDE DEF x
      <4> QED
        BY <2>3, <2>5, <3>2 DEF WellDirected, Creating, Following, Finding
    <3> QED
      BY <3>2, <3>3
  <2>7. s \in TxState /\ WellDirected(s)
    <3>1. s \in TxState /\ s.pc = "distribute" /\ s.doc = tx[t].doc
          /\ s.todo = tx[t].todo \ {c}
      BY <1>1 DEF TxState, Remaining
    <3> HIDE DEF s
    <3> QED
      BY <1>1, <3>1 DEF WellDirected, Creating, Following, Finding
  <2>8. \A y \in Tx : tx'[y] = IF y = r THEN x ELSE IF y = t THEN s ELSE tx[y]
    BY <1>1, <1>3, <2>1 DEF TxInv
  <2>9. tx' \in [Tx -> TxState]
    <3>1. DOMAIN tx' = Tx /\ tx' = [y \in Tx |-> tx'[y]]
      BY <1>1, <1>3 DEF TxInv
    <3> HIDE DEF x, s, r
    <3> QED
      BY <1>1, <2>6, <2>7, <2>8, <3>1 DEF TxInv
  <2>10. \A y \in Tx : WellDirected(tx'[y])
    <3> HIDE DEF x, s, r
    <3> QED
      BY <1>1, <2>6, <2>7, <2>8 DEF TxInv
  <2> QED
    BY <2>9, <2>10 DEF TxInv
<1> QED
  BY <1>2, <1>3 DEF Distribute

\* Publishing and committing end the creation.
LEMMA PublishStep ==
    ASSUME Parts, NEW t \in Tx, Publish(t)
    PROVE  Parts'
<1> USE DEF Parts
<1>0. tx[t].doc \in Doc
  BY DEF Publish, At, TxInv, WellDirected, Following
<1>1. CASE Fail(t, "unpublished")
  BY <1>1, FailStep DEF Replies
<1>2. CASE /\ published' = published \cup {tx[t].doc}
           /\ Goto(t, "commit")
           /\ UNCHANGED <<tables, drawn>>
  <2>1. TxInv'
    BY <1>2, GotoStep DEF Pcs, Creating, Following, Finding
  <2> QED
    BY <1>0, <1>2, <2>1, KeyUnchanged DEF Parts, RestTyped, tables
<1> QED
  BY <1>1, <1>2 DEF Publish

\* A transaction commits.
LEMMA CommitStep ==
    ASSUME Parts, NEW t \in Tx, Commit(t)
    PROVE  Parts'
<1>1. TxInv /\ KeysInv /\ RestTyped
  BY DEF Parts
<1>2. TxInv'
  BY <1>1, EndedDirected, TxStep DEF Commit, Replies
<1>3. KeysInv'
  BY <1>1, KeyCommitted DEF Commit
<1>4. commitLog' \in [Doc -> CellOf({"none", "kept", "gc"}, Tx)]
  BY <1>1, CommittedTyped DEF Commit, RestTyped
<1>5. record' \in [RecordDoc -> CellOf(BOOLEAN, Tx)]
  BY <1>1, CommittedTyped DEF Commit, RestTyped
<1>6. association' \in [Slots -> CellOf(AssociationRow, Tx)]
  BY <1>1, CommittedTyped DEF Commit, RestTyped
<1> QED
  BY <1>1, <1>2, <1>3, <1>4, <1>5, <1>6 DEF Parts, RestTyped, Commit

-----------------------------------------------------------------------------
(* Associations, reads and deletes.                                        *)

\* An association is attached to the key its target has.
LEMMA AssociateStep ==
    ASSUME Parts, NEW t \in Tx, Associate(t)
    PROVE  Parts'
<1>1. TxInv /\ KeysInv /\ RestTyped /\ tx[t] \in TxState /\ WellDirected(tx[t])
  BY DEF Parts, TxInv
<1>2. CASE Fail(t, "error")
  BY <1>2, FailStep DEF Replies
<1>3. CASE FindTarget(t) /\ ~Fail(t, "error")
  <2> DEFINE u == tx[t].uri
             id == Sees(recordKey, u, t).id
             s == [tx[t] EXCEPT !.pc = "insert_association", !.pid = id]
  <2>1. tx[t].pc = "find_target" /\ tx' = [tx EXCEPT ![t] = s]
        /\ UNCHANGED <<tables, drawn, published>>
    BY <1>3 DEF FindTarget, At
  <2>2. u \in Uri /\ id \in RowId
    BY <1>1, <2>1, SeenKey DEF WellDirected, Finding, KeyRow
  <2>3. s \in TxState /\ s.pc = "insert_association" /\ s.doc = tx[t].doc /\ s.todo = tx[t].todo
    <3> HIDE DEF id
    <3> QED
      BY <1>1, <2>2 DEF TxState, Pcs
  <2>4. WellDirected(s)
    <3> HIDE DEF s
    <3> QED
      BY <1>1, <2>1, <2>3 DEF WellDirected, Creating, Following, Finding
  <2>5. TxInv'
    BY <1>1, <2>1, <2>3, <2>4, TxStep
  <2> QED
    BY <1>1, <2>1, <2>5, KeyUnchanged DEF Parts, RestTyped, tables
<1>4. CASE InsertAssociation(t) /\ ~Fail(t, "error")
  <2> DEFINE row == [doc |-> tx[t].doc, target |-> tx[t].pid]
  <2>1. /\ tx[t].pc = "insert_association"
        /\ association' = Write(association, Slot[tx[t].doc], t, row)
        /\ recordKey' = Share(recordKey, tx[t].uri, t)
        /\ Goto(t, "publish")
        /\ UNCHANGED <<commitLog, record, drawn, published>>
    BY <1>4 DEF InsertAssociation, At
  <2>2. tx[t].doc \in Doc
    BY <1>1, <2>1 DEF WellDirected, Following
  <2>3. row \in AssociationRow
    BY <1>1, <2>2 DEF TxState, AssociationRow
  <2>4. association' \in [Slots -> CellOf(AssociationRow, Tx)]
    <3> HIDE DEF row
    <3> QED
      BY <1>1, <2>1, <2>3, WriteTyped DEF RestTyped
  <2>5. TxInv'
    BY <1>1, <2>1, <2>2, GotoStep DEF Pcs, Creating, Finding
  <2> QED
    BY <1>1, <2>1, <2>4, <2>5, KeyLocked DEF Parts, RestTyped
<1> QED
  BY <1>2, <1>3, <1>4 DEF Associate

\* Reads change no table; what they find is a document of the key's URI or none.
LEMMA FindStep ==
    ASSUME Parts, NEW t \in Tx, Find(t)
    PROVE  Parts'
<1>1. TxInv /\ KeysInv /\ RestTyped /\ tx[t] \in TxState /\ WellDirected(tx[t])
  BY DEF Parts, TxInv
<1>2. \A r \in Replies : Reply(t, r) => Parts'
  BY ReplyStep
<1>3. "ok" \in Replies /\ "error" \in Replies
  BY DEF Replies
<1>4. CASE FindById(t)
  <2>1. CASE Goto(t, "delete_commit") /\ UNCHANGED <<tables, drawn, published>>
    <3>1. TxInv'
      BY <1>1, <2>1, GotoStep DEF Pcs, Creating, Finding, Following
    <3> QED
      BY <1>1, <2>1, <3>1, KeyUnchanged DEF Parts, RestTyped, tables
  <2> QED
    BY <1>2, <1>3, <1>4, <2>1 DEF FindById
<1>5. CASE FindKey(t)
  <2> DEFINE key == recordKey[tx[t].uri].row
             s == [tx[t] EXCEPT !.pc = "find_record", !.old = key.rec]
  <2>1. CASE tx' = [tx EXCEPT ![t] = s] /\ UNCHANGED <<tables, drawn, published>>
    <3>1. tx[t].pc = "find_key" /\ tx[t].uri \in Uri
      BY <1>1, <1>5 DEF FindKey, At, WellDirected, Finding
    <3>2. key.rec \in Doc \cup {NoDoc}
      BY <1>1, <3>1 DEF KeysInv, CellOf, KeyRow
    <3>3. s \in TxState /\ s.pc = "find_record" /\ s.uri = tx[t].uri /\ s.todo = tx[t].todo
      <4> HIDE DEF key
      <4> QED
        BY <1>1, <3>2 DEF TxState, Pcs
    <3>4. WellDirected(s)
      <4> HIDE DEF s
      <4> QED
        BY <1>1, <3>1, <3>3 DEF WellDirected, Creating, Following, Finding
    <3>5. TxInv'
      BY <1>1, <2>1, <3>3, <3>4, TxStep
    <3> QED
      BY <1>1, <2>1, <3>5, KeyUnchanged DEF Parts, RestTyped, tables
  <2> QED
    BY <1>2, <1>3, <1>5, <2>1 DEF FindKey
<1>6. CASE FindRecord(t)
  <2> DEFINE old == tx[t].old
             found == IF old # NoDoc /\ record[old].row THEN old ELSE NoDoc
             pc == IF tx[t].kind = "get" THEN "find_commit" ELSE "delete_commit"
             s == [tx[t] EXCEPT !.pc = pc, !.doc = found]
  <2>1. tx[t].pc = "find_record" /\ tx' = [tx EXCEPT ![t] = s]
        /\ UNCHANGED <<tables, drawn, published>>
    BY <1>6 DEF FindRecord, At
  <2>2. found \in Doc \cup {NoDoc} /\ pc \in {"find_commit", "delete_commit"}
    BY <1>1 DEF TxState
  <2>3. s \in TxState /\ s.pc = pc /\ s.todo = tx[t].todo
    <3> HIDE DEF found, pc
    <3> QED
      BY <1>1, <2>2 DEF TxState, Pcs
  <2>4. WellDirected(s)
    <3> HIDE DEF s, pc
    <3> QED
      BY <1>1, <2>1, <2>2, <2>3 DEF WellDirected, Creating, Following, Finding
  <2>5. TxInv'
    BY <1>1, <2>1, <2>3, <2>4, TxStep
  <2> QED
    BY <1>1, <2>1, <2>5, KeyUnchanged DEF Parts, RestTyped, tables
<1>7. CASE FindCommit(t)
  BY <1>2, <1>3, <1>7 DEF FindCommit
<1> QED
  BY <1>4, <1>5, <1>6, <1>7 DEF Find

\* A delete leaves rows of the tables' types, and no key where it removes one.
LEMMA DeleteStep ==
    ASSUME Parts, NEW t \in Tx, Delete(t)
    PROVE  Parts'
<1>1. TxInv /\ KeysInv /\ RestTyped
  BY DEF Parts
<1>2. ASSUME NEW pc \in {"delete_record", "delete_key", "commit"}, Goto(t, pc)
      PROVE  TxInv'
  BY <1>1, <1>2, GotoStep DEF Pcs, Creating, Finding, Following
<1>3. CASE DeleteCommit(t)
  <2>1. CASE Reply(t, "ok")
    BY <2>1, ReplyStep DEF Replies
  <2>2. CASE /\ commitLog' = Remove(commitLog, tx[t].doc, t, "none")
             /\ Goto(t, "delete_record")
             /\ UNCHANGED <<record, recordKey, association, drawn, published>>
    <3>1. commitLog' \in [Doc -> CellOf({"none", "kept", "gc"}, Tx)]
      BY <1>1, <2>2, WriteTyped DEF RestTyped
    <3> QED
      BY <1>1, <1>2, <2>2, <3>1, KeyUnchanged DEF Parts, RestTyped
  <2> QED
    BY <1>3, <2>1, <2>2 DEF DeleteCommit
<1>4. CASE DeleteRecord(t)
  <2>1. record' \in [RecordDoc -> CellOf(BOOLEAN, Tx)]
    BY <1>1, <1>4, WriteTyped DEF RestTyped, DeleteRecord
  <2> QED
    BY <1>1, <1>2, <1>4, <2>1, KeyUnchanged DEF Parts, RestTyped, DeleteRecord
<1>5. CASE DeleteKey(t)
  <2> DEFINE u == UriOf(tx[t].doc)
             hit == Cascades(tx[t].doc)
  <2>1. KeysInv'
    <3>1. NoKey \in KeyRow /\ KeyBelongs(u, NoKey)
      BY DEF NoKey, NoId, KeyRow, RowId, KeyBelongs
    <3>2. CASE hit
      BY <1>1, <1>5, <3>1, <3>2, KeyWritten DEF DeleteKey
    <3>3. CASE ~hit
      BY <1>1, <1>5, <3>3, KeyUnchanged DEF DeleteKey
    <3> QED
      BY <3>2, <3>3
  <2>2. association' \in [Slots -> CellOf(AssociationRow, Tx)]
    <3>1. association \in [Slots -> CellOf(AssociationRow, Tx)]
      BY <1>1 DEF RestTyped
    <3>2. NoAssociation \in AssociationRow
      BY DEF NoAssociation, AssociationRow, NoId, RowId
    <3>3. \A s \in Slots : Remove(association, s, t, NoAssociation)
                               \in [Slots -> CellOf(AssociationRow, Tx)]
      BY <3>1, <3>2, WriteTyped
    <3> QED
      BY <1>5, <3>1, <3>3 DEF DeleteKey
  <2> QED
    BY <1>1, <1>2, <1>5, <2>1, <2>2 DEF Parts, RestTyped, DeleteKey
<1> QED
  BY <1>3, <1>4, <1>5 DEF Delete

-----------------------------------------------------------------------------
(* The invariant holds at the start and is kept by every step.             *)

\* The server starts with keys that belong to their URIs and no transaction.
LEMMA InitParts ==
    ASSUME Init
    PROVE  Parts
<1>1. \A pc \in {"new", "idle"} : Fresh(pc) \in TxState /\ WellDirected(Fresh(pc))
  BY DEF Fresh, TxState, Kinds, Pcs, NoId, RowId, WellDirected, Creating, Following, Finding
<1>2. TxInv
  BY <1>1 DEF Init, TxInv
<1>3. ASSUME NEW u \in Uri
      PROVE  StartKey(u) \in KeyRow /\ KeyBelongs(u, StartKey(u))
  <2>1. CASE u \notin Planted
    BY <2>1 DEF StartKey, NoKey, NoId, KeyRow, RowId, KeyBelongs
  <2>2. CASE u \in Planted
    <3> DEFINE up == IF Parent[u] = Root THEN NoId ELSE <<Parent[u], 1>>
               rec == IF \E d \in Stored : Home[d] = u
                      THEN CHOOSE d \in Stored : Home[d] = u ELSE NoDoc
    <3>1. up \in RowId /\ up[1] = Parent[u]
      BY KeysAssumption DEF NoId, RowId
    <3>2. rec = NoDoc \/ (rec \in Stored /\ Home[rec] = u)
      OBVIOUS
    <3>3. rec \in Doc \cup {NoDoc} /\ (rec # NoDoc => rec \in RecordDoc /\ UriOf(rec) = u)
      BY <3>2, StartAssumption DEF Doc, RecordDoc, UriOf
    <3>4. StartKey(u) = [id |-> <<u, 1>>, parent |-> up, rec |-> rec]
      BY <2>2 DEF StartKey
    <3>5. <<u, 1>> \in RowId /\ <<u, 1>> # NoId
      BY KeysAssumption DEF RowId, NoId
    <3> HIDE DEF up, rec
    <3> QED
      BY <3>1, <3>3, <3>4, <3>5 DEF KeyRow, KeyBelongs
  <2> QED
    BY <2>1, <2>2
<1>4. KeysInv
  BY <1>3 DEF Init, KeysInv, Cell, CellOf
<1>5. RestTyped
  <2>1. NoAssociation \in AssociationRow
    BY DEF NoAssociation, AssociationRow, NoId, RowId
  <2> QED
    BY <2>1 DEF Init, RestTyped, Cell, CellOf
<1> QED
  BY <1>2, <1>4, <1>5 DEF Parts

\* Each action keeps it.
LEMMA NextParts ==
    ASSUME Parts, [Next]_vars
    PROVE  Parts'
<1>1. CASE UNCHANGED vars
  <2>1. UNCHANGED tx /\ UNCHANGED recordKey
        /\ UNCHANGED <<commitLog, record, association, drawn, published>>
    BY <1>1 DEF vars
  <2>2. TxInv'
    BY <2>1 DEF Parts, TxInv
  <2> QED
    BY <2>1, <2>2, KeyUnchanged DEF Parts, RestTyped
<1>2. ASSUME NEW p \in Req, Begin(p)
      PROVE  Parts'
  BY <1>2, BeginStep
<1>3. ASSUME NEW p \in Req, Cancel(p)
      PROVE  Parts'
  <2>1. KeysInv' /\ RestTyped'
    <3>1. {Main(p), Ref(p)} \in SUBSET Tx
      BY DEF Main, Ref, Tx
    <3> QED
      BY <1>3, <3>1, RollbackStep DEF Cancel
  <2>2. TxInv'
    BY <1>3, OverStep DEF Cancel, Replies
  <2> QED
    BY <2>1, <2>2 DEF Parts
<1>4. ASSUME NEW t \in Tx, Create(t)
      PROVE  Parts'
  BY <1>4, InsertCommitStep, InsertRecordStep, LockKeyStep, ClimbStep, PlantStep, PointStep,
     RetireStep, DistributeStep, PublishStep, CommitStep DEF Create
<1>5. ASSUME NEW t \in Tx, Statement(t)
      PROVE  Parts'
  BY <1>4, <1>5, AssociateStep, FindStep, DeleteStep DEF Statement
<1>6. ASSUME NEW t \in Tx, DeadlockAbort(t) \/ CommitFails(t)
      PROVE  Parts'
  BY <1>6, FailStep DEF DeadlockAbort, CommitFails, Replies
<1>7. CASE Crash
  <2> DEFINE S == {p \in Req : InFlight(p)}
  <2>1. KeysInv' /\ RestTyped'
    BY <1>7, RollbackStep DEF Crash
  <2>2. TxInv'
    BY <1>7, OverStep DEF Crash, Replies
  <2> QED
    BY <2>1, <2>2 DEF Parts
<1> QED
  BY <1>1, <1>2, <1>3, <1>5, <1>6, <1>7 DEF Next, Quiet

\* The inductive invariant holds in every reachable state.
THEOREM KeysInductiveAlways == Spec => []KeysInductive
<1>1. Init => Parts
  BY InitParts
<1>2. Parts /\ [Next]_vars => Parts'
  BY NextParts
<1>3. Parts => KeysInductive
  BY PartsOfInductive
<1> QED
  BY <1>1, <1>2, <1>3, PTL DEF Spec

\* The tables and the transactions keep their types: no statement of a creation,
\* an association or a delete writes a row its table does not have.
THEOREM TypeCorrect == Spec => []TypeOK
<1>1. KeysInductive => TypeOK
  BY DEF KeysInductive
<1> QED
  BY <1>1, KeysInductiveAlways, PTL

\* Every key keeps the parent id of its own parent URI and resolves only to a
\* document written for its URI, however creations, deletes and failures
\* interleave (record.go:112-153, 381-407, 439-493).
THEOREM KeysBelongAlways == Spec => []KeysBelong
<1>1. KeysInductive => KeysBelong
  BY DEF KeysInductive, KeysBelong
<1> QED
  BY <1>1, KeysInductiveAlways, PTL

-----------------------------------------------------------------------------
(* What an operation of one transaction leaves of another's.               *)

\* The other's uncommitted rows are as they were,
Own(T, U, x) ==
    \A k \in DOMAIN T :
        /\ U[k].by = x <=> T[k].by = x
        /\ T[k].by = x => U[k].dirty = T[k].dirty

\* and so are its locks.
Kept(T, U, x) ==
    /\ Own(T, U, x)
    /\ \A k \in DOMAIN T :
          /\ x \in U[k].share <=> x \in T[k].share
          /\ U[k].excl = x <=> T[k].excl = x
          /\ Sole(T, k, x) => Sole(U, k, x)

SameRows(T, U) == \A k \in DOMAIN T : U[k].row = T[k].row

\* A write of a row that no other transaction is writing.
LEMMA WriteKeeps ==
    ASSUME NEW K, NEW V, NEW T \in [K -> CellOf(V, Tx)], NEW k \in K,
           NEW t \in Tx, NEW v, Writer(T, k, t) = {}
    PROVE  /\ SameRows(T, Write(T, k, t, v))
           /\ \A x \in Tx \ {t} : Kept(T, Write(T, k, t, v), x)
<1> DEFINE U == Write(T, k, t, v)
<1>1. DOMAIN T = K /\ T[k].by \in {NoTx, t} /\ NoTx \notin Tx
  BY KeysAssumption DEF Writer
<1>2. ASSUME NEW j \in K
      PROVE  /\ U[j].row = T[j].row /\ U[j].share = T[j].share /\ U[j].excl = T[j].excl
             /\ j # k => U[j] = T[j]
             /\ j = k => U[j].by = t
  BY DEF Write, CellOf
<1> HIDE DEF U
<1>3. SameRows(T, U)
  BY <1>1, <1>2 DEF SameRows
<1>4. \A x \in Tx \ {t} : Kept(T, U, x)
  BY <1>1, <1>2 DEF Kept, Own, Sole
<1> QED
  BY <1>3, <1>4 DEF U

\* A deletion, or a FOR UPDATE, of a row that no other transaction uses.
LEMMA RemoveKeeps ==
    ASSUME NEW K, NEW V, NEW T \in [K -> CellOf(V, Tx)], NEW k \in K,
           NEW t \in Tx, NEW v, Users(T, k, t) = {},
           NEW U, U \in {Remove(T, k, t, v), ForUpdate(T, k, t)}
    PROVE  SameRows(T, U) /\ \A x \in Tx \ {t} : Kept(T, U, x)
<1>1. /\ DOMAIN T = K /\ T[k].by \in {NoTx, t} /\ NoTx \notin Tx
      /\ T[k].excl \in {NoTx, t} /\ T[k].share \subseteq {NoTx, t}
  BY KeysAssumption DEF Users
<1>2. ASSUME NEW j \in K
      PROVE  /\ U[j].row = T[j].row /\ U[j].share = T[j].share
             /\ j # k => U[j] = T[j]
             /\ j = k => U[j].by \in {T[j].by, t} /\ U[j].excl = t
  <2>1. CASE U = Remove(T, k, t, v)
    BY <2>1 DEF Remove, CellOf
  <2>2. CASE U = ForUpdate(T, k, t)
    BY <2>2 DEF ForUpdate, CellOf
  <2> QED
    BY <2>1, <2>2
<1>3. SameRows(T, U)
  BY <1>1, <1>2 DEF SameRows
<1>4. \A x \in Tx \ {t} : Kept(T, U, x)
  BY <1>1, <1>2 DEF Kept, Own, Sole
<1> QED
  BY <1>3, <1>4

\* A foreign key check of a row that no other transaction is deleting.
LEMMA ShareKeeps ==
    ASSUME NEW K, NEW V, NEW T \in [K -> CellOf(V, Tx)], NEW k \in K,
           NEW t \in Tx, Remover(T, k, t) = {}
    PROVE  /\ SameRows(T, Share(T, k, t))
           /\ \A x \in Tx \ {t} : Kept(T, Share(T, k, t), x)
<1> DEFINE U == Share(T, k, t)
<1>1. DOMAIN T = K /\ T[k].excl \in {NoTx, t} /\ NoTx \notin Tx
  BY KeysAssumption DEF Remover
<1>2. ASSUME NEW j \in K
      PROVE  /\ U[j].row = T[j].row /\ U[j].by = T[j].by /\ U[j].dirty = T[j].dirty
             /\ U[j].excl = T[j].excl /\ U[j].share \in {T[j].share, T[j].share \cup {t}}
             /\ j # k => U[j] = T[j]
  BY DEF Share, CellOf
<1> HIDE DEF U
<1>3. SameRows(T, U)
  BY <1>1, <1>2 DEF SameRows
<1>4. \A x \in Tx \ {t} : Kept(T, U, x)
  BY <1>1, <1>2 DEF Kept, Own, Sole
<1> QED
  BY <1>3, <1>4 DEF U

\* Nothing changes where nothing is done.
LEMMA NothingKeeps ==
    ASSUME NEW T, NEW x
    PROVE  SameRows(T, T) /\ Kept(T, T, x)
  BY DEF SameRows, Kept, Own

\* A rollback of other transactions.
LEMMA RollbackKeeps ==
    ASSUME NEW K, NEW V, NEW T \in [K -> CellOf(V, Tx)], NEW S \in SUBSET Tx
    PROVE  /\ SameRows(T, RolledBack(T, S))
           /\ \A x \in Tx \ S : Kept(T, RolledBack(T, S), x)
           /\ \A k \in K : RolledBack(T, S)[k].by \notin S
<1> DEFINE U == RolledBack(T, S)
<1>1. DOMAIN T = K /\ NoTx \notin Tx
  BY KeysAssumption
<1>2. ASSUME NEW j \in K
      PROVE  /\ U[j].row = T[j].row /\ U[j].share = T[j].share \ S
             /\ U[j].excl = IF T[j].excl \in S THEN NoTx ELSE T[j].excl
             /\ T[j].by \in S => U[j].by = NoTx
             /\ T[j].by \notin S => U[j].by = T[j].by /\ U[j].dirty = T[j].dirty
  BY DEF RolledBack, Release, CellOf
<1> HIDE DEF U
<1>3. SameRows(T, U)
  BY <1>1, <1>2 DEF SameRows
<1>4. \A x \in Tx \ S : Kept(T, U, x)
  BY <1>1, <1>2 DEF Kept, Own, Sole
<1>5. \A k \in K : U[k].by \notin S
  BY <1>1, <1>2
<1> QED
  BY <1>3, <1>4, <1>5 DEF U

\* The commit of another transaction: it makes its own rows the committed ones.
LEMMA CommitKeeps ==
    ASSUME NEW K, NEW V, NEW T \in [K -> CellOf(V, Tx)], NEW t \in Tx
    PROVE  /\ \A k \in K : Committed(T, t)[k].row = Sees(T, k, t)
           /\ \A x \in Tx \ {t} : Kept(T, Committed(T, t), x)
           /\ \A k \in K : Committed(T, t)[k].by # t
<1> DEFINE U == Committed(T, t)
<1>1. DOMAIN T = K /\ NoTx \notin Tx
  BY KeysAssumption
<1>2. ASSUME NEW j \in K
      PROVE  /\ U[j].row = Sees(T, j, t) /\ U[j].share = T[j].share \ {t}
             /\ U[j].excl = IF T[j].excl = t THEN NoTx ELSE T[j].excl
             /\ T[j].by = t => U[j].by = NoTx
             /\ T[j].by # t => U[j].by = T[j].by /\ U[j].dirty = T[j].dirty
  BY DEF Committed, Release, Sees, CellOf
<1> HIDE DEF U
<1>4. \A x \in Tx \ {t} : Kept(T, U, x)
  BY <1>1, <1>2 DEF Kept, Own, Sole
<1>5. \A k \in K : U[k].by # t
  BY <1>1, <1>2
<1> QED
  BY <1>2, <1>4, <1>5 DEF U

-----------------------------------------------------------------------------
(* A transaction that does not move keeps its grip.                        *)

\* The tables' types, taken from the proved part of the invariant.
LEMMA TablesTyped ==
    ASSUME Parts
    PROVE  /\ commitLog \in [Doc -> CellOf({"none", "kept", "gc"}, Tx)]
           /\ record \in [RecordDoc -> CellOf(BOOLEAN, Tx)]
           /\ recordKey \in [Uri -> CellOf(KeyRow, Tx)]
           /\ association \in [Slots -> CellOf(AssociationRow, Tx)]
  BY DEF Parts, RestTyped, KeysInv

\* The table of commits.
LEMMA LogTyped ==
    Parts => commitLog \in [Doc -> CellOf({"none", "kept", "gc"}, Tx)]
  BY TablesTyped

\* The table of records.
LEMMA RecordTyped == Parts => record \in [RecordDoc -> CellOf(BOOLEAN, Tx)]
  BY TablesTyped

\* The table of record keys.
LEMMA KeyTyped == Parts => recordKey \in [Uri -> CellOf(KeyRow, Tx)]
  BY TablesTyped

\* The table of associations.
LEMMA AssociationTyped == Parts => association \in [Slots -> CellOf(AssociationRow, Tx)]
  BY TablesTyped

\* A record document has a URI and is no association's.
LEMMA DocumentKeys ==
    /\ \A d \in RecordDoc : d \in Doc /\ d \notin AssocDoc /\ UriOf(d) \in Uri /\ d # NoDoc
    /\ \A d \in AssocDoc : d \in Doc /\ Target[d] \in Uri /\ Slot[d] \in Slots /\ d # NoDoc
    /\ NoDoc \notin Doc
  BY KeysAssumption DEF Doc, RecordDoc, UriOf, Slots

\* All that Grip and Course say of a transaction's local state.
Unmoved(x) ==
    /\ tx'[x].pc = tx[x].pc /\ tx'[x].kind = tx[x].kind
    /\ tx'[x].doc = tx[x].doc /\ tx'[x].uri = tx[x].uri
    /\ tx'[x].old = tx[x].old /\ tx'[x].pid = tx[x].pid

\* What x wrote and locked is untouched.
Steady(x) ==
    /\ Kept(commitLog, commitLog', x) /\ Kept(record, record', x)
    /\ Kept(recordKey, recordKey', x) /\ Own(association, association', x)

NoRowChanges ==
    /\ SameRows(commitLog, commitLog') /\ SameRows(record, record')
    /\ SameRows(recordKey, recordKey') /\ SameRows(association, association')

\* A transaction that does not move has what it has written and announced.
LEMMA UnmovedCourse ==
    ASSUME NEW x \in Tx, Course(tx[x]), Announced(x), Unmoved(x), published \subseteq published'
    PROVE  Course(tx'[x]) /\ Announced(x)'
  BY DEF Course, Kinded, Written, Replaced, Announced, Unmoved

\* The rows that change are none that x relies on: none that it has written, locked or,
\* for the commits of associations, seen.
Spares(x) ==
    /\ \A d \in Doc : (commitLog[d].by = x => commitLog'[d].row = commitLog[d].row)
    /\ \A d \in Doc : (x \in commitLog[d].share /\ commitLog[d].row # "none")
                          => commitLog'[d].row # "none"
    /\ \A d \in AssocDoc : commitLog[d].row # "none" => commitLog'[d].row # "none"
    /\ \A d \in RecordDoc : record[d].by = x => record'[d].row = record[d].row
    /\ \A d \in RecordDoc : (x \in record[d].share /\ record[d].row) => record'[d].row
    /\ \A d \in RecordDoc : (Sole(commitLog, d, x) /\ ~record[d].row) => ~record'[d].row
    /\ \A u \in Uri : recordKey[u].by = x => recordKey'[u].row = recordKey[u].row
    /\ \A u \in Uri : (x \in recordKey[u].share /\ recordKey[u].row.id # NoId)
                          => recordKey'[u].row.id = recordKey[u].row.id
    /\ \A d \in RecordDoc :
          (/\ Sole(commitLog, d, x) /\ recordKey[UriOf(d)].row.rec # d
           /\ record[d].row => record[d].by = x /\ ~record[d].dirty)
              => recordKey'[UriOf(d)].row.rec # d
    /\ \A a \in Slots : association[a].by = x => association'[a].row = association[a].row
    /\ \A u \in Uri, a \in Slots :
          (/\ Sole(recordKey, u, x) /\ recordKey[u].row.id # NoId
           /\ association'[a].row.target = recordKey[u].row.id)
              => association'[a].row = association[a].row

\* A transaction that does not move and is spared keeps its grip.
LEMMA SparedGrip ==
    ASSUME Parts, NEW x \in Tx, Course(tx[x]), Grip(x), Unmoved(x), Steady(x), Spares(x)
    PROVE  Grip(x)'
<1> DEFINE s == tx[x]
<1>1. /\ s.kind = "create" /\ s.pc \in Listed =>
            s.doc \in RecordDoc /\ s.uri \in Uri
      /\ s.kind = "delete" /\ s.pc \in Deleting =>
            s.doc \in RecordDoc /\ s.doc \in Doc /\ UriOf(s.doc) \in Uri
      /\ s.kind = "associate" /\ s.pc \in Attaching =>
            s.doc \in AssocDoc /\ s.doc \in Doc /\ s.uri \in Uri
  BY DocumentKeys DEF Course, Written
<1>2. \A d \in Doc :
        /\ commitLog'[d].by = x <=> commitLog[d].by = x
        /\ commitLog[d].by = x => commitLog'[d].dirty = commitLog[d].dirty
        /\ x \in commitLog[d].share => x \in commitLog'[d].share
        /\ Sole(commitLog, d, x) => Sole(commitLog', d, x)
  BY TablesTyped DEF Steady, Kept, Own
<1>3. \A d \in RecordDoc :
        /\ record'[d].by = x <=> record[d].by = x
        /\ record[d].by = x => record'[d].dirty = record[d].dirty
        /\ x \in record[d].share => x \in record'[d].share
        /\ Sole(record, d, x) => Sole(record', d, x)
  BY TablesTyped DEF Steady, Kept, Own
<1>4. \A u \in Uri :
        /\ recordKey'[u].by = x <=> recordKey[u].by = x
        /\ recordKey[u].by = x => recordKey'[u].dirty = recordKey[u].dirty
        /\ x \in recordKey[u].share => x \in recordKey'[u].share
        /\ Sole(recordKey, u, x) => Sole(recordKey', u, x)
  BY TablesTyped DEF Steady, Kept, Own
<1>5. \A a \in Slots :
        /\ association'[a].by = x <=> association[a].by = x
        /\ association[a].by = x => association'[a].dirty = association[a].dirty
  BY TablesTyped DEF Steady, Own
<1>6. CommitHeld(x)'
  BY <1>1, <1>2 DEF Spares, Grip, CommitHeld, Unmoved, Sees
<1>7. RecordInserted(x)'
  BY <1>1, <1>2, <1>3, DocumentKeys DEF Spares, Grip, RecordInserted, Unmoved, Sees
<1>8. RecordDeleted(x)'
  BY <1>1, <1>3 DEF Spares, Grip, RecordDeleted, CommitHeld, Unmoved, Deleting
<1>9. KeyPointed(x)'
  BY <1>1, <1>3, <1>4,
     SMTT(20), ZenonT(40) DEF Spares, Grip, KeyPointed, Unmoved, Sees, Listed
<1>10. KeyDeleted(x)'
  BY <1>1, <1>4, <1>5 DEF Spares, Grip, KeyDeleted, RecordDeleted, CommitHeld, Unmoved, Deleting
<1>11. KeyKeepsId(x)'
  BY <1>4 DEF Spares, Grip, KeyKeepsId
<1>12. Attached1(x)'
  BY <1>1, <1>4, <1>5 DEF Spares, Grip, Attached1, Unmoved, Attaching, Course, Written
<1>13. Detached(x)'
  BY <1>1, <1>4, <1>5 DEF Spares, Grip, Detached, Unmoved, Deleting
<1> QED
  BY <1>6, <1>7, <1>8, <1>9, <1>10, <1>11, <1>12, <1>13 DEF Grip

\* So does one where no row changes at all.
LEMMA SteadyGrip ==
    ASSUME Parts, NEW x \in Tx, Course(tx[x]), Grip(x),
           Unmoved(x), Steady(x), NoRowChanges
    PROVE  Grip(x)'
<1>1. /\ \A d \in Doc : commitLog'[d].row = commitLog[d].row
      /\ \A d \in RecordDoc : record'[d].row = record[d].row
      /\ \A u \in Uri : recordKey'[u].row = recordKey[u].row
      /\ \A a \in Slots : association'[a].row = association[a].row
  BY TablesTyped DEF NoRowChanges, SameRows
<1>2. Spares(x)
  BY <1>1, DocumentKeys DEF Spares
<1> QED
  BY <1>2, SparedGrip

\* The phases in which a transaction has written nothing that others may rely on,
\* but for a record under the lock of its commit.
Before == Replies \cup Reading \cup {"new", "idle", "insert_commit", "insert_record"}
Early  == Before \cup {"lock_key", "climb", "plant", "point"}

Light(t) ==
    /\ \A d \in Doc : commitLog[d].by = t => commitLog[d].dirty # "none"
    /\ \A d \in RecordDoc : record[d].by = t => record[d].dirty
    /\ RecordInserted(t)
    /\ \A u \in Uri : recordKey[u].by = t =>
          recordKey[u].dirty.rec = NoDoc /\ recordKey[u].dirty.id # NoId
    /\ KeyKeepsId(t)
    /\ \A a \in Slots : association[a].by # t

\* In those, its grip is no more than that,
LEMMA GripIsLight ==
    ASSUME NEW t \in Tx, tx[t].pc \in Early, Grip(t)
    PROVE  Light(t)
<1>1. tx[t].pc \notin Pointed \cup Deleting \cup Attaching \cup
                     {"distribute", "publish", "commit", "delete_key"}
  BY DEF Early, Before, Replies, Reading, Pointed, Deleting, Attaching
<1>2. \A d \in Doc : commitLog[d].by = t => commitLog[d].dirty # "none"
  BY <1>1 DEF Grip, CommitHeld
<1>3. \A d \in RecordDoc : record[d].by = t => record[d].dirty
  BY <1>1 DEF Grip, RecordDeleted
<1>4. \A u \in Uri : recordKey[u].by = t =>
          recordKey[u].dirty.rec = NoDoc /\ recordKey[u].dirty.id # NoId
  BY <1>1 DEF Grip, KeyPointed, KeyDeleted
<1>5. \A a \in Slots : association[a].by # t
  BY <1>1 DEF Grip, Attached1, Detached
<1> QED
  BY <1>2, <1>3, <1>4, <1>5 DEF Grip, Light

\* and no less.
LEMMA LightIsGrip ==
    ASSUME NEW t \in Tx, tx'[t].pc \in Early, Light(t)'
    PROVE  Grip(t)'
<1>1. tx'[t].pc \notin Pointed \cup Deleting \cup Attaching \cup
                      {"distribute", "publish", "commit", "delete_key"}
  BY DEF Early, Before, Replies, Reading, Pointed, Deleting, Attaching
<1>2. CommitHeld(t)' /\ RecordInserted(t)' /\ RecordDeleted(t)'
  BY <1>1 DEF Light, CommitHeld, RecordDeleted
<1>3. KeyPointed(t)' /\ KeyDeleted(t)' /\ Attached1(t)' /\ Detached(t)'
  BY <1>1 DEF Light, KeyPointed, KeyDeleted, Attached1, Detached
<1> QED
  BY <1>2, <1>3 DEF Grip, Light

\* A step that writes nothing, from a phase before the record is inserted.
LEMMA EarlyStep ==
    ASSUME NEW t \in Tx, Grip(t),
           tx[t].pc \in Before, tx'[t].pc \in Early, UNCHANGED tables
    PROVE  Grip(t)'
<1>1. Light(t)
  BY GripIsLight DEF Early
<1>2. \A d \in RecordDoc : record[d].by # t
  BY <1>1 DEF Light, RecordInserted, Before, Replies, Reading, Listed, Pointed
<1>3. Light(t)'
  BY <1>1, <1>2 DEF Light, RecordInserted, KeyKeepsId, tables
<1> QED
  BY <1>3, LightIsGrip

\* Committed rows that do not change hang together as they did.
LEMMA RowsAsTheyWere ==
    ASSUME Parts, RowsResolve, RowsHang, NoRowChanges
    PROVE  RowsResolve' /\ RowsHang'
<1>1. /\ \A d \in Doc : commitLog'[d].row = commitLog[d].row
      /\ \A d \in RecordDoc : record'[d].row = record[d].row
      /\ \A u \in Uri : recordKey'[u].row = recordKey[u].row
      /\ \A a \in Slots : association'[a].row = association[a].row
  BY TablesTyped DEF NoRowChanges, SameRows
<1>2. \A u \in Uri : Live(u) # NoDoc => Live(u) \in RecordDoc
  BY DEF Parts, KeysInv, KeyBelongs, NoKey, Live
<1>3. RowsResolve'
  BY <1>1, <1>2, DocumentKeys DEF RowsResolve, Live
<1>4. RowsHang'
  BY <1>1, DocumentKeys,
     SMTT(20), ZenonT(40) DEF RowsHang
<1> QED
  BY <1>3, <1>4
-----------------------------------------------------------------------------
(* One actor moves, the rest keep their grip.                              *)

\* What Integrity gives of one transaction.
LEMMA IntegrityOf ==
    ASSUME Integrity, NEW t \in Tx
    PROVE  /\ Parts /\ tx[t] \in TxState /\ WellDirected(tx[t])
           /\ Course(tx[t]) /\ Announced(t) /\ Grip(t)
  BY PartsOfInductive DEF Integrity, Parts, TxInv

Others(t) == \A x \in Tx \ {t} : tx'[x] = tx[x]

\* t goes on to pc with its variables as they are.
Onward(t, pc) ==
    /\ Others(t)
    /\ tx'[t].pc = pc /\ tx'[t].kind = tx[t].kind
    /\ tx'[t].doc = tx[t].doc /\ tx'[t].uri = tx[t].uri
    /\ tx'[t].old = tx[t].old /\ tx'[t].pid = tx[t].pid

\* A transaction that goes on moves alone.
LEMMA GotoOnward ==
    ASSUME TxInv, NEW t \in Tx, NEW pc, Goto(t, pc)
    PROVE  Onward(t, pc)
  BY DEF TxInv, TxState, Goto, Onward, Others

\* The main transaction of a request waits in its loop for the nested one.
LEMMA NestedStep ==
    ASSUME Nested, NEW t \in Tx, Others(t), tx[t].pc # "idle",
           tx[t].pc = "distribute" => (t[2] = "main" => tx[Ref(t[1])].pc = "idle")
    PROVE  Nested'
<1>1. ASSUME NEW p \in Req, tx'[Ref(p)].pc # "idle"
      PROVE  tx'[Main(p)].pc = "distribute"
  <2>1. /\ Main(p) \in Tx /\ Ref(p) \in Tx /\ Main(p) # Ref(p)
        /\ Main(p)[1] = p /\ Main(p)[2] = "main"
    BY DEF Main, Ref, Tx
  <2>2. CASE t = Ref(p)
    BY <2>1, <2>2 DEF Nested, Others
  <2>3. CASE t = Main(p)
    BY <1>1, <2>1, <2>3 DEF Nested, Others
  <2>4. CASE t # Ref(p) /\ t # Main(p)
    BY <1>1, <2>1, <2>4 DEF Nested, Others
  <2> QED
    BY <2>2, <2>3, <2>4
<1> QED
  BY <1>1 DEF Nested

\* A statement of t that commits nothing keeps Integrity if t has the grip of its
\* next phase.
LEMMA MoveStep ==
    ASSUME Integrity, Parts', NEW t \in Tx, Others(t),
           tx[t].pc # "idle",
           tx[t].pc = "distribute" => (t[2] = "main" => tx[Ref(t[1])].pc = "idle"),
           \A x \in Tx \ {t} : Steady(x),
           NoRowChanges, published \subseteq published',
           Course(tx'[t]), Announced(t)', Grip(t)'
    PROVE  Integrity'
<1>1. Parts /\ Nested /\ RowsResolve /\ RowsHang
  BY PartsOfInductive DEF Integrity
<1>2. ASSUME NEW x \in Tx
      PROVE  Course(tx'[x]) /\ Announced(x)' /\ Grip(x)'
  <2>1. CASE x = t
    BY <2>1
  <2>2. CASE x # t
    <3>1. Unmoved(x) /\ Steady(x)
      BY <2>2 DEF Others, Unmoved
    <3> QED
      BY <1>1, <3>1, IntegrityOf, UnmovedCourse, SteadyGrip
  <2> QED
    BY <2>1, <2>2
<1>3. Nested'
  BY <1>1, NestedStep
<1>4. RowsResolve' /\ RowsHang'
  BY <1>1, RowsAsTheyWere
<1>5. KeysInductive'
  BY PartsOfInductive DEF KeysInductive, Parts, TypeOK, TxInv, KeysInv, RestTyped
<1> QED
  BY <1>2, <1>3, <1>4, <1>5 DEF Integrity

\* Where the tables do not change, nobody loses anything.
LEMMA TablesUntouched ==
    ASSUME UNCHANGED tables
    PROVE  NoRowChanges /\ \A x \in Tx : Steady(x)
  BY NothingKeeps DEF tables, NoRowChanges, Steady, Kept

-----------------------------------------------------------------------------
(* Requests begin, read and end.                                           *)

\* A request is dispatched on its document.
LEMMA BeginKeeps ==
    ASSUME Integrity, Parts', NEW p \in Req, Begin(p)
    PROVE  Integrity'
<1> DEFINE t == Main(p)
<1>1. t \in Tx
  BY DEF Main, Tx
<1>2. Parts /\ Grip(t) /\ tx \in [Tx -> TxState]
  BY <1>1, IntegrityOf DEF Parts, TxInv
<1>3. PICK o \in Menu[p] :
          tx' = [tx EXCEPT ![t] = [Fresh(FirstStatement(o)) EXCEPT
                    !.kind = o.kind,
                    !.doc = o.doc,
                    !.uri = o.uri,
                    !.todo = IF o.kind = "create" THEN MemberOf[o.doc] ELSE {}]]
  BY DEF Begin
<1>4. /\ Others(t)
      /\ tx'[t].pc = FirstStatement(o) /\ tx'[t].kind = o.kind
      /\ tx'[t].doc = o.doc /\ tx'[t].uri = o.uri /\ tx'[t].old = NoDoc
  BY <1>1, <1>2, <1>3 DEF Others, Fresh
<1>5. /\ o \in Operation
      /\ o.kind = "create" => o.doc \in UserDoc /\ o.uri = Home[o.doc]
      /\ o.kind = "associate" => o.doc \in AssocDoc /\ o.uri = Target[o.doc]
      /\ o.kind \in {"delete", "get"} =>
            IF o.uri = Root THEN o.doc \in RecordDoc ELSE o.doc = NoDoc
  BY MenuAssumption
<1>6. o.kind \in Kinds
  BY <1>5 DEF Operation
<1>7. /\ tx'[t].pc = "insert_commit" => o.kind \in {"create", "associate"}
      /\ tx'[t].pc = "find_id" => o.kind = "delete" /\ o.uri = Root
      /\ tx'[t].pc = "find_key" => o.kind \in {"delete", "get"}
      /\ tx'[t].pc = "find_commit" => o.kind = "get" /\ o.uri = Root
      /\ tx'[t].pc \in {"insert_commit", "find_id", "find_key", "find_commit", "error"}
  BY <1>4, <1>6 DEF FirstStatement, Kinds
<1>8. Course(tx'[t])
  <2>1. o.kind = "create" => o.doc \in RecordDoc /\ o.uri = UriOf(o.doc)
    BY <1>5 DEF RecordDoc, UriOf
  <2>2. Kinded(tx'[t])
    BY <1>4, <1>7 DEF Kinded, Creating
  <2>3. Written(tx'[t])
    BY <1>4, <1>5, <1>7, <2>1 DEF Written, Listed, Pointed, Attaching, Deleting
  <2>4. Replaced(tx'[t])
    BY <1>4, <1>7 DEF Replaced, Listed, Pointed
  <2> QED
    BY <2>2, <2>3, <2>4 DEF Course
<1>9. Announced(t)'
  BY <1>7 DEF Announced
<1>10. Grip(t)'
  <2>1. tx[t].pc \in Before /\ tx'[t].pc \in Early
    BY <1>7 DEF Begin, Early, Before, Reading, Replies
  <2> QED
    BY <1>1, <1>2, <2>1, EarlyStep DEF Begin
<1> QED
  BY <1>1, <1>4, <1>8, <1>9, <1>10, MoveStep, TablesUntouched DEF Begin

\* What is over, or has not begun, has no course to keep.
LEMMA OverCourse ==
    ASSUME NEW t \in Tx, tx'[t].pc \in Replies \cup {"idle", "new"}
    PROVE  Course(tx'[t]) /\ Announced(t)'
<1>1. Course(tx'[t])
  BY DEF Replies, Course, Kinded, Written, Replaced, Creating, Listed, Pointed, Attaching,
         Deleting
<1> QED
  BY <1>1 DEF Replies, Announced

\* The end of a transaction, in either way.
LEMMA EndedPc ==
    ASSUME NEW t \in Tx, NEW r \in Replies
    PROVE  Ended(t, r).pc \in Replies \cup {"idle"}
  BY DEF Ended, Fresh

\* A request that only reads is answered.
LEMMA ReplyKeeps ==
    ASSUME Integrity, Parts', NEW t \in Tx, NEW r \in Replies, Reply(t, r),
           tx[t].pc \in Reading
    PROVE  Integrity'
<1>1. Parts /\ Grip(t) /\ tx \in [Tx -> TxState]
  BY IntegrityOf DEF Parts, TxInv
<1>2. Others(t) /\ tx'[t].pc \in Replies \cup {"idle"}
  BY <1>1, EndedPc DEF Reply, Others
<1>3. /\ tx[t].pc \in Before /\ tx'[t].pc \in Early
      /\ tx[t].pc \notin {"idle", "distribute"}
  BY <1>2 DEF Early, Before, Reading
<1>4. Grip(t)'
  BY <1>1, <1>3, EarlyStep DEF Reply
<1> QED
  BY <1>2, <1>3, <1>4, OverCourse, MoveStep, TablesUntouched DEF Reply

\* A record looked up by its document's id,
LEMMA FindByIdKeeps ==
    ASSUME Integrity, Parts', NEW t \in Tx, FindById(t)
    PROVE  Integrity'
<1>1. Parts /\ TxInv /\ Grip(t) /\ Course(tx[t]) /\ tx[t].pc = "find_id"
  BY IntegrityOf DEF Parts, FindById, At
<1>2. CASE Reply(t, "error")
  BY <1>1, <1>2, ReplyKeeps DEF Reading, Replies
<1>3. CASE Goto(t, "delete_commit") /\ UNCHANGED <<tables, drawn, published>>
  <2>1. Onward(t, "delete_commit")
    BY <1>1, <1>3, GotoOnward
  <2>2. Grip(t)'
    BY <1>1, <1>3, <2>1, EarlyStep DEF Early, Before, Reading, Onward
  <2>3. tx[t].kind = "delete" /\ tx[t].doc \in RecordDoc /\ tx[t].uri = Root
    BY <1>1 DEF Course, Kinded, Written
  <2>4. Course(tx'[t]) /\ Announced(t)'
    BY <2>1, <2>3 DEF Onward, Course, Kinded, Written, Replaced, Announced, Creating, Listed,
       Pointed, Attaching, Deleting
  <2> QED
    BY <1>1, <1>3, <2>1, <2>2, <2>4, MoveStep, TablesUntouched DEF Onward
<1> QED
  BY <1>2, <1>3 DEF FindById

\* by its URI,
LEMMA FindKeyKeeps ==
    ASSUME Integrity, Parts', NEW t \in Tx, FindKey(t)
    PROVE  Integrity'
<1> DEFINE u == tx[t].uri
           key == recordKey[u].row
<1>1. /\ Parts /\ KeysInv /\ tx \in [Tx -> TxState] /\ Grip(t) /\ Course(tx[t])
      /\ tx[t].pc = "find_key" /\ u \in Uri
  BY IntegrityOf DEF Parts, TxInv, FindKey, At, WellDirected, Finding
<1>2. CASE Reply(t, "error")
  BY <1>1, <1>2, ReplyKeeps DEF Reading, Replies
<1>3. CASE /\ tx' = [tx EXCEPT ![t].pc = "find_record", ![t].old = key.rec]
           /\ UNCHANGED <<tables, drawn, published>>
  <2>1. /\ Others(t)
        /\ tx'[t].pc = "find_record" /\ tx'[t].old = key.rec
        /\ tx'[t].kind = tx[t].kind /\ tx'[t].uri = u
    BY <1>1, <1>3 DEF Others, TxState
  <2>2. Grip(t)'
    BY <1>1, <1>3, <2>1, EarlyStep DEF Early, Before, Reading
  <2>3. key.rec # NoDoc => key.rec \in RecordDoc /\ UriOf(key.rec) = u
    BY <1>1 DEF KeysInv, KeyBelongs, NoKey
  <2>4. tx[t].kind \in {"delete", "get"}
    BY <1>1 DEF Course, Kinded
  <2>5. Course(tx'[t]) /\ Announced(t)'
    BY <2>1, <2>3, <2>4 DEF Course, Kinded, Written, Replaced, Announced, Creating, Listed,
       Pointed, Attaching, Deleting
  <2> QED
    BY <1>1, <1>3, <2>1, <2>2, <2>5, MoveStep, TablesUntouched
<1> QED
  BY <1>2, <1>3 DEF FindKey

\* and from its key.
LEMMA FindRecordKeeps ==
    ASSUME Integrity, Parts', NEW t \in Tx, FindRecord(t)
    PROVE  Integrity'
<1> DEFINE old == tx[t].old
           found == IF old # NoDoc /\ record[old].row THEN old ELSE NoDoc
<1>1. /\ Parts /\ tx \in [Tx -> TxState] /\ Grip(t) /\ Course(tx[t])
      /\ tx[t].pc = "find_record"
      /\ tx' = [tx EXCEPT
              ![t].pc = IF tx[t].kind = "get" THEN "find_commit" ELSE "delete_commit",
              ![t].doc = found]
      /\ UNCHANGED <<tables, drawn, published>>
  BY IntegrityOf DEF Parts, TxInv, FindRecord, At
<1>2. /\ Others(t)
      /\ tx'[t].pc = IF tx[t].kind = "get" THEN "find_commit" ELSE "delete_commit"
      /\ tx'[t].doc = found
      /\ tx'[t].kind = tx[t].kind /\ tx'[t].uri = tx[t].uri
  BY <1>1 DEF Others, TxState
<1>3. Grip(t)'
  BY <1>1, <1>2, EarlyStep DEF Early, Before, Reading
<1>4. tx[t].kind \in {"delete", "get"}
  BY <1>1 DEF Course, Kinded
<1>5. found # NoDoc => found \in RecordDoc /\ UriOf(found) = tx[t].uri
  BY <1>1 DEF Course, Replaced
<1>6. Course(tx'[t]) /\ Announced(t)'
  <2> HIDE DEF found
  <2> QED
    BY <1>2, <1>4, <1>5 DEF Course, Kinded, Written, Replaced, Announced, Creating, Listed,
       Pointed, Attaching, Deleting
<1> QED
  BY <1>1, <1>2, <1>3, <1>6, MoveStep, TablesUntouched

\* Reads keep Integrity.
LEMMA FindKeeps ==
    ASSUME Integrity, Parts', NEW t \in Tx, Find(t)
    PROVE  Integrity'
<1>1. CASE FindCommit(t)
  BY <1>1, ReplyKeeps DEF FindCommit, At, Reading, Replies
<1> QED
  BY <1>1, FindByIdKeeps, FindKeyKeeps, FindRecordKeeps DEF Find

-----------------------------------------------------------------------------
(* Transactions that are rolled back.                                      *)

\* Those of S end and leave nothing, whatever the others are at.
LEMMA RollbackKeepsIntegrity ==
    ASSUME Integrity, Parts', NEW S \in SUBSET Tx, Rollback(S),
           \A x \in S : tx'[x].pc \in Replies \cup {"idle", "new"},
           \A x \in Tx \ S : tx'[x] = tx[x],
           Nested'
    PROVE  Integrity'
<1>1. Parts /\ RowsResolve /\ RowsHang
  BY PartsOfInductive DEF Integrity
<1>2. NoRowChanges
  BY <1>1, TablesTyped, RollbackKeeps DEF Rollback, NoRowChanges
<1>3. \A x \in Tx \ S : Steady(x)
  <2>1. ASSUME NEW x \in Tx \ S
        PROVE  Steady(x)
    <3>1. Kept(commitLog, commitLog', x) /\ Kept(record, record', x)
      BY <1>1, TablesTyped, RollbackKeeps DEF Rollback
    <3>2. Kept(recordKey, recordKey', x) /\ Kept(association, association', x)
      BY <1>1, TablesTyped, RollbackKeeps DEF Rollback
    <3> QED
      BY <3>1, <3>2 DEF Steady, Kept
  <2> QED
    BY <2>1
<1>4. ASSUME NEW x \in S
      PROVE  Grip(x)'
  <2>1. /\ \A d \in Doc : commitLog'[d].by # x
        /\ \A d \in RecordDoc : record'[d].by # x
        /\ \A u \in Uri : recordKey'[u].by # x
        /\ \A a \in Slots : association'[a].by # x
    BY <1>1, TablesTyped, RollbackKeeps DEF Rollback
  <2>2. Light(x)'
    BY <2>1 DEF Light, RecordInserted, KeyKeepsId
  <2> QED
    BY <2>2, LightIsGrip DEF Early, Before
<1>5. ASSUME NEW x \in Tx
      PROVE  Course(tx'[x]) /\ Announced(x)' /\ Grip(x)'
  <2>1. CASE x \in S
    BY <1>4, <2>1, OverCourse
  <2>2. CASE x \notin S
    <3>1. Unmoved(x) /\ Steady(x) /\ published \subseteq published'
      BY <1>3, <2>2 DEF Unmoved, Rollback
    <3> QED
      BY <1>1, <1>2, <3>1, IntegrityOf, UnmovedCourse, SteadyGrip
  <2> QED
    BY <2>1, <2>2
<1>6. KeysInductive'
  BY PartsOfInductive DEF KeysInductive, Parts, TypeOK, TxInv, KeysInv, RestTyped
<1> QED
  BY <1>1, <1>2, <1>5, <1>6, RowsAsTheyWere DEF Integrity

\* An error of a statement.
LEMMA FailKeeps ==
    ASSUME Integrity, Parts', NEW t \in Tx, NEW r \in Replies, Fail(t, r),
           tx[t].pc \notin {"idle", "distribute"}
    PROVE  Integrity'
<1>1. tx \in [Tx -> TxState] /\ Nested
  BY IntegrityOf DEF Parts, TxInv, Integrity
<1>2. Others(t) /\ tx'[t].pc \in Replies \cup {"idle"}
  BY <1>1, EndedPc DEF Fail, Others
<1>3. Nested'
  BY <1>1, <1>2, NestedStep
<1> QED
  BY <1>2, <1>3, RollbackKeepsIntegrity DEF Fail, Others

\* A cancelled request,
LEMMA CancelKeeps ==
    ASSUME Integrity, Parts', NEW p \in Req, Cancel(p)
    PROVE  Integrity'
<1> DEFINE S == {Main(p), Ref(p)}
<1>1. Nested
  BY DEF Integrity
<1>2. S \in SUBSET Tx /\ \A x \in Tx : x[1] = p <=> x \in S
  BY DEF Tx, Main, Ref
<1>3. /\ \A x \in S : tx'[x].pc \in Replies \cup {"idle"}
      /\ \A x \in Tx \ S : tx'[x] = tx[x]
      /\ tx'[Ref(p)].pc = "idle"
  <2>1. "cancelled" \in Replies
    BY DEF Replies
  <2>2. Ended(Ref(p), "cancelled").pc = "idle"
    BY DEF Ended, Ref, Fresh
  <2>3. Ref(p) \in S
    OBVIOUS
  <2> QED
    BY <1>2, <2>1, <2>2, <2>3, EndedPc DEF Cancel, Over
<1>4. Nested'
  <2>1. ASSUME NEW q \in Req, q # p
        PROVE  Ref(q) \in Tx \ S /\ Main(q) \in Tx \ S
    BY <2>1 DEF Tx, Main, Ref
  <2> QED
    BY <1>1, <1>3, <2>1 DEF Nested
<1> QED
  BY <1>2, <1>3, <1>4, RollbackKeepsIntegrity DEF Cancel

\* and a crash, after which no request is in flight.
LEMMA CrashKeeps ==
    ASSUME Integrity, Parts', Crash
    PROVE  Integrity'
<1>1. Nested
  BY DEF Integrity
<1>2. ASSUME NEW p \in Req
      PROVE  /\ tx'[Main(p)].pc \in Replies \cup {"new"}
             /\ tx'[Ref(p)].pc = "idle"
  <2>1. /\ Main(p) \in Tx /\ Main(p)[1] = p /\ Main(p)[2] = "main"
        /\ Ref(p) \in Tx /\ Ref(p)[1] = p /\ Ref(p)[2] = "ref"
    BY DEF Tx, Main, Ref
  <2>2. CASE InFlight(p)
    <3>1. /\ tx'[Main(p)] = Ended(Main(p), "crashed")
          /\ tx'[Ref(p)] = Ended(Ref(p), "crashed")
      BY <2>1, <2>2 DEF Crash, Over
    <3> QED
      BY <2>1, <3>1 DEF Ended, Fresh, Replies
  <2>3. CASE ~InFlight(p)
    <3>1. tx'[Main(p)] = tx[Main(p)] /\ tx'[Ref(p)] = tx[Ref(p)]
      BY <2>1, <2>3 DEF Crash, Over
    <3> QED
      BY <1>1, <2>3, <3>1 DEF Nested, InFlight, Replies
  <2> QED
    BY <2>2, <2>3
<1>3. \A x \in Tx : \E p \in Req : x \in {Main(p), Ref(p)}
  BY DEF Tx, Main, Ref
<1>4. Nested'
  BY <1>2 DEF Nested
<1> QED
  BY <1>2, <1>3, <1>4, RollbackKeepsIntegrity DEF Crash

-----------------------------------------------------------------------------
(* What an operation makes of the cells of a table.                        *)

\* A row is written.
LEMMA WriteCells ==
    ASSUME NEW K, NEW V, NEW T \in [K -> CellOf(V, Tx)], NEW k \in K, NEW t, NEW v,
           NEW U, U = Write(T, k, t, v)
    PROVE  \A j \in K :
              /\ U[j].row = T[j].row /\ U[j].share = T[j].share /\ U[j].excl = T[j].excl
              /\ j # k => U[j].by = T[j].by /\ U[j].dirty = T[j].dirty
              /\ j = k => U[j].by = t /\ U[j].dirty = v
  BY DEF Write, CellOf

\* A row is deleted.
LEMMA RemoveCells ==
    ASSUME NEW K, NEW V, NEW T \in [K -> CellOf(V, Tx)], NEW k \in K, NEW t, NEW v,
           NEW U, U = Remove(T, k, t, v)
    PROVE  \A j \in K :
              /\ U[j].row = T[j].row /\ U[j].share = T[j].share
              /\ j # k => U[j].by = T[j].by /\ U[j].dirty = T[j].dirty
                          /\ U[j].excl = T[j].excl
              /\ j = k => U[j].by = t /\ U[j].dirty = v /\ U[j].excl = t
  BY DEF Remove, CellOf

\* A row is locked for a foreign key.
LEMMA ShareCells ==
    ASSUME NEW K, NEW V, NEW T \in [K -> CellOf(V, Tx)], NEW k \in K, NEW t,
           NEW U, U = Share(T, k, t)
    PROVE  \A j \in K :
              /\ U[j].row = T[j].row /\ U[j].dirty = T[j].dirty /\ U[j].by = T[j].by
              /\ U[j].excl = T[j].excl
              /\ j # k => U[j].share = T[j].share
              /\ j = k => U[j].share = T[j].share \cup {t}
  BY DEF Share, CellOf

\* A row is locked for update.
LEMMA LockCells ==
    ASSUME NEW K, NEW V, NEW T \in [K -> CellOf(V, Tx)], NEW k \in K, NEW t,
           NEW U, U = ForUpdate(T, k, t)
    PROVE  \A j \in K :
              /\ U[j].row = T[j].row /\ U[j].dirty = T[j].dirty /\ U[j].by = T[j].by
              /\ U[j].share = T[j].share
              /\ U[j].excl = IF j = k THEN t ELSE T[j].excl
  BY DEF ForUpdate, CellOf

-----------------------------------------------------------------------------
(* The statements of a creation and of an association.                     *)

\* A commit that is inserted is there for the transaction that inserts it.
LEMMA InsertCommitKeeps ==
    ASSUME Integrity, Parts', NEW t \in Tx, InsertCommit(t)
    PROVE  Integrity'
<1> DEFINE d == tx[t].doc
           pc == IF d \in AssocDoc THEN "find_target" ELSE "insert_record"
<1>1. /\ Parts /\ TxInv /\ Grip(t) /\ Course(tx[t]) /\ tx[t].pc = "insert_commit"
      /\ Blockers(t) = {} /\ Goto(t, pc)
      /\ UNCHANGED <<record, recordKey, association, drawn, published>>
      /\ commitLog' = IF commitLog[d].row = "none"
                      THEN Write(commitLog, d, t, "kept") ELSE commitLog
  BY IntegrityOf DEF Parts, InsertCommit, At
<1>2. Onward(t, pc)
  BY <1>1, GotoOnward
<1>3. /\ tx[t].kind \in {"create", "associate"}
      /\ tx[t].kind = "create" => d \in RecordDoc /\ tx[t].uri = UriOf(d) /\ d \notin AssocDoc
      /\ tx[t].kind = "associate" => d \in AssocDoc /\ tx[t].uri = Target[d]
      /\ d \in Doc
  BY <1>1, DocumentKeys DEF Course, Kinded, Written
<1>4. Writer(commitLog, d, t) = {}
  BY <1>1 DEF Blockers
<1>5. SameRows(commitLog, commitLog') /\ \A x \in Tx \ {t} : Kept(commitLog, commitLog', x)
  <2>1. CASE commitLog[d].row = "none"
    BY <1>1, <1>3, <1>4, <2>1, WriteKeeps, TablesTyped
  <2>2. CASE commitLog[d].row # "none"
    BY <1>1, <2>2, NothingKeeps
  <2> QED
    BY <2>1, <2>2
<1>6. NoRowChanges /\ \A x \in Tx \ {t} : Steady(x)
  BY <1>1, <1>5, NothingKeeps DEF NoRowChanges, Steady, Kept
<1>7. /\ \A j \in Doc : commitLog'[j].by = t => commitLog'[j].dirty # "none"
      /\ Sees(commitLog', d, t) # "none"
  <2>1. \A j \in Doc : commitLog[j].by = t => commitLog[j].dirty # "none"
    BY <1>1, GripIsLight DEF Early, Before, Light
  <2>2. CASE commitLog[d].row = "none"
    <3>1. commitLog' = Write(commitLog, d, t, "kept")
      BY <1>1, <2>2
    <3>2. \A j \in Doc :
              /\ j # d => commitLog'[j].by = commitLog[j].by
                          /\ commitLog'[j].dirty = commitLog[j].dirty
              /\ j = d => commitLog'[j].by = t /\ commitLog'[j].dirty = "kept"
      BY <1>1, <1>3, <3>1, WriteCells, TablesTyped
    <3> QED
      BY <1>3, <2>1, <3>2 DEF Sees
  <2>3. CASE commitLog[d].row # "none"
    BY <1>1, <1>3, <2>1, <2>3 DEF Sees
  <2> QED
    BY <2>2, <2>3
<1>8. Grip(t)'
  <2>1. Light(t)'
    <3>1. Light(t)
      BY <1>1, GripIsLight DEF Early, Before
    <3>2. \A j \in RecordDoc : record[j].by # t
      BY <1>1, <3>1 DEF Light, RecordInserted, Listed, Pointed
    <3> QED
      BY <1>1, <1>7, <3>1, <3>2 DEF Light, RecordInserted, KeyKeepsId
  <2>2. CASE tx[t].kind = "create"
    BY <1>2, <1>3, <2>1, <2>2, LightIsGrip DEF Onward, Early, Before
  <2>3. CASE tx[t].kind = "associate"
    <3>1. tx'[t].pc = "find_target" /\ tx'[t].doc = d /\ tx'[t].kind = "associate"
      BY <1>2, <1>3, <2>3 DEF Onward
    <3>2. CommitHeld(t)'
      BY <1>7, <3>1 DEF CommitHeld, Attaching, Deleting, Sees
    <3>3. RecordInserted(t)' /\ RecordDeleted(t)' /\ KeyKeepsId(t)'
      BY <2>1, <3>1 DEF Light, RecordDeleted
    <3>4. KeyPointed(t)' /\ KeyDeleted(t)' /\ Attached1(t)' /\ Detached(t)'
      BY <2>1, <3>1 DEF Light, KeyPointed, KeyDeleted, Attached1, Detached
    <3> QED
      BY <3>2, <3>3, <3>4 DEF Grip
  <2> QED
    BY <1>3, <2>2, <2>3
<1>9. Course(tx'[t]) /\ Announced(t)'
  BY <1>2, <1>3 DEF Onward, Course, Kinded, Written, Replaced, Announced, Creating, Listed,
     Pointed, Attaching, Deleting
<1> QED
  BY <1>1, <1>2, <1>6, <1>8, <1>9, MoveStep DEF Onward

\* A record that is inserted keeps the commit it references from being deleted.
LEMMA InsertRecordKeeps ==
    ASSUME Integrity, Parts', NEW t \in Tx, InsertRecord(t)
    PROVE  Integrity'
<1> DEFINE d == tx[t].doc
<1>1. /\ Parts /\ TxInv /\ Grip(t) /\ Light(t) /\ Course(tx[t])
      /\ tx[t].pc = "insert_record" /\ Blockers(t) = {}
  BY IntegrityOf, GripIsLight DEF Parts, InsertRecord, At, Early, Before
<1>2. tx[t].kind = "create" /\ d \in RecordDoc /\ tx[t].uri = UriOf(d) /\ d \in Doc
  BY <1>1, DocumentKeys DEF Course, Kinded, Written, Creating
<1>3. ASSUME Goto(t, "lock_key")
      PROVE  Onward(t, "lock_key") /\ Course(tx'[t]) /\ Announced(t)'
  <2>1. Onward(t, "lock_key")
    BY <1>1, <1>3, GotoOnward
  <2>2. Course(tx'[t]) /\ Announced(t)'
    BY <1>2, <2>1 DEF Onward, Course, Kinded, Written, Replaced, Announced, Creating, Listed,
       Pointed, Attaching, Deleting
  <2> QED
    BY <2>1, <2>2
<1>4. CASE Fail(t, "error")
  BY <1>1, <1>4, FailKeeps DEF Replies
<1>5. CASE Goto(t, "lock_key") /\ UNCHANGED <<tables, drawn, published>>
  <2>1. Grip(t)'
    BY <1>1, <1>3, <1>5, EarlyStep DEF Onward, Early, Before
  <2> QED
    BY <1>1, <1>3, <1>5, <2>1, MoveStep, TablesUntouched DEF Onward
<1>6. CASE /\ Sees(commitLog, d, t) # "none"
           /\ record' = Write(record, d, t, TRUE)
           /\ commitLog' = Share(commitLog, d, t)
           /\ Goto(t, "lock_key")
           /\ UNCHANGED <<recordKey, association, drawn, published>>
  <2>1. Writer(record, d, t) = {} /\ Remover(commitLog, d, t) = {}
    BY <1>1 DEF Blockers
  <2>2. NoRowChanges /\ \A x \in Tx \ {t} : Steady(x)
    <3>1. SameRows(record, record') /\ \A x \in Tx \ {t} : Kept(record, record', x)
      BY <1>1, <1>2, <1>6, <2>1, WriteKeeps, TablesTyped
    <3>2. SameRows(commitLog, commitLog')
          /\ \A x \in Tx \ {t} : Kept(commitLog, commitLog', x)
      BY <1>1, <1>2, <1>6, <2>1, ShareKeeps, TablesTyped
    <3> QED
      BY <1>6, <3>1, <3>2, NothingKeeps DEF NoRowChanges, Steady, Kept
  <2>3. \A j \in RecordDoc :
            /\ j # d => record'[j].by = record[j].by /\ record'[j].dirty = record[j].dirty
            /\ j = d => record'[j].by = t /\ record'[j].dirty
    <3>1. record \in [RecordDoc -> CellOf(BOOLEAN, Tx)] /\ record' = Write(record, d, t, TRUE)
      BY <1>1, <1>6, RecordTyped
    <3> QED
      BY <1>2, <3>1 DEF Write, CellOf
  <2>4. \A j \in Doc :
            /\ commitLog'[j].row = commitLog[j].row /\ commitLog'[j].by = commitLog[j].by
            /\ commitLog'[j].dirty = commitLog[j].dirty
            /\ j = d => t \in commitLog'[j].share
    <3>1. /\ commitLog \in [Doc -> CellOf({"none", "kept", "gc"}, Tx)]
          /\ commitLog' = Share(commitLog, d, t)
      BY <1>1, <1>6, LogTyped
    <3> QED
      BY <1>2, <3>1, ShareCells
  <2>5. tx'[t].kind = "create" /\ tx'[t].doc = d /\ tx'[t].pc = "lock_key"
    BY <1>2, <1>3, <1>6 DEF Onward
  <2>6. \A j \in RecordDoc : record[j].by # t
    BY <1>1 DEF Light, RecordInserted, Listed, Pointed
  <2>7. RecordInserted(t)'
    <3>1. Sees(commitLog', d, t) # "none" /\ t \in commitLog'[d].share
      BY <1>2, <1>6, <2>4 DEF Sees
    <3>2. \A j \in RecordDoc : record'[j].by = t => j = d
      BY <2>3, <2>6
    <3> QED
      BY <2>5, <3>1, <3>2 DEF RecordInserted, Sees, Listed
  <2>8. Light(t)'
    BY <1>1, <1>6, <2>3, <2>4, <2>6, <2>7 DEF Light, KeyKeepsId
  <2> QED
    BY <1>1, <1>3, <1>6, <2>2, <2>5, <2>8, LightIsGrip, MoveStep DEF Onward, Early, Before
<1> QED
  BY <1>4, <1>5, <1>6 DEF InsertRecord

\* The document a key names was written for its URI.
LEMMA SeenRecord ==
    ASSUME KeysInv, NEW u \in Uri, NEW t \in Tx, NEW old,
           old = Sees(recordKey, u, t).rec, old # NoDoc
    PROVE  old \in RecordDoc /\ UriOf(old) = u
  BY SeenKey DEF KeyBelongs, NoKey

\* The key is locked, or is not there yet.
LEMMA LockKeyKeeps ==
    ASSUME Integrity, Parts', NEW t \in Tx, LockKey(t)
    PROVE  Integrity'
<1> DEFINE u == tx[t].uri
           old == Sees(recordKey, u, t).rec
<1>1. /\ Parts /\ TxInv /\ KeysInv /\ Light(t) /\ Course(tx[t])
      /\ tx[t].pc = "lock_key" /\ Blockers(t) = {}
      /\ recordKey' = Locked(u, t)
      /\ tx' = [tx EXCEPT ![t].pc = "climb", ![t].old = old, ![t].path = <<u>>]
      /\ UNCHANGED <<commitLog, record, association, drawn, published>>
  BY IntegrityOf, GripIsLight DEF Parts, LockKey, At, Early
<1>2. /\ tx[t].kind = "create" /\ tx[t].doc \in RecordDoc /\ u = UriOf(tx[t].doc)
      /\ u \in Uri
  BY <1>1, DocumentKeys DEF Course, Kinded, Written, Creating, Listed
<1>3. /\ Others(t)
      /\ tx'[t].pc = "climb" /\ tx'[t].old = old
      /\ tx'[t].kind = "create" /\ tx'[t].doc = tx[t].doc /\ tx'[t].uri = u
  BY <1>1, <1>2 DEF TxInv, TxState, Others
<1>4. Course(tx'[t]) /\ Announced(t)'
  <2>1. old # NoDoc => old \in RecordDoc /\ UriOf(old) = u
    BY <1>1, <1>2, SeenRecord
  <2> HIDE DEF old
  <2> QED
    BY <1>2, <1>3, <2>1 DEF Course, Kinded, Written, Replaced, Announced, Creating, Listed,
       Pointed, Attaching, Deleting
<1>5. /\ SameRows(recordKey, recordKey') /\ \A x \in Tx \ {t} : Kept(recordKey, recordKey', x)
      /\ \A w \in Uri : /\ recordKey'[w].row = recordKey[w].row
                        /\ recordKey'[w].by = recordKey[w].by
                        /\ recordKey'[w].dirty = recordKey[w].dirty
  <2>1. CASE Present(u, t)
    <3>1. Users(recordKey, u, t) = {}
      BY <1>1, <2>1 DEF Blockers
    <3>2. recordKey' = ForUpdate(recordKey, u, t)
      BY <1>1, <2>1 DEF Locked
    <3>3. SameRows(recordKey, recordKey')
          /\ \A x \in Tx \ {t} : Kept(recordKey, recordKey', x)
      BY <1>1, <1>2, <3>1, <3>2, RemoveKeeps, KeyTyped
    <3> QED
      BY <1>1, <1>2, <3>2, <3>3, LockCells, KeyTyped
  <2>2. CASE ~Present(u, t)
    BY <1>1, <2>2, NothingKeeps DEF Locked
  <2> QED
    BY <2>1, <2>2
<1>6. NoRowChanges /\ \A x \in Tx \ {t} : Steady(x)
  BY <1>1, <1>5, NothingKeeps DEF NoRowChanges, Steady, Kept
<1>7. Light(t)'
  BY <1>1, <1>2, <1>3, <1>5, ZenonT(40) DEF Light, RecordInserted, KeyKeepsId, Listed
<1>8. Grip(t)'
  BY <1>3, <1>7, LightIsGrip DEF Early
<1> QED
  BY <1>1, <1>3, <1>4, <1>6, <1>8, MoveStep

\* Looking the parents up writes nothing.
LEMMA ClimbKeeps ==
    ASSUME Integrity, Parts', NEW t \in Tx, Climb(t)
    PROVE  Integrity'
<1>1. /\ Parts /\ TxInv /\ Light(t) /\ Course(tx[t])
      /\ tx[t].pc = "climb"
      /\ UNCHANGED <<tables, drawn, published>>
  BY IntegrityOf, GripIsLight DEF Parts, Climb, At, Early
<1>2. tx[t].kind = "create" /\ tx[t].doc \in RecordDoc
  BY <1>1 DEF Course, Kinded, Written, Creating, Listed
<1>3. /\ Others(t)
      /\ tx'[t].pc \in {"climb", "plant", "point"} /\ tx'[t].old = tx[t].old
      /\ tx'[t].kind = "create" /\ tx'[t].doc = tx[t].doc /\ tx'[t].uri = tx[t].uri
  <2>1. ASSUME NEW id, Found(t, id)
        PROVE  <1>3!1 /\ <1>3!2 /\ <1>3!3
    BY <1>1, <1>2, <2>1 DEF TxInv, TxState, Others, Found, Descend
  <2>2. ASSUME NEW up, Missing(t, up)
        PROVE  <1>3!1 /\ <1>3!2 /\ <1>3!3
    BY <1>1, <1>2, <2>2 DEF TxInv, TxState, Others, Missing
  <2> QED
    BY <2>1, <2>2 DEF Climb
<1>4. Course(tx'[t]) /\ Announced(t)'
  BY <1>1, <1>2, <1>3 DEF Course, Kinded, Written, Replaced, Announced, Creating, Listed,
     Pointed, Attaching, Deleting
<1>5. Light(t)'
  BY <1>1, <1>2, <1>3 DEF Light, RecordInserted, KeyKeepsId, Listed, tables
<1>6. Grip(t)'
  BY <1>3, <1>5, LightIsGrip DEF Early
<1> QED
  BY <1>1, <1>3, <1>4, <1>6, MoveStep, TablesUntouched

\* The id a new row gets is not the missing one.
LEMMA NewIdIsSome ==
    ASSUME NEW u \in Uri
    PROVE  NewId(u) # NoId
  BY KeysAssumption DEF NewId, NoId

\* A placeholder fills a key that is not there.
LEMMA PlantKeeps ==
    ASSUME Integrity, Parts', NEW t \in Tx, Plant(t)
    PROVE  Integrity'
<1> DEFINE u == Head(tx[t].path)
           new == Placeholder(u, tx[t].pid)
<1>1. /\ Parts /\ TxInv /\ Light(t) /\ Course(tx[t]) /\ tx[t] \in TxState
      /\ WellDirected(tx[t]) /\ tx[t].pc = "plant" /\ Blockers(t) = {}
  BY IntegrityOf, GripIsLight DEF Parts, Plant, At, Early
<1>2. tx[t].kind = "create" /\ tx[t].doc \in RecordDoc
  BY <1>1 DEF Course, Kinded, Written, Creating, Listed
<1>3. CASE Present(u, t) /\ Fail(t, "error")
  BY <1>1, <1>3, FailKeeps DEF Replies
<1>4. CASE /\ ~Present(u, t)
           /\ recordKey' = Write(recordKey, u, t, new)
           /\ tx' = [tx EXCEPT ![t].pc = Descend(Tail(tx[t].path)),
                               ![t].path = Tail(@),
                               ![t].pid = NewId(u)]
           /\ UNCHANGED <<commitLog, record, association, published>>
  <2>1. u \in Uri /\ NewId(u) # NoId
    <3>1. u \in Uri
      BY <1>1 DEF TxState, WellDirected, ChainTo
    <3> QED
      BY <3>1, NewIdIsSome
  <2>2. /\ Others(t)
        /\ tx'[t].pc \in {"plant", "point"} /\ tx'[t].old = tx[t].old
        /\ tx'[t].kind = "create" /\ tx'[t].doc = tx[t].doc /\ tx'[t].uri = tx[t].uri
    BY <1>1, <1>2, <1>4 DEF TxInv, TxState, Others, Descend
  <2>3. Course(tx'[t]) /\ Announced(t)'
    BY <1>1, <1>2, <2>2 DEF Course, Kinded, Written, Replaced, Announced, Creating, Listed,
       Pointed, Attaching, Deleting
  <2>4. NoRowChanges /\ \A x \in Tx \ {t} : Steady(x)
    <3>1. Writer(recordKey, u, t) = {}
      BY <1>1 DEF Blockers
    <3>2. SameRows(recordKey, recordKey')
          /\ \A x \in Tx \ {t} : Kept(recordKey, recordKey', x)
      BY <1>1, <1>4, <2>1, <3>1, WriteKeeps, KeyTyped
    <3> QED
      BY <1>4, <3>2, NothingKeeps DEF NoRowChanges, Steady, Kept
  <2>5. /\ \A w \in Uri :
              /\ recordKey'[w].row = recordKey[w].row
              /\ w # u => recordKey'[w].by = recordKey[w].by
                          /\ recordKey'[w].dirty = recordKey[w].dirty
              /\ w = u => recordKey'[w].by = t /\ recordKey'[w].dirty = new
    <3>1. recordKey' = Write(recordKey, u, t, new) /\ recordKey \in [Uri -> CellOf(KeyRow, Tx)]
      BY <1>1, <1>4, KeyTyped
    <3> HIDE DEF new
    <3> QED
      BY <2>1, <3>1, WriteCells
  <2>6. new.rec = NoDoc /\ new.id # NoId
    BY <2>1 DEF Placeholder
  <2>7. recordKey[u].row.id = NoId
    BY <1>1, <1>4, <2>1 DEF Present, Sees, Light
  <2>8. RecordInserted(t)'
    BY <1>1, <1>2, <1>4, <2>2 DEF Light, RecordInserted, Listed
  <2>9. Light(t)'
    <3> HIDE DEF new
    <3>1. UNCHANGED <<commitLog, record, association>>
      BY <1>4
    <3>2. KeyKeepsId(t)'
      BY <1>1, <2>5, <2>7 DEF Light, KeyKeepsId
    <3>3. \A w \in Uri : recordKey'[w].by = t =>
             recordKey'[w].dirty.rec = NoDoc /\ recordKey'[w].dirty.id # NoId
      BY <1>1, <2>5, <2>6 DEF Light
    <3> QED
      BY <1>1, <2>8, <3>1, <3>2, <3>3 DEF Light
  <2>10. Grip(t)'
    BY <2>2, <2>9, LightIsGrip DEF Early
  <2> QED
    BY <1>1, <1>4, <2>2, <2>3, <2>4, <2>10, MoveStep
<1> QED
  BY <1>3, <1>4 DEF Plant

\* A key that is pointed at a record keeps the record from being deleted.
LEMMA PointKeeps ==
    ASSUME Integrity, Parts', NEW t \in Tx, Point(t)
    PROVE  Integrity'
<1> DEFINE d == tx[t].doc
           u == tx[t].uri
           key == Sees(recordKey, u, t)
           new == PointedAt(key, t)
           pc == IF Superseded(t) # {} THEN "flag_old" ELSE "distribute"
<1>1. /\ Parts /\ TxInv /\ KeysInv /\ Light(t) /\ Course(tx[t]) /\ tx[t] \in TxState
      /\ tx[t].pc = "point" /\ Blockers(t) = {}
  BY IntegrityOf, GripIsLight DEF Parts, Point, At, Early
<1>2. /\ tx[t].kind = "create" /\ d \in RecordDoc /\ u = UriOf(d) /\ u \in Uri /\ d # NoDoc
      /\ d \in Doc
  BY <1>1, DocumentKeys DEF Course, Kinded, Written, Creating, Listed
<1>3. CASE Fail(t, "error")
  BY <1>1, <1>3, FailKeeps DEF Replies
<1>4. CASE /\ Sees(record, d, t)
           /\ recordKey' = Write(recordKey, u, t, new)
           /\ record' = Share(record, d, t)
           /\ Goto(t, pc)
           /\ UNCHANGED <<commitLog, association, published>>
  <2>1. Onward(t, pc)
    BY <1>1, <1>4, GotoOnward
  <2>2. /\ pc \in {"flag_old", "distribute"}
        /\ pc = "flag_old" => tx[t].old \notin {NoDoc, d}
    BY DEF Superseded
  <2>3. Course(tx'[t]) /\ Announced(t)'
    <3> HIDE DEF pc
    <3> QED
      BY <1>1, <1>2, <2>1, <2>2 DEF Onward, Course, Kinded, Written, Replaced, Announced,
         Creating, Listed, Pointed, Attaching, Deleting
  <2>4. NoRowChanges /\ \A x \in Tx \ {t} : Steady(x)
    <3>1. Holder(recordKey, u, t) = {} /\ Remover(record, d, t) = {}
      BY <1>1 DEF Blockers
    <3>2. Writer(recordKey, u, t) = {}
      BY <3>1 DEF Holder, Writer
    <3>3. SameRows(recordKey, recordKey')
          /\ \A x \in Tx \ {t} : Kept(recordKey, recordKey', x)
      BY <1>1, <1>2, <1>4, <3>2, WriteKeeps, KeyTyped
    <3>4. SameRows(record, record') /\ \A x \in Tx \ {t} : Kept(record, record', x)
      BY <1>1, <1>2, <1>4, <3>1, ShareKeeps, RecordTyped
    <3> QED
      BY <1>4, <3>3, <3>4, NothingKeeps DEF NoRowChanges, Steady, Kept
  <2>5. \A w \in Uri :
            /\ recordKey'[w].row = recordKey[w].row
            /\ w # u => recordKey'[w].by = recordKey[w].by
                        /\ recordKey'[w].dirty = recordKey[w].dirty
            /\ w = u => recordKey'[w].by = t /\ recordKey'[w].dirty = new
    <3>1. recordKey' = Write(recordKey, u, t, new) /\ recordKey \in [Uri -> CellOf(KeyRow, Tx)]
      BY <1>1, <1>4, KeyTyped
    <3> HIDE DEF new
    <3> QED
      BY <1>2, <3>1, WriteCells
  <2>6. /\ \A j \in RecordDoc :
              /\ record'[j].row = record[j].row /\ record'[j].by = record[j].by
              /\ record'[j].dirty = record[j].dirty
        /\ t \in record'[d].share
    <3>1. record' = Share(record, d, t) /\ record \in [RecordDoc -> CellOf(BOOLEAN, Tx)]
      BY <1>1, <1>4, RecordTyped
    <3> QED
      BY <1>2, <3>1, ShareCells
  <2>7. /\ new.rec = d /\ new.id # NoId
        /\ key.id # NoId => new.id = key.id
    <3>1. key \in KeyRow
      BY <1>1, <1>2, SeenKey
    <3>2. NewId(u) # NoId
      BY <1>2, NewIdIsSome
    <3> QED
      BY <3>1, <3>2 DEF PointedAt, KeyRow
  <2>8. recordKey[u].row.id \in {NoId, new.id}
    <3>1. CASE recordKey[u].by = t
      BY <1>1, <1>2, <2>7, <3>1 DEF Light, KeyKeepsId, Sees
    <3>2. CASE recordKey[u].by # t
      BY <2>7, <3>2 DEF Sees
    <3> QED
      BY <3>1, <3>2
  <2> HIDE DEF new, pc
  <2>9. tx'[t].kind = "create" /\ tx'[t].doc = d /\ tx'[t].uri = u
        /\ tx'[t].pc \in {"flag_old", "distribute"}
    BY <1>2, <2>1, <2>2 DEF Onward
  <2>10. CommitHeld(t)'
    BY <1>1, <1>4, <2>9 DEF Light, CommitHeld
  <2>11. RecordInserted(t)' /\ RecordDeleted(t)'
    BY <1>1, <1>2, <1>4, <2>6, <2>9 DEF Light, RecordInserted, RecordDeleted, Listed, Pointed
  <2>12. KeyPointed(t)'
    BY <1>1, <1>2, <1>4, <2>5, <2>6, <2>7, <2>9 DEF Light, KeyPointed, Pointed, Sees
  <2>13. KeyDeleted(t)' /\ KeyKeepsId(t)'
    BY <1>1, <1>2, <2>5, <2>7, <2>8, <2>9 DEF Light, KeyDeleted, KeyKeepsId
  <2>14. Attached1(t)' /\ Detached(t)'
    BY <1>1, <1>4 DEF Light, Attached1, Detached
  <2>15. Grip(t)'
    BY <2>10, <2>11, <2>12, <2>13, <2>14 DEF Grip
  <2> QED
    BY <1>1, <1>4, <2>1, <2>3, <2>4, <2>15, MoveStep DEF Onward
<1> QED
  BY <1>3, <1>4 DEF Point

\* The replaced record's commit is flagged; it stays in the log.
LEMMA FlagOldKeeps ==
    ASSUME Integrity, Parts', NEW t \in Tx, FlagOld(t)
    PROVE  Integrity'
<1> DEFINE old == tx[t].old
<1>1. /\ Parts /\ TxInv /\ Grip(t) /\ Course(tx[t])
      /\ tx[t].pc = "flag_old" /\ Blockers(t) = {}
      /\ Goto(t, "drop_old")
      /\ UNCHANGED <<record, recordKey, association, drawn, published>>
  BY IntegrityOf DEF Parts, FlagOld, At
<1>2. /\ tx[t].kind = "create" /\ old \in RecordDoc /\ old \in Doc /\ old # tx[t].doc
      /\ tx[t].doc \in Doc
  BY <1>1, DocumentKeys DEF Course, Kinded, Written, Replaced, Listed, Pointed
<1>3. Onward(t, "drop_old")
  BY <1>1, GotoOnward
<1>4. Course(tx'[t]) /\ Announced(t)'
  BY <1>1, <1>2, <1>3 DEF Onward, Course, Kinded, Written, Replaced, Announced, Creating,
     Listed, Pointed, Attaching, Deleting
<1>5. CASE commitLog[old].row # "none" /\ commitLog' = Write(commitLog, old, t, "gc")
  <2>1. Writer(commitLog, old, t) = {}
    <3>1. Holder(commitLog, old, t) = {}
      BY <1>1, <1>5 DEF Blockers
    <3> QED
      BY <3>1 DEF Holder, Writer
  <2>2. NoRowChanges /\ \A x \in Tx \ {t} : Steady(x)
    <3>1. SameRows(commitLog, commitLog')
          /\ \A x \in Tx \ {t} : Kept(commitLog, commitLog', x)
      BY <1>1, <1>2, <1>5, <2>1, WriteKeeps, LogTyped
    <3> QED
      BY <1>1, <3>1, NothingKeeps DEF NoRowChanges, Steady, Kept
  <2>3. \A j \in Doc :
            /\ commitLog'[j].row = commitLog[j].row /\ commitLog'[j].share = commitLog[j].share
            /\ j # old => commitLog'[j].by = commitLog[j].by
                          /\ commitLog'[j].dirty = commitLog[j].dirty
            /\ j = old => commitLog'[j].by = t /\ commitLog'[j].dirty = "gc"
    BY <1>1, <1>2, <1>5, WriteCells, LogTyped
  <2>4. tx'[t].kind = "create" /\ tx'[t].doc = tx[t].doc /\ tx'[t].uri = tx[t].uri
        /\ tx'[t].pc = "drop_old"
    BY <1>2, <1>3 DEF Onward
  <2>5. CommitHeld(t)'
    BY <1>1, <1>2, <2>3, <2>4 DEF Grip, CommitHeld
  <2>6. RecordInserted(t)'
    BY <1>1, <1>2, <2>3, <2>4 DEF Grip, RecordInserted, Sees, Listed, Pointed
  <2>7. RecordDeleted(t)' /\ KeyPointed(t)'
    BY <1>1, <1>2, <2>4 DEF Grip, RecordDeleted, KeyPointed, Pointed, Sees
  <2>8. KeyDeleted(t)' /\ KeyKeepsId(t)' /\ Attached1(t)' /\ Detached(t)'
    BY <1>1, <1>2, <2>4 DEF Grip, KeyDeleted, KeyKeepsId, Attached1, Detached
  <2>9. Grip(t)'
    BY <2>5, <2>6, <2>7, <2>8 DEF Grip
  <2> QED
    BY <1>1, <1>3, <1>4, <2>2, <2>9, MoveStep DEF Onward
<1>6. CASE UNCHANGED commitLog
  <2>1. UNCHANGED tables
    BY <1>1, <1>6 DEF tables
  <2>2. tx'[t].kind = "create" /\ tx'[t].doc = tx[t].doc /\ tx'[t].uri = tx[t].uri
        /\ tx'[t].pc = "drop_old"
    BY <1>2, <1>3 DEF Onward
  <2>3. CommitHeld(t)' /\ RecordInserted(t)' /\ RecordDeleted(t)' /\ KeyPointed(t)'
    BY <1>1, <1>2, <1>6, <2>2
    DEF Grip, CommitHeld, RecordInserted, RecordDeleted, KeyPointed, Sees, Listed, Pointed
  <2>4. KeyDeleted(t)' /\ KeyKeepsId(t)' /\ Attached1(t)' /\ Detached(t)'
    BY <1>1, <1>2, <2>2 DEF Grip, KeyDeleted, KeyKeepsId, Attached1, Detached
  <2>5. Grip(t)'
    BY <2>3, <2>4 DEF Grip
  <2> QED
    BY <1>1, <1>3, <1>4, <2>1, <2>5, MoveStep, TablesUntouched DEF Onward
<1> QED
  BY <1>5, <1>6 DEF FlagOld

\* The replaced record is deleted while nobody else uses its row.
LEMMA DropOldKeeps ==
    ASSUME Integrity, Parts', NEW t \in Tx, DropOld(t)
    PROVE  Integrity'
<1> DEFINE old == tx[t].old
<1>1. /\ Parts /\ TxInv /\ Grip(t) /\ Course(tx[t])
      /\ tx[t].pc = "drop_old" /\ Blockers(t) = {}
      /\ Goto(t, "distribute")
      /\ UNCHANGED <<commitLog, recordKey, association, drawn, published>>
  BY IntegrityOf DEF Parts, DropOld, At
<1>2. /\ tx[t].kind = "create" /\ old \in RecordDoc /\ old # tx[t].doc
      /\ tx[t].doc \in RecordDoc
  BY <1>1 DEF Course, Kinded, Written, Replaced, Listed, Pointed
<1>3. Onward(t, "distribute")
  BY <1>1, GotoOnward
<1>4. Course(tx'[t]) /\ Announced(t)'
  BY <1>1, <1>2, <1>3 DEF Onward, Course, Kinded, Written, Replaced, Announced, Creating,
     Listed, Pointed, Attaching, Deleting
<1>5. /\ tx'[t].kind = "create" /\ tx'[t].doc = tx[t].doc /\ tx'[t].uri = tx[t].uri
      /\ tx'[t].old = old /\ tx'[t].pc = "distribute"
  BY <1>2, <1>3 DEF Onward
<1>6. CommitHeld(t)'
  BY <1>1, <1>2, <1>5 DEF Grip, CommitHeld
<1>7. KeyDeleted(t)' /\ KeyKeepsId(t)' /\ Attached1(t)' /\ Detached(t)'
  BY <1>1, <1>2, <1>5 DEF Grip, KeyDeleted, KeyKeepsId, Attached1, Detached
<1>8. CASE record[old].row /\ record' = Remove(record, old, t, FALSE)
  <2>1. Users(record, old, t) = {} /\ NoTx \notin Tx
    BY <1>1, <1>8, KeysAssumption DEF Blockers
  <2>2. NoRowChanges /\ \A x \in Tx \ {t} : Steady(x)
    <3>1. SameRows(record, record') /\ \A x \in Tx \ {t} : Kept(record, record', x)
      BY <1>1, <1>2, <1>8, <2>1, RemoveKeeps, RecordTyped
    <3> QED
      BY <1>1, <3>1, NothingKeeps DEF NoRowChanges, Steady, Kept
  <2>3. \A j \in RecordDoc :
            /\ record'[j].row = record[j].row /\ record'[j].share = record[j].share
            /\ j # old => record'[j].by = record[j].by /\ record'[j].dirty = record[j].dirty
                          /\ record'[j].excl = record[j].excl
            /\ j = old => record'[j].by = t /\ ~record'[j].dirty /\ record'[j].excl = t
    <3>1. record \in [RecordDoc -> CellOf(BOOLEAN, Tx)]
          /\ record' = Remove(record, old, t, FALSE)
      BY <1>1, <1>8, RecordTyped
    <3> QED
      BY <1>2, <3>1 DEF Remove, CellOf
  <2>4. record[old].share \subseteq {t}
    <3>1. record[old].share \subseteq Tx
      BY <1>1, <1>2, RecordTyped DEF CellOf
    <3> QED
      BY <2>1, <3>1 DEF Users
  <2>5. RecordInserted(t)'
    BY <1>1, <1>2, <1>5, <2>3 DEF Grip, RecordInserted, Sees, Listed, Pointed
  <2>6. RecordDeleted(t)'
    <3>1. \A j \in RecordDoc : record[j].by = t => record[j].dirty
      BY <1>1, <1>2 DEF Grip, RecordDeleted
    <3>2. \A j \in RecordDoc : (record'[j].by = t /\ ~record'[j].dirty) => j = old
      BY <2>3, <3>1
    <3>3. record'[old].row /\ Sole(record', old, t)
      BY <1>2, <1>8, <2>3, <2>4 DEF Sole
    <3> QED
      BY <1>2, <1>5, <3>2, <3>3 DEF RecordDeleted
  <2>7. KeyPointed(t)'
    BY <1>1, <1>2, <1>5, <2>3 DEF Grip, KeyPointed, Sees, Pointed
  <2>8. Grip(t)'
    BY <1>6, <1>7, <2>5, <2>6, <2>7 DEF Grip
  <2> QED
    BY <1>1, <1>3, <1>4, <2>2, <2>8, MoveStep DEF Onward
<1>9. CASE UNCHANGED record
  <2>1. UNCHANGED tables
    BY <1>1, <1>9 DEF tables
  <2>2. RecordInserted(t)' /\ RecordDeleted(t)' /\ KeyPointed(t)'
    BY <1>1, <1>2, <1>5, <1>9
    DEF Grip, RecordInserted, RecordDeleted, KeyPointed, Sees, Listed, Pointed
  <2>3. Grip(t)'
    BY <1>6, <1>7, <2>2 DEF Grip
  <2> QED
    BY <1>1, <1>3, <1>4, <2>1, <2>3, MoveStep, TablesUntouched DEF Onward
<1> QED
  BY <1>8, <1>9 DEF DropOld

\* The event goes out; the commit is next.
LEMMA PublishKeeps ==
    ASSUME Integrity, Parts', NEW t \in Tx, Publish(t)
    PROVE  Integrity'
<1>1. /\ Parts /\ TxInv /\ Grip(t) /\ Course(tx[t]) /\ tx[t].pc = "publish"
  BY IntegrityOf DEF Parts, Publish, At
<1>2. CASE Fail(t, "unpublished")
  BY <1>1, <1>2, FailKeeps DEF Replies
<1>3. CASE /\ published' = published \cup {tx[t].doc}
           /\ Goto(t, "commit")
           /\ UNCHANGED <<tables, drawn>>
  <2>1. Onward(t, "commit")
    BY <1>1, <1>3, GotoOnward
  <2>2. tx[t].kind \in {"create", "associate"}
    BY <1>1 DEF Course, Kinded
  <2>3. Course(tx'[t]) /\ Announced(t)'
    BY <1>1, <1>3, <2>1, <2>2 DEF Onward, Course, Kinded, Written, Replaced, Announced,
       Creating, Listed, Pointed, Attaching, Deleting
  <2>4. CommitHeld(t)' /\ RecordInserted(t)' /\ RecordDeleted(t)' /\ KeyPointed(t)'
    BY <1>1, <1>3, <2>1, <2>2 DEF Onward, tables, Grip, CommitHeld, RecordInserted,
       RecordDeleted, KeyPointed, Sees, Listed, Pointed, Attaching
  <2>5. KeyDeleted(t)' /\ KeyKeepsId(t)' /\ Attached1(t)' /\ Detached(t)'
    BY <1>1, <1>3, <2>1, <2>2 DEF Onward, tables, Grip, KeyDeleted, KeyKeepsId, Attached1,
       Detached
  <2>6. Grip(t)'
    BY <2>4, <2>5 DEF Grip
  <2> QED
    BY <1>1, <1>3, <2>1, <2>3, <2>6, MoveStep, TablesUntouched DEF Onward
<1> QED
  BY <1>2, <1>3 DEF Publish

\* The loop over memberOf starts a transaction of its own, or ends.
LEMMA DistributeKeeps ==
    ASSUME Integrity, Parts', NEW t \in Tx, Distribute(t)
    PROVE  Integrity'
<1>1. /\ Parts /\ TxInv /\ Grip(t) /\ Course(tx[t]) /\ WellDirected(tx[t]) /\ Nested
      /\ RowsResolve /\ RowsHang
      /\ tx[t].pc = "distribute" /\ UNCHANGED <<tables, drawn, published>>
  BY IntegrityOf DEF Parts, Distribute, At, Integrity
<1>2. CASE /\ t[2] = "main" => tx[Ref(t[1])].pc = "idle"
           /\ Goto(t, "publish")
  <2>1. Onward(t, "publish")
    BY <1>1, <1>2, GotoOnward
  <2>2. tx[t].kind = "create"
    BY <1>1 DEF Course, Kinded
  <2>3. Course(tx'[t]) /\ Announced(t)'
    BY <1>1, <2>1, <2>2 DEF Onward, Course, Kinded, Written, Replaced, Announced,
       Creating, Listed, Pointed, Attaching, Deleting
  <2>4. CommitHeld(t)' /\ RecordInserted(t)' /\ RecordDeleted(t)' /\ KeyPointed(t)'
    BY <1>1, <2>1, <2>2 DEF Onward, tables, Grip, CommitHeld, RecordInserted,
       RecordDeleted, KeyPointed, Sees, Listed, Pointed
  <2>5. KeyDeleted(t)' /\ KeyKeepsId(t)' /\ Attached1(t)' /\ Detached(t)'
    BY <1>1, <2>1, <2>2 DEF Onward, tables, Grip, KeyDeleted, KeyKeepsId, Attached1,
       Detached
  <2>6. Grip(t)'
    BY <2>4, <2>5 DEF Grip
  <2> QED
    BY <1>1, <1>2, <2>1, <2>3, <2>6, MoveStep, TablesUntouched DEF Onward
<1>3. ASSUME NEW c \in tx[t].todo,
             tx[Ref(t[1])].pc = "idle",
             tx' = [tx EXCEPT
                  ![t].todo = Remaining(@, c),
                  ![Ref(t[1])] = [Fresh("insert_commit") EXCEPT
                      !.doc = [of |-> tx[t].doc, in |-> c, by |-> t[1]],
                      !.uri = RefUri(t, c)]]
      PROVE  Integrity'
  <2> DEFINE r == Ref(t[1])
             d == [of |-> tx[t].doc, in |-> c, by |-> t[1]]
  <2>1. /\ t[1] \in Req /\ r \in Tx /\ r # t /\ t = Main(t[1])
    <3>1. t[1] \in Req /\ t \in {Main(t[1]), Ref(t[1])} /\ r \in Tx
      BY DEF Tx, Main, Ref
    <3> QED
      BY <1>1, <1>3, <3>1
  <2>2. /\ tx'[r].pc = "insert_commit" /\ tx'[r].kind = "create" /\ tx'[r].old = NoDoc
        /\ tx'[r].doc = d /\ tx'[r].uri = RefUri(t, c)
        /\ \A x \in Tx \ {r} : Unmoved(x)
    BY <1>1, <1>3, <2>1 DEF TxInv, TxState, Fresh, Unmoved
  <2>3. d \in RecordDoc /\ RefUri(t, c) = UriOf(d)
    <3>1. tx[t].doc \in UserDoc /\ c \in MemberOf[tx[t].doc]
      BY <1>1, <1>3 DEF WellDirected
    <3>2. d \in RefDoc
      BY <2>1, <3>1 DEF RefDoc
    <3>3. d \notin UserDoc
      BY <3>2, KeysAssumption
    <3> QED
      BY <3>2, <3>3 DEF RecordDoc, RefUri, UriOf
  <2> HIDE DEF d
  <2>4. Course(tx'[r]) /\ Announced(r)'
    BY <2>2, <2>3 DEF Course, Kinded, Written, Replaced, Announced, Creating, Listed, Pointed,
       Attaching, Deleting
  <2>5. Grip(r)'
    <3>1. Grip(r)
      BY <2>1, IntegrityOf
    <3> QED
      BY <1>1, <1>3, <2>1, <2>2, <3>1, EarlyStep DEF Early, Before
  <2>6. NoRowChanges /\ \A x \in Tx : Steady(x)
    BY <1>1, TablesUntouched
  <2>7. ASSUME NEW x \in Tx
        PROVE  Course(tx'[x]) /\ Announced(x)' /\ Grip(x)'
    <3>1. CASE x = r
      BY <2>4, <2>5, <3>1
    <3>2. CASE x # r
      BY <1>1, <2>2, <2>6, <3>2, IntegrityOf, UnmovedCourse, SteadyGrip
    <3> QED
      BY <3>1, <3>2
  <2>8. Nested'
    <3>1. ASSUME NEW p \in Req, tx'[Ref(p)].pc # "idle"
          PROVE  tx'[Main(p)].pc = "distribute"
      <4>1. Main(p) \in Tx /\ Ref(p) \in Tx /\ Main(p) # r
        BY DEF Tx, Main, Ref
      <4>2. tx'[Main(p)].pc = tx[Main(p)].pc
        BY <2>2, <4>1 DEF Unmoved
      <4>3. CASE Ref(p) = r
        BY <1>1, <2>1, <4>2, <4>3 DEF Main, Ref
      <4>4. CASE Ref(p) # r
        BY <1>1, <2>2, <3>1, <4>1, <4>2, <4>4 DEF Nested, Unmoved
      <4> QED
        BY <4>3, <4>4
    <3> QED
      BY <3>1 DEF Nested
  <2>9. KeysInductive'
    BY PartsOfInductive DEF KeysInductive, Parts, TypeOK, TxInv, KeysInv, RestTyped
  <2> QED
    BY <1>1, <2>6, <2>7, <2>8, <2>9, RowsAsTheyWere DEF Integrity
<1> QED
  BY <1>1, <1>2, <1>3 DEF Distribute

\* An association finds the key of its target.
LEMMA FindTargetKeeps ==
    ASSUME Integrity, Parts', NEW t \in Tx, FindTarget(t)
    PROVE  Integrity'
<1> DEFINE u == tx[t].uri
           id == Sees(recordKey, u, t).id
<1>1. /\ Parts /\ TxInv /\ Grip(t) /\ Course(tx[t]) /\ tx[t].pc = "find_target"
  BY IntegrityOf DEF Parts, FindTarget, At
<1>2. CASE Fail(t, "error")
  BY <1>1, <1>2, FailKeeps DEF Replies
<1>3. CASE /\ Present(u, t)
           /\ tx' = [tx EXCEPT ![t].pc = "insert_association", ![t].pid = id]
           /\ UNCHANGED <<tables, drawn, published>>
  <2>1. /\ Others(t)
        /\ tx'[t].pc = "insert_association" /\ tx'[t].pid = id
        /\ tx'[t].kind = tx[t].kind /\ tx'[t].doc = tx[t].doc /\ tx'[t].uri = u
    BY <1>1, <1>3 DEF TxInv, TxState, Others
  <2>2. tx[t].kind = "associate" /\ id # NoId
    BY <1>1, <1>3 DEF Course, Kinded, Present
  <2>3. Course(tx'[t]) /\ Announced(t)'
    <3> HIDE DEF id
    <3> QED
      BY <1>1, <2>1, <2>2 DEF Course, Kinded, Written, Replaced, Announced, Creating, Listed,
         Pointed, Attaching, Deleting
  <2>4. CommitHeld(t)' /\ RecordInserted(t)' /\ RecordDeleted(t)' /\ KeyPointed(t)'
    BY <1>1, <1>3, <2>1, <2>2 DEF tables, Grip, CommitHeld, RecordInserted, RecordDeleted,
       KeyPointed, Sees, Attaching
  <2>5. KeyDeleted(t)' /\ KeyKeepsId(t)' /\ Attached1(t)' /\ Detached(t)'
    BY <1>1, <1>3, <2>1, <2>2 DEF tables, Grip, KeyDeleted, KeyKeepsId, Attached1, Detached
  <2>6. Grip(t)'
    BY <2>4, <2>5 DEF Grip
  <2> QED
    BY <1>1, <1>3, <2>1, <2>3, <2>6, MoveStep, TablesUntouched
<1> QED
  BY <1>2, <1>3 DEF FindTarget

\* An association that is inserted keeps the key it targets from being deleted.
LEMMA InsertAssociationKeeps ==
    ASSUME Integrity, Parts', NEW t \in Tx, InsertAssociation(t)
    PROVE  Integrity'
<1> DEFINE d == tx[t].doc
           u == tx[t].uri
           slot == Slot[d]
           new == [doc |-> d, target |-> tx[t].pid]
<1>1. /\ Parts /\ TxInv /\ Grip(t) /\ Course(tx[t]) /\ tx[t].pc = "insert_association"
      /\ Blockers(t) = {}
  BY IntegrityOf DEF Parts, InsertAssociation, At
<1>2. CASE Fail(t, "error")
  BY <1>1, <1>2, FailKeeps DEF Replies
<1>3. CASE /\ MayAttach(t)
           /\ association' = Write(association, slot, t, new)
           /\ recordKey' = Share(recordKey, u, t)
           /\ Goto(t, "publish")
           /\ UNCHANGED <<commitLog, record, drawn, published>>
  <2>1. Onward(t, "publish")
    BY <1>1, <1>3, GotoOnward
  <2>2. /\ tx[t].kind = "associate" /\ d \in AssocDoc /\ d # NoDoc /\ slot \in Slots
        /\ u \in Uri
    BY <1>1, DocumentKeys DEF Course, Kinded, Written, Attaching
  <2>3. Course(tx'[t]) /\ Announced(t)'
    BY <1>1, <2>1, <2>2 DEF Onward, Course, Kinded, Written, Replaced, Announced, Creating,
       Listed, Pointed, Attaching, Deleting
  <2>4. NoRowChanges /\ \A x \in Tx \ {t} : Steady(x)
    <3>1. Writer(association, slot, t) = {} /\ Remover(recordKey, u, t) = {}
      BY <1>1 DEF Blockers
    <3>2. SameRows(association, association')
          /\ \A x \in Tx \ {t} : Kept(association, association', x)
      <4> HIDE DEF new
      <4> QED
        BY <1>1, <1>3, <2>2, <3>1, WriteKeeps, AssociationTyped
    <3>3. SameRows(recordKey, recordKey')
          /\ \A x \in Tx \ {t} : Kept(recordKey, recordKey', x)
      BY <1>1, <1>3, <2>2, <3>1, ShareKeeps, KeyTyped
    <3> QED
      BY <1>3, <3>2, <3>3, NothingKeeps DEF NoRowChanges, Steady, Kept
  <2>5. \A a \in Slots :
            /\ association'[a].row = association[a].row
            /\ a # slot => association'[a].by = association[a].by
                           /\ association'[a].dirty = association[a].dirty
            /\ a = slot => association'[a].by = t /\ association'[a].dirty = new
    <3>1. /\ association \in [Slots -> CellOf(AssociationRow, Tx)]
          /\ association' = Write(association, slot, t, new)
      BY <1>1, <1>3, AssociationTyped
    <3> HIDE DEF new
    <3> QED
      BY <2>2, <3>1, WriteCells
  <2>6. /\ \A w \in Uri :
              /\ recordKey'[w].row = recordKey[w].row /\ recordKey'[w].by = recordKey[w].by
              /\ recordKey'[w].dirty = recordKey[w].dirty
        /\ t \in recordKey'[u].share
    <3>1. recordKey' = Share(recordKey, u, t) /\ recordKey \in [Uri -> CellOf(KeyRow, Tx)]
      BY <1>1, <1>3, KeyTyped
    <3> QED
      BY <2>2, <3>1, ShareCells
  <2>7. tx'[t].kind = "associate" /\ tx'[t].doc = d /\ tx'[t].uri = u
        /\ tx'[t].pid = tx[t].pid /\ tx'[t].pc = "publish"
    BY <2>1, <2>2 DEF Onward
  <2>8. CommitHeld(t)' /\ RecordInserted(t)' /\ RecordDeleted(t)'
    BY <1>1, <1>3, <2>2, <2>7 DEF Grip, CommitHeld, RecordInserted, RecordDeleted, Sees,
       Attaching
  <2>9. KeyPointed(t)' /\ KeyDeleted(t)' /\ KeyKeepsId(t)'
    BY <1>1, <2>2, <2>6, <2>7 DEF Grip, KeyPointed, KeyDeleted, KeyKeepsId
  <2>10. \A a \in Slots : association[a].by # t
    BY <1>1, <2>2 DEF Grip, Attached1, Detached
  <2>11. recordKey[u].row.id = tx[t].pid /\ association[slot].row = NoAssociation
    BY <1>3 DEF MayAttach
  <2>12. new # NoAssociation
    BY <2>2 DEF NoAssociation
  <2>13. Attached1(t)'
    BY <2>2, <2>5, <2>6, <2>7, <2>10, <2>11 DEF Attached1
  <2>14. Detached(t)'
    <3> HIDE DEF new
    <3> QED
      BY <2>2, <2>5, <2>10, <2>12 DEF Detached
  <2>15. Grip(t)'
    BY <2>8, <2>9, <2>13, <2>14 DEF Grip
  <2> QED
    BY <1>1, <1>3, <2>1, <2>3, <2>4, <2>15, MoveStep DEF Onward
<1> QED
  BY <1>2, <1>3 DEF InsertAssociation

-----------------------------------------------------------------------------
(* The statements of a delete.                                             *)

\* The row id of a key tells its URI, and a key that resolves has one.
LEMMA KeyRowIds ==
    ASSUME KeysInv
    PROVE  /\ \A u, w \in Uri :
                (recordKey[u].row.id = recordKey[w].row.id /\ recordKey[u].row.id # NoId) => u = w
           /\ \A u \in Uri : recordKey[u].row.rec # NoDoc => recordKey[u].row.id # NoId
  BY DEF KeysInv, KeyBelongs, NoKey

\* A commit is deleted while nobody else uses its row.
LEMMA DeleteCommitKeeps ==
    ASSUME Integrity, Parts', NEW t \in Tx, DeleteCommit(t)
    PROVE  Integrity'
<1> DEFINE d == tx[t].doc
<1>1. /\ Parts /\ TxInv /\ Grip(t) /\ Light(t) /\ Course(tx[t]) /\ tx[t].pc = "delete_commit"
      /\ Blockers(t) = {}
  BY IntegrityOf, GripIsLight DEF Parts, DeleteCommit, At, Early, Before, Reading
<1>2. CASE Reply(t, "ok")
  BY <1>1, <1>2, ReplyKeeps DEF Reading, Replies
<1>3. CASE /\ d # NoDoc /\ commitLog[d].row # "none"
           /\ commitLog' = Remove(commitLog, d, t, "none")
           /\ Goto(t, "delete_record")
           /\ UNCHANGED <<record, recordKey, association, drawn, published>>
  <2>1. Onward(t, "delete_record")
    BY <1>1, <1>3, GotoOnward
  <2>2. tx[t].kind = "delete" /\ d \in RecordDoc /\ d \in Doc
    BY <1>1, <1>3, DocumentKeys DEF Course, Kinded, Written
  <2>3. Course(tx'[t]) /\ Announced(t)'
    BY <1>1, <2>1, <2>2 DEF Onward, Course, Kinded, Written, Replaced, Announced, Creating,
       Listed, Pointed, Attaching, Deleting
  <2>4. Users(commitLog, d, t) = {}
    BY <1>1, <1>3 DEF Blockers
  <2>5. NoRowChanges /\ \A x \in Tx \ {t} : Steady(x)
    <3>1. SameRows(commitLog, commitLog')
          /\ \A x \in Tx \ {t} : Kept(commitLog, commitLog', x)
      BY <1>1, <1>3, <2>2, <2>4, RemoveKeeps, LogTyped
    <3> QED
      BY <1>3, <3>1, NothingKeeps DEF NoRowChanges, Steady, Kept
  <2>6. \A j \in Doc :
            /\ commitLog'[j].row = commitLog[j].row /\ commitLog'[j].share = commitLog[j].share
            /\ j # d => commitLog'[j].by = commitLog[j].by
                        /\ commitLog'[j].dirty = commitLog[j].dirty
            /\ j = d => commitLog'[j].by = t /\ commitLog'[j].dirty = "none"
                        /\ commitLog'[j].excl = t
    <3>1. /\ commitLog \in [Doc -> CellOf({"none", "kept", "gc"}, Tx)]
          /\ commitLog' = Remove(commitLog, d, t, "none")
      BY <1>1, <1>3, LogTyped
    <3> QED
      BY <2>2, <3>1, RemoveCells
  <2>7. Sole(commitLog', d, t)
    <3>1. commitLog[d].share \subseteq Tx /\ NoTx \notin Tx
      BY <1>1, <2>2, LogTyped, KeysAssumption DEF CellOf
    <3> QED
      BY <2>2, <2>4, <2>6, <3>1 DEF Users, Sole
  <2>8. tx'[t].kind = "delete" /\ tx'[t].doc = d /\ tx'[t].pc = "delete_record"
    BY <2>1, <2>2 DEF Onward
  <2>9. CommitHeld(t)'
    BY <1>1, <2>2, <2>6, <2>7, <2>8 DEF Light, CommitHeld, Deleting
  <2>10. \A j \in RecordDoc : record[j].by # t
    BY <1>1 DEF Light, RecordInserted, Listed, Pointed
  <2>11. RecordInserted(t)' /\ RecordDeleted(t)'
    BY <1>3, <2>8, <2>10 DEF RecordInserted, RecordDeleted
  <2>12. KeyPointed(t)' /\ KeyDeleted(t)' /\ KeyKeepsId(t)'
    BY <1>1, <1>3, <2>8 DEF Light, KeyPointed, KeyDeleted, KeyKeepsId
  <2>13. Attached1(t)' /\ Detached(t)'
    BY <1>1, <1>3 DEF Light, Attached1, Detached
  <2>14. Grip(t)'
    BY <2>9, <2>11, <2>12, <2>13 DEF Grip
  <2> QED
    BY <1>1, <1>3, <2>1, <2>3, <2>5, <2>14, MoveStep DEF Onward
<1> QED
  BY <1>2, <1>3 DEF DeleteCommit

\* The cascade takes the record,
LEMMA DeleteRecordKeeps ==
    ASSUME Integrity, Parts', NEW t \in Tx, DeleteRecord(t)
    PROVE  Integrity'
<1> DEFINE d == tx[t].doc
<1>1. /\ Parts /\ TxInv /\ Grip(t) /\ Course(tx[t]) /\ tx[t].pc = "delete_record"
      /\ Blockers(t) = {}
      /\ record' = IF record[d].row THEN Remove(record, d, t, FALSE) ELSE record
      /\ Goto(t, "delete_key")
      /\ UNCHANGED <<commitLog, recordKey, association, drawn, published>>
  BY IntegrityOf DEF Parts, DeleteRecord, At
<1>2. Onward(t, "delete_key")
  BY <1>1, GotoOnward
<1>3. tx[t].kind = "delete" /\ d \in RecordDoc
  BY <1>1 DEF Course, Kinded, Written, Deleting
<1>4. Course(tx'[t]) /\ Announced(t)'
  BY <1>1, <1>2, <1>3 DEF Onward, Course, Kinded, Written, Replaced, Announced, Creating,
     Listed, Pointed, Attaching, Deleting
<1>5. tx'[t].kind = "delete" /\ tx'[t].doc = d /\ tx'[t].pc = "delete_key"
  BY <1>2, <1>3 DEF Onward
<1>6. \A j \in RecordDoc : record[j].by # t
  BY <1>1, <1>3 DEF Grip, RecordInserted, RecordDeleted
<1>7. CommitHeld(t)'
  BY <1>1, <1>3, <1>5 DEF Grip, CommitHeld, Deleting
<1>8. KeyPointed(t)' /\ KeyDeleted(t)' /\ KeyKeepsId(t)' /\ Attached1(t)' /\ Detached(t)'
  BY <1>1, <1>3, <1>5 DEF Grip, KeyPointed, KeyDeleted, KeyKeepsId, Attached1, Detached
<1>9. CASE ~record[d].row
  <2>1. UNCHANGED record /\ UNCHANGED tables
    BY <1>1, <1>9 DEF tables
  <2>2. RecordInserted(t)' /\ RecordDeleted(t)'
    BY <1>5, <1>6, <1>9, <2>1 DEF RecordInserted, RecordDeleted
  <2>3. Grip(t)'
    BY <1>7, <1>8, <2>2 DEF Grip
  <2> QED
    BY <1>1, <1>2, <1>4, <2>1, <2>3, MoveStep, TablesUntouched DEF Onward
<1>10. CASE record[d].row
  <2>1. Users(record, d, t) = {} /\ record' = Remove(record, d, t, FALSE)
    BY <1>1, <1>10 DEF Blockers
  <2>2. NoRowChanges /\ \A x \in Tx \ {t} : Steady(x)
    <3>1. SameRows(record, record') /\ \A x \in Tx \ {t} : Kept(record, record', x)
      BY <1>1, <1>3, <2>1, RemoveKeeps, RecordTyped, ZenonT(40)
    <3> QED
      BY <1>1, <3>1, NothingKeeps DEF NoRowChanges, Steady, Kept
  <2>3. \A j \in RecordDoc :
            /\ record'[j].row = record[j].row /\ record'[j].share = record[j].share
            /\ j # d => record'[j].by = record[j].by
            /\ j = d => record'[j].by = t /\ ~record'[j].dirty /\ record'[j].excl = t
    <3>1. record \in [RecordDoc -> CellOf(BOOLEAN, Tx)]
      BY <1>1, RecordTyped
    <3> QED
      BY <1>3, <2>1, <3>1 DEF Remove, CellOf
  <2>4. Sole(record', d, t)
    <3>1. record[d].share \subseteq Tx /\ NoTx \notin Tx
      BY <1>1, <1>3, RecordTyped, KeysAssumption DEF CellOf
    <3> QED
      BY <1>3, <2>1, <2>3, <3>1 DEF Users, Sole
  <2>5. RecordInserted(t)' /\ RecordDeleted(t)'
    <3>1. \A j \in RecordDoc : record'[j].by = t => j = d
      BY <1>6, <2>3
    <3>2. record'[d].row /\ record'[d].by = t /\ ~record'[d].dirty
      BY <1>3, <1>10, <2>3
    <3> QED
      BY <1>3, <1>5, <2>4, <3>1, <3>2 DEF RecordInserted, RecordDeleted
  <2>6. Grip(t)'
    BY <1>7, <1>8, <2>5 DEF Grip
  <2> QED
    BY <1>1, <1>2, <1>4, <2>2, <2>6, MoveStep DEF Onward
<1> QED
  BY <1>9, <1>10

\* the key that points at it and what hangs on that key.
LEMMA DeleteKeyKeeps ==
    ASSUME Integrity, Parts', NEW t \in Tx, DeleteKey(t)
    PROVE  Integrity'
<1> DEFINE d == tx[t].doc
           u == UriOf(d)
           key == recordKey[u].row
           hit == Cascades(d)
           Targets(a) == hit /\ association[a].row.target = key.id
<1>1. /\ Parts /\ TxInv /\ KeysInv /\ Grip(t) /\ Course(tx[t]) /\ tx[t].pc = "delete_key"
      /\ Blockers(t) = {}
      /\ recordKey' = IF hit THEN Remove(recordKey, u, t, NoKey) ELSE recordKey
      /\ association' = [a \in Slots |-> IF Targets(a)
                                         THEN Remove(association, a, t, NoAssociation)[a]
                                         ELSE association[a]]
      /\ Goto(t, "commit")
      /\ UNCHANGED <<commitLog, record, drawn, published>>
  BY IntegrityOf DEF Parts, DeleteKey, At
<1>2. Onward(t, "commit")
  BY <1>1, GotoOnward
<1>3. tx[t].kind = "delete" /\ d \in RecordDoc /\ u \in Uri /\ d # NoDoc /\ d \in Doc
  BY <1>1, DocumentKeys DEF Course, Kinded, Written, Deleting
<1>4. Course(tx'[t]) /\ Announced(t)'
  BY <1>1, <1>2, <1>3 DEF Onward, Course, Kinded, Written, Replaced, Announced, Creating,
     Listed, Pointed, Attaching, Deleting
<1>5. tx'[t].kind = "delete" /\ tx'[t].doc = d /\ tx'[t].pc = "commit"
  BY <1>2, <1>3 DEF Onward
<1>6. /\ \A a \in Slots : association[a].by # t
      /\ \A w \in Uri : recordKey[w].by = t =>
            recordKey[w].dirty.rec = NoDoc /\ recordKey[w].dirty.id # NoId
  BY <1>1, <1>3 DEF Grip, Attached1, Detached, KeyPointed, KeyDeleted
<1>7. hit => /\ Users(recordKey, u, t) = {} /\ key.id # NoId /\ key.rec = d
             /\ Sole(recordKey', u, t)
  <2> SUFFICES ASSUME hit
               PROVE  /\ Users(recordKey, u, t) = {} /\ key.id # NoId /\ key.rec = d
                      /\ Sole(recordKey', u, t)
    OBVIOUS
  <2>1. Users(recordKey, u, t) = {}
    BY <1>1 DEF Blockers
  <2>2. key.rec = d /\ key.id # NoId
    BY <1>1, <1>3, KeyRowIds DEF Cascades
  <2>3. recordKey \in [Uri -> CellOf(KeyRow, Tx)] /\ recordKey' = Remove(recordKey, u, t, NoKey)
    BY <1>1, KeyTyped
  <2>4. recordKey'[u].share = recordKey[u].share /\ recordKey'[u].excl = t
    BY <1>3, <2>3, RemoveCells
  <2>5. recordKey[u].share \subseteq Tx /\ NoTx \notin Tx
    BY <1>3, <2>3, KeysAssumption DEF CellOf
  <2> QED
    BY <2>1, <2>2, <2>4, <2>5 DEF Users, Sole
<1>8. \A w \in Uri :
          /\ recordKey'[w].row = recordKey[w].row
          /\ (w # u \/ ~hit) => recordKey'[w] = recordKey[w]
          /\ (w = u /\ hit) => recordKey'[w].by = t /\ recordKey'[w].dirty = NoKey
  <2>1. CASE hit
    <3>1. recordKey \in [Uri -> CellOf(KeyRow, Tx)] /\ recordKey' = Remove(recordKey, u, t, NoKey)
      BY <1>1, <2>1, KeyTyped
    <3> QED
      BY <1>3, <2>1, <3>1 DEF Remove, CellOf
  <2>2. CASE ~hit
    BY <1>1, <2>2
  <2> QED
    BY <2>1, <2>2
<1>9. \A a \in Slots :
          /\ association'[a].row = association[a].row
          /\ ~Targets(a) => association'[a] = association[a]
          /\ Targets(a) => association'[a].by = t /\ association'[a].dirty = NoAssociation
  <2>1. association \in [Slots -> CellOf(AssociationRow, Tx)]
    BY <1>1, AssociationTyped
  <2>2. \A a \in Slots :
            LET c == Remove(association, a, t, NoAssociation)[a] IN
            c.row = association[a].row /\ c.by = t /\ c.dirty = NoAssociation
    BY <2>1 DEF Remove, CellOf
  <2> HIDE DEF Targets
  <2> QED
    BY <1>1, <2>2
<1>10. \A x \in Tx \ {t}, a \in Slots : Targets(a) => association[a].by # x
  <2>1. ASSUME NEW x \in Tx \ {t}, NEW a \in Slots, Targets(a), association[a].by = x
        PROVE  FALSE
    <3>1. Grip(x) /\ Course(tx[x])
      BY IntegrityOf
    <3>2. association[a].dirty = NoAssociation
      BY <1>7, <2>1, <3>1 DEF Grip, Attached1, NoAssociation
    <3>3. /\ tx[x].kind = "delete" /\ tx[x].pc = "commit"
          /\ recordKey[UriOf(tx[x].doc)].by = x
          /\ recordKey[UriOf(tx[x].doc)].row.id = key.id
      BY <2>1, <3>1, <3>2 DEF Grip, Detached
    <3>4. UriOf(tx[x].doc) \in Uri
      BY <3>1, <3>3, DocumentKeys DEF Course, Written, Deleting
    <3>5. UriOf(tx[x].doc) = u
      BY <1>1, <1>3, <1>7, <2>1, <3>3, <3>4, KeyRowIds
    <3> QED
      BY <1>7, <2>1, <3>3, <3>5, KeysAssumption DEF Users
  <2> QED
    BY <2>1
<1>11. NoRowChanges /\ \A x \in Tx \ {t} : Steady(x)
  <2>1. SameRows(recordKey, recordKey') /\ \A x \in Tx \ {t} : Kept(recordKey, recordKey', x)
    <3>1. CASE hit
      BY <1>1, <1>3, <1>7, <3>1, RemoveKeeps, KeyTyped
    <3>2. CASE ~hit
      BY <1>1, <3>2, NothingKeeps
    <3> QED
      BY <3>1, <3>2
  <2>2. SameRows(association, association')
    BY <1>1, <1>9, AssociationTyped DEF SameRows
  <2>3. \A x \in Tx \ {t} : Own(association, association', x)
    <3> HIDE DEF Targets
    <3> QED
      BY <1>1, <1>9, <1>10, AssociationTyped DEF Own
  <2> QED
    BY <1>1, <2>1, <2>2, <2>3, NothingKeeps DEF NoRowChanges, Steady
<1>12. CommitHeld(t)' /\ RecordInserted(t)' /\ RecordDeleted(t)'
  BY <1>1, <1>3, <1>5 DEF Grip, CommitHeld, RecordInserted, RecordDeleted, Deleting
<1>13. NoKey.id = NoId /\ NoKey.rec = NoDoc
  BY DEF NoKey
<1> HIDE DEF Targets
<1>14. KeyPointed(t)' /\ KeyKeepsId(t)'
  BY <1>1, <1>3, <1>5, <1>6, <1>8, <1>13 DEF Grip, KeyPointed, KeyKeepsId
<1>15. KeyDeleted(t)'
  <2>1. ASSUME NEW w \in Uri, recordKey'[w].by = t, recordKey'[w].dirty.id = NoId
        PROVE  w = u /\ hit
    BY <1>6, <1>8, <2>1
  <2>2. \A a \in Slots : (hit /\ association'[a].row.target = recordKey'[u].row.id) =>
            association'[a].by = t /\ association'[a].dirty = NoAssociation
    BY <1>3, <1>8, <1>9 DEF Targets
  <2>3. recordKey'[u].row.rec = d => hit
    BY <1>3, <1>8 DEF Cascades
  <2> HIDE DEF hit
  <2> QED
    BY <1>3, <1>5, <1>7, <1>8, <2>1, <2>2, <2>3 DEF KeyDeleted
<1>16. Attached1(t)'
  BY <1>6, <1>9 DEF Attached1
<1>17. Detached(t)'
  <2>1. ASSUME NEW a \in Slots, association'[a].by = t
        PROVE  /\ hit /\ association[a].row.target = key.id
               /\ association[a].row # NoAssociation
    <3>1. Targets(a)
      BY <1>6, <1>9, <2>1
    <3> QED
      BY <1>7, <3>1 DEF Targets, NoAssociation
  <2> HIDE DEF hit
  <2> QED
    BY <1>3, <1>5, <1>8, <1>9, <1>13, <2>1 DEF Detached
<1>18. Grip(t)'
  BY <1>12, <1>14, <1>15, <1>16, <1>17 DEF Grip
<1> QED
  BY <1>1, <1>2, <1>4, <1>11, <1>18, MoveStep DEF Onward

-----------------------------------------------------------------------------
(* A commit makes rows visible; the locks of the others held it off until  *)
(* nothing they rely on goes away with it.                                 *)

\* What the commit of t does to rows.
LEMMA CommitRows ==
    ASSUME Integrity, NEW t \in Tx, Commit(t)
    PROVE  /\ \A d \in Doc : commitLog'[d].row = Sees(commitLog, d, t)
           /\ \A d \in RecordDoc : record'[d].row = Sees(record, d, t)
           /\ \A u \in Uri : recordKey'[u].row = Sees(recordKey, u, t)
           /\ \A a \in Slots : association'[a].row = Sees(association, a, t)
           /\ \A d \in Doc : commitLog'[d].by # t
           /\ \A d \in RecordDoc : record'[d].by # t
           /\ \A u \in Uri : recordKey'[u].by # t
           /\ \A a \in Slots : association'[a].by # t
           /\ \A x \in Tx \ {t} : Steady(x)
<1>1. Parts
  BY IntegrityOf
<1>2. /\ \A d \in Doc : commitLog'[d].row = Sees(commitLog, d, t)
      /\ \A d \in Doc : commitLog'[d].by # t
      /\ \A x \in Tx \ {t} : Kept(commitLog, commitLog', x)
  BY <1>1, LogTyped, CommitKeeps DEF Commit
<1>3. /\ \A d \in RecordDoc : record'[d].row = Sees(record, d, t)
      /\ \A d \in RecordDoc : record'[d].by # t
      /\ \A x \in Tx \ {t} : Kept(record, record', x)
  BY <1>1, RecordTyped, CommitKeeps DEF Commit
<1>4. /\ \A u \in Uri : recordKey'[u].row = Sees(recordKey, u, t)
      /\ \A u \in Uri : recordKey'[u].by # t
      /\ \A x \in Tx \ {t} : Kept(recordKey, recordKey', x)
  BY <1>1, KeyTyped, CommitKeeps DEF Commit
<1>5. /\ \A a \in Slots : association'[a].row = Sees(association, a, t)
      /\ \A a \in Slots : association'[a].by # t
      /\ \A x \in Tx \ {t} : Kept(association, association', x)
  BY <1>1, AssociationTyped, CommitKeeps DEF Commit
<1> QED
  BY <1>2, <1>3, <1>4, <1>5 DEF Steady, Kept

\* A transaction that commits changes no row another one relies on.
LEMMA CommitSpares ==
    ASSUME Integrity, NEW t \in Tx, Commit(t), NEW x \in Tx \ {t}
    PROVE  Spares(x)
<1>1. /\ Parts /\ KeysInv /\ Grip(t) /\ Course(tx[t]) /\ tx[t].pc = "commit"
      /\ Grip(x) /\ Course(tx[x])
  BY IntegrityOf DEF Parts, Commit, At
<1>2. /\ \A d \in Doc : commitLog'[d].row = Sees(commitLog, d, t)
      /\ \A d \in RecordDoc : record'[d].row = Sees(record, d, t)
      /\ \A u \in Uri : recordKey'[u].row = Sees(recordKey, u, t)
      /\ \A a \in Slots : association'[a].row = Sees(association, a, t)
  BY CommitRows
<1>3. \A d \in Doc : (x \in commitLog[d].share /\ commitLog[d].row # "none")
                          => commitLog'[d].row # "none"
  BY <1>1, <1>2 DEF Grip, CommitHeld, Sole, Sees
<1>4. \A d \in AssocDoc : commitLog[d].row # "none" => commitLog'[d].row # "none"
  BY <1>1, <1>2, DocumentKeys DEF Grip, CommitHeld, Course, Written, Sees
<1>5. \A d \in RecordDoc : (x \in record[d].share /\ record[d].row) => record'[d].row
  BY <1>1, <1>2 DEF Grip, RecordDeleted, Sole, Sees
<1>6. \A d \in RecordDoc : (Sole(commitLog, d, x) /\ ~record[d].row) => ~record'[d].row
  BY <1>1, <1>2 DEF Grip, RecordInserted, Sole, Sees
<1>7. \A u \in Uri : (x \in recordKey[u].share /\ recordKey[u].row.id # NoId)
                          => recordKey'[u].row.id = recordKey[u].row.id
  BY <1>1, <1>2 DEF Grip, KeyDeleted, KeyKeepsId, Sole, Sees
<1>8. ASSUME NEW d \in RecordDoc, Sole(commitLog, d, x), recordKey[UriOf(d)].row.rec # d,
             record[d].row => record[d].by = x /\ ~record[d].dirty,
             recordKey'[UriOf(d)].row.rec = d
      PROVE  FALSE
  <2> DEFINE u == UriOf(d)
  <2>1. u \in Uri /\ d # NoDoc
    BY DocumentKeys
  <2>2. recordKey[u].by = t /\ recordKey[u].dirty.rec = d
    BY <1>2, <1>8, <2>1 DEF Sees
  <2>3. t \in record[d].share /\ Sees(record, d, t)
    BY <1>1, <2>1, <2>2 DEF Grip, KeyPointed
  <2>4. CASE record[d].by = t
    BY <1>1, <1>8, <2>3, <2>4 DEF Grip, RecordInserted, Sole, Sees
  <2>5. CASE record[d].by # t
    BY <1>1, <1>8, <2>3, <2>5 DEF Grip, RecordDeleted, Sole, Sees
  <2> QED
    BY <2>4, <2>5
<1>9. ASSUME NEW u \in Uri, NEW a \in Slots, Sole(recordKey, u, x),
             recordKey[u].row.id # NoId, association'[a].row.target = recordKey[u].row.id,
             association'[a].row # association[a].row
      PROVE  FALSE
  <2>1. association[a].by = t /\ association[a].dirty.target = recordKey[u].row.id
    BY <1>2, <1>9 DEF Sees
  <2>2. association[a].dirty # NoAssociation
    BY <1>9, <2>1 DEF NoAssociation
  <2>3. /\ tx[t].kind = "associate" /\ recordKey[tx[t].uri].row.id = tx[t].pid
        /\ t \in recordKey[tx[t].uri].share /\ tx[t].pid = recordKey[u].row.id
    BY <1>1, <2>1, <2>2 DEF Grip, Attached1
  <2>4. tx[t].uri \in Uri
    BY <1>1, <2>3, DocumentKeys DEF Course, Written, Attaching
  <2>5. tx[t].uri = u
    BY <1>1, <1>9, <2>3, <2>4, KeyRowIds
  <2> QED
    BY <1>9, <2>3, <2>5 DEF Sole
<1>10. /\ \A d \in Doc : commitLog[d].by = x => commitLog'[d].row = commitLog[d].row
       /\ \A d \in RecordDoc : record[d].by = x => record'[d].row = record[d].row
       /\ \A u \in Uri : recordKey[u].by = x => recordKey'[u].row = recordKey[u].row
       /\ \A a \in Slots : association[a].by = x => association'[a].row = association[a].row
  BY <1>2 DEF Sees
<1> QED
  BY <1>3, <1>4, <1>5, <1>6, <1>7, <1>8, <1>9, <1>10 DEF Spares

\* What t commits resolves and hangs, and it takes away nothing that others need to.
LEMMA CommitKeepsRows ==
    ASSUME Integrity, NEW t \in Tx, Commit(t)
    PROVE  RowsResolve' /\ RowsHang'
<1> DEFINE s == tx[t]
<1>1. /\ Parts /\ KeysInv /\ Grip(t) /\ Course(tx[t]) /\ tx[t].pc = "commit"
      /\ RowsResolve /\ RowsHang
  BY IntegrityOf DEF Parts, Commit, At, Integrity
<1>2. /\ \A d \in Doc : commitLog'[d].row = Sees(commitLog, d, t)
      /\ \A d \in RecordDoc : record'[d].row = Sees(record, d, t)
      /\ \A u \in Uri : recordKey'[u].row = Sees(recordKey, u, t)
      /\ \A a \in Slots : association'[a].row = Sees(association, a, t)
  BY CommitRows
<1>3. /\ s.kind = "create" => s.doc \in RecordDoc /\ s.uri = UriOf(s.doc)
      /\ s.kind = "associate" => s.doc \in AssocDoc /\ s.uri = Target[s.doc] /\ s.pid # NoId
      /\ s.kind = "delete" => s.doc \in RecordDoc
  BY <1>1 DEF Course, Written, Listed, Pointed, Attaching, Deleting
<1>4. ASSUME NEW d \in RecordDoc, record'[d].row
      PROVE  commitLog'[d].row # "none"
  <2>1. d \in Doc
    BY DocumentKeys
  <2>2. CASE record[d].by = t
    BY <1>1, <1>2, <1>4, <2>1, <2>2 DEF Grip, RecordInserted, Sees
  <2>3. CASE record[d].by # t
    <3>1. record[d].row /\ commitLog[d].row # "none"
      BY <1>1, <1>2, <1>4, <2>3 DEF RowsResolve, Sees
    <3>2. ~(commitLog[d].by = t /\ commitLog[d].dirty = "none")
      BY <1>1, <2>1, <2>3, <3>1 DEF Grip, CommitHeld, RecordDeleted
    <3> QED
      BY <1>2, <2>1, <3>1, <3>2 DEF Sees
  <2> QED
    BY <2>2, <2>3
<1>5. ASSUME NEW u \in Uri, recordKey'[u].row.rec # NoDoc
      PROVE  record'[recordKey'[u].row.rec].row
  <2> DEFINE d == recordKey'[u].row.rec
  <2>1. CASE recordKey[u].by = t
    <3>1. recordKey[u].dirty.rec = d /\ s.kind = "create" /\ s.doc = d /\ Sees(record, d, t)
      BY <1>1, <1>2, <1>5, <2>1 DEF Grip, KeyPointed, Sees
    <3> QED
      BY <1>2, <1>3, <3>1
  <2>2. CASE recordKey[u].by # t
    <3>1. recordKey[u].row.rec = d
      BY <1>2, <2>2 DEF Sees
    <3>2. d \in RecordDoc /\ UriOf(d) = u /\ record[d].row
      BY <1>1, <1>5, <3>1 DEF KeysInv, KeyBelongs, NoKey, RowsResolve, Live
    <3>3. ~(record[d].by = t /\ ~record[d].dirty)
      <4>1. SUFFICES ASSUME record[d].by = t, ~record[d].dirty
                     PROVE  FALSE
        OBVIOUS
      <4>2. CASE s.kind = "create"
        <5>1. s.old = d /\ s.doc # d /\ s.uri = u
          BY <1>1, <1>5, <3>2, <4>1, <4>2 DEF Grip, RecordDeleted, Course, Replaced, Listed,
             Pointed
        <5> QED
          BY <1>1, <2>2, <4>2, <5>1 DEF Grip, KeyPointed, Pointed
      <4>3. CASE s.kind = "delete"
        <5>1. s.doc = d
          BY <1>1, <3>2, <4>1, <4>3 DEF Grip, RecordDeleted
        <5> QED
          BY <1>1, <2>2, <3>1, <3>2, <4>3, <5>1 DEF Grip, KeyDeleted
      <4> QED
        BY <1>1, <3>2, <4>1, <4>2, <4>3 DEF Grip, RecordDeleted
    <3> QED
      BY <1>2, <3>2, <3>3 DEF Sees
  <2> QED
    BY <2>1, <2>2
<1>6. ASSUME NEW a \in Slots, association'[a].row # NoAssociation
      PROVE  LET r == association'[a].row IN
             /\ r.doc \in AssocDoc /\ r.target # NoId
             /\ recordKey'[Target[r.doc]].row.id = r.target
             /\ commitLog'[r.doc].row # "none"
  <2> DEFINE r == association'[a].row
             w == Target[r.doc]
  <2>1. /\ r.doc \in AssocDoc /\ r.target # NoId
        /\ recordKey[w].row.id = r.target
        /\ Sees(commitLog, r.doc, t) # "none"
        /\ association[a].by = t => s.kind = "associate"
        /\ association[a].by # t => association[a].row = r
    <3>1. CASE association[a].by = t /\ association[a].dirty # NoAssociation
      <4>1. r = [doc |-> s.doc, target |-> s.pid] /\ s.kind = "associate"
            /\ recordKey[s.uri].row.id = s.pid
        BY <1>1, <1>2, <3>1 DEF Grip, Attached1, Sees
      <4>2. Sees(commitLog, s.doc, t) # "none"
        BY <1>1, <4>1 DEF Grip, CommitHeld, Attaching
      <4> QED
        BY <1>3, <3>1, <4>1, <4>2
    <3>2. CASE association[a].by = t /\ association[a].dirty = NoAssociation
      BY <1>2, <1>6, <3>2 DEF Sees
    <3>3. CASE association[a].by # t
      <4>1. association[a].row = r
        BY <1>2, <3>3 DEF Sees
      <4>2. /\ r.doc \in AssocDoc /\ r.target # NoId /\ recordKey[w].row.id = r.target
            /\ commitLog[r.doc].row # "none"
        BY <1>1, <1>6, <4>1 DEF RowsHang
      <4>3. ~(commitLog[r.doc].by = t /\ commitLog[r.doc].dirty = "none")
        BY <1>1, <1>3, <4>2, DocumentKeys DEF Grip, CommitHeld
      <4> QED
        BY <3>3, <4>1, <4>2, <4>3 DEF Sees
    <3> QED
      BY <3>1, <3>2, <3>3
  <2> HIDE DEF r
  <2>2. w \in Uri /\ r.doc \in Doc
    BY <2>1, DocumentKeys
  <2>3. ~(recordKey[w].by = t /\ recordKey[w].dirty.id = NoId)
    <3>1. SUFFICES ASSUME recordKey[w].by = t, recordKey[w].dirty.id = NoId
                   PROVE  FALSE
      OBVIOUS
    <3>2. s.kind = "delete"
      BY <1>1, <2>2, <3>1 DEF Grip, KeyDeleted
    <3>3. association[a].row.target = recordKey[w].row.id /\ association[a].by # t
      BY <2>1, <3>2
    <3> QED
      BY <1>1, <2>2, <3>1, <3>3 DEF Grip, KeyDeleted
  <2>4. recordKey'[w].row.id = r.target
    BY <1>1, <1>2, <2>1, <2>2, <2>3 DEF Grip, KeyKeepsId, Sees
  <2> QED
    BY <1>2, <2>1, <2>2, <2>4 DEF r
<1> QED
  BY <1>4, <1>5, <1>6, DocumentKeys DEF RowsResolve, RowsHang, Live

\* A commit keeps Integrity.
LEMMA CommitKeepsIntegrity ==
    ASSUME Integrity, Parts', NEW t \in Tx, Commit(t)
    PROVE  Integrity'
<1>1. /\ Parts /\ Nested /\ TxInv /\ Grip(t) /\ tx[t].pc = "commit"
      /\ UNCHANGED published
  BY IntegrityOf DEF Parts, Commit, At, Integrity
<1>2. Others(t) /\ tx'[t].pc \in Replies \cup {"idle"}
  BY <1>1, EndedPc DEF Commit, Others, Replies, TxInv
<1>3. Nested'
  BY <1>1, <1>2, NestedStep
<1>4. Grip(t)'
  <2>1. Light(t)'
    BY CommitRows DEF Light, RecordInserted, KeyKeepsId
  <2> QED
    BY <1>2, <2>1, LightIsGrip DEF Early, Before
<1>5. ASSUME NEW x \in Tx
      PROVE  Course(tx'[x]) /\ Announced(x)' /\ Grip(x)'
  <2>1. CASE x = t
    BY <1>2, <1>4, <2>1, OverCourse
  <2>2. CASE x # t
    <3>1. Unmoved(x) /\ Steady(x) /\ Spares(x)
      BY <1>2, <2>2, CommitRows, CommitSpares DEF Others, Unmoved
    <3> QED
      BY <1>1, <3>1, IntegrityOf, UnmovedCourse, SparedGrip
  <2> QED
    BY <2>1, <2>2
<1>6. KeysInductive'
  BY PartsOfInductive DEF KeysInductive, Parts, TypeOK, TxInv, KeysInv, RestTyped
<1> QED
  BY <1>3, <1>5, <1>6, CommitKeepsRows DEF Integrity

-----------------------------------------------------------------------------
(* Integrity is inductive.                                                 *)

\* What is stored at the start has its record, its commit and its key.
LEMMA InitIntegrity ==
    ASSUME Init
    PROVE  Integrity
<1>1. KeysInductive
  BY InitParts, PartsOfInductive
<1>2. ASSUME NEW t \in Tx
      PROVE  Course(tx[t]) /\ Announced(t) /\ Grip(t)
  <2>1. tx[t].pc \in {"new", "idle"}
    BY DEF Init, Fresh
  <2>2. Course(tx[t]) /\ Announced(t)
    BY <2>1 DEF Course, Kinded, Written, Replaced, Announced, Creating, Listed, Pointed,
       Attaching, Deleting
  <2>3. /\ \A d \in Doc : commitLog[d].by # t
        /\ \A d \in RecordDoc : record[d].by # t
        /\ \A u \in Uri : recordKey[u].by # t
        /\ \A a \in Slots : association[a].by # t
    BY KeysAssumption DEF Init, Cell
  <2>4. CommitHeld(t) /\ RecordInserted(t) /\ RecordDeleted(t)
    BY <2>1, <2>3 DEF CommitHeld, RecordInserted, RecordDeleted, Deleting, Attaching
  <2>5. KeyPointed(t) /\ KeyDeleted(t) /\ KeyKeepsId(t) /\ Attached1(t) /\ Detached(t)
    BY <2>1, <2>3 DEF KeyPointed, KeyDeleted, KeyKeepsId, Attached1, Detached, Pointed
  <2> QED
    BY <2>2, <2>4, <2>5 DEF Grip
<1>3. Nested
  BY DEF Init, Fresh, Nested, Tx, Ref
<1>4. RowsResolve
  <2>1. /\ \A d \in Doc : commitLog[d].row = IF d \in Stored THEN "kept" ELSE "none"
        /\ \A d \in RecordDoc : record[d].row = (d \in Stored)
        /\ \A u \in Uri : recordKey[u].row = StartKey(u)
    BY DEF Init, Cell
  <2>2. \A u \in Uri : StartKey(u).rec # NoDoc => StartKey(u).rec \in Stored
    BY DEF StartKey, NoKey
  <2>3. Stored \subseteq RecordDoc
    BY StartAssumption DEF RecordDoc
  <2> QED
    BY <2>1, <2>2, <2>3, DocumentKeys DEF RowsResolve, Live
<1>5. RowsHang
  BY DEF Init, Cell, RowsHang
<1> QED
  BY <1>1, <1>2, <1>3, <1>4, <1>5 DEF Integrity

\* Every step keeps Integrity.
LEMMA NextIntegrity ==
    ASSUME Integrity, [Next]_vars
    PROVE  Integrity'
<1>1. Parts'
  BY NextParts, PartsOfInductive DEF Integrity
<1>2. CASE UNCHANGED vars
  <2>1. /\ UNCHANGED tables /\ published' = published
        /\ \A x \in Tx : Unmoved(x)
        /\ Nested'
    BY <1>2 DEF vars, tables, Unmoved, Nested, Integrity
  <2>2. \A x \in Tx : Course(tx'[x]) /\ Announced(x)' /\ Grip(x)'
    BY <2>1, IntegrityOf, TablesUntouched, UnmovedCourse, SteadyGrip
  <2>3. RowsResolve' /\ RowsHang'
    BY <2>1, TablesUntouched, RowsAsTheyWere, PartsOfInductive DEF Integrity
  <2>4. KeysInductive'
    BY <1>1 DEF KeysInductive, Parts, TypeOK, TxInv, KeysInv, RestTyped
  <2> QED
    BY <2>1, <2>2, <2>3, <2>4 DEF Integrity
<1>3. ASSUME NEW t \in Tx, Create(t)
      PROVE  Integrity'
  BY <1>1, <1>3, InsertCommitKeeps, InsertRecordKeeps, LockKeyKeeps, ClimbKeeps, PlantKeeps,
     PointKeeps, FlagOldKeeps, DropOldKeeps, DistributeKeeps, PublishKeeps,
     CommitKeepsIntegrity DEF Create
<1>4. ASSUME NEW t \in Tx, Statement(t)
      PROVE  Integrity'
  BY <1>1, <1>3, <1>4, FindTargetKeeps, InsertAssociationKeeps, FindKeeps, DeleteCommitKeeps,
     DeleteRecordKeeps, DeleteKeyKeeps DEF Statement, Associate, Delete
<1>5. ASSUME NEW t \in Tx, DeadlockAbort(t) \/ CommitFails(t)
      PROVE  Integrity'
  <2>1. tx[t].pc \notin {"idle", "distribute"}
    BY <1>5 DEF DeadlockAbort, CommitFails, At, Blockers
  <2> QED
    BY <1>1, <1>5, <2>1, FailKeeps DEF DeadlockAbort, CommitFails, Replies
<1> QED
  BY <1>1, <1>2, <1>4, <1>5, BeginKeeps, CancelKeeps, CrashKeeps DEF Next, Quiet

\* What each transaction has written and locked, and what is committed, fit together
\* in every reachable state.
THEOREM IntegrityAlways == Spec => []Integrity
<1>1. Init => Integrity
  BY InitIntegrity
<1>2. Integrity /\ [Next]_vars => Integrity'
  BY NextIntegrity
<1> QED
  BY <1>1, <1>2, PTL DEF Spec

\* No replacement, delete, error, cancellation or crash leaves a key that resolves to a
\* document without a record or a commit (record.go:112-208, 381-407).
THEOREM KeysResolveAlways == Spec => []KeysResolve
<1>1. Integrity => KeysResolve
  <2>1. ASSUME Integrity, NEW u \in Uri, Live(u) # NoDoc
        PROVE  record[Live(u)].row /\ commitLog[Live(u)].row # "none"
    <3>1. KeysInv /\ RowsResolve
      BY <2>1, PartsOfInductive DEF Integrity, Parts
    <3>2. Live(u) \in RecordDoc
      BY <2>1, <3>1 DEF KeysInv, KeyBelongs, NoKey, Live
    <3> QED
      BY <2>1, <3>1, <3>2 DEF RowsResolve
  <2> QED
    BY <2>1 DEF KeysResolve
<1> QED
  BY <1>1, IntegrityAlways, PTL

\* No interleaving of Delete and CreateAssociation leaves an association on a target
\* that is gone, or without its commit (record.go:274-338, 381-407).
THEOREM AssociationsHangAlways == Spec => []AssociationsHang
<1>1. Integrity => AssociationsHang
  BY DEF Integrity, RowsHang, AssociationsHang
<1> QED
  BY <1>1, IntegrityAlways, PTL

-----------------------------------------------------------------------------
(* What a step may do to committed rows, and with which reply it ends.     *)

\* No operation but a commit touches a committed row.
LEMMA OperationRows ==
    ASSUME NEW K, NEW V, NEW T \in [K -> CellOf(V, Tx)], NEW k, NEW t, NEW v
    PROVE  /\ SameRows(T, T)
           /\ SameRows(T, Write(T, k, t, v)) /\ SameRows(T, Remove(T, k, t, v))
           /\ SameRows(T, Share(T, k, t)) /\ SameRows(T, ForUpdate(T, k, t))
  BY DEF SameRows, Write, Remove, Share, ForUpdate, CellOf

\* A rollback changes no committed row.
LEMMA RolledBackRows ==
    ASSUME Parts, NEW S \in SUBSET Tx, Rollback(S)
    PROVE  NoRowChanges
  BY TablesTyped, RollbackKeeps DEF Rollback, NoRowChanges

\* How a statement that is not the last of its transaction leaves the tables.
Goes(t) == NoRowChanges /\ tx'[t].pc \notin Replies \cup {"idle"}

\* How the last one does: it commits, it fails, or it reads and replies.
Ends(t) ==
    \/ Commit(t)
    \/ \E r \in Replies \ {"ok"} : Fail(t, r) \/ Reply(t, r)
    \/ Reply(t, "ok") /\ (FindCommit(t) \/ DeleteCommit(t))

\* Each statement of a creation or an association does one or the other,
LEMMA WriterSteps ==
    ASSUME Parts, NEW t \in Tx, Create(t) \/ Associate(t)
    PROVE  Goes(t) \/ Ends(t)
<1>1. tx \in [Tx -> TxState]
  BY DEF Parts, TxInv
<1> USE DEF Goes, Replies
<1>2. CASE InsertCommit(t)
  BY <1>1, <1>2, TablesTyped, OperationRows DEF InsertCommit, Goto, NoRowChanges, TxState
<1>3. CASE InsertRecord(t)
  <2>1. CASE Fail(t, "error")
    BY <2>1 DEF Ends
  <2>2. CASE ~Fail(t, "error")
    <3>1. Goto(t, "lock_key")
      BY <1>3, <2>2 DEF InsertRecord
    <3>2. NoRowChanges
      <4>1. /\ record' \in {record, Write(record, tx[t].doc, t, TRUE)}
            /\ commitLog' \in {commitLog, Share(commitLog, tx[t].doc, t)}
            /\ recordKey' = recordKey /\ association' = association
        BY <1>3, <2>2 DEF InsertRecord, tables
      <4>2. SameRows(record, record')
        BY <4>1, RecordTyped DEF SameRows, Write, CellOf
      <4>3. SameRows(commitLog, commitLog')
        BY <4>1, LogTyped, OperationRows
      <4> QED
        BY <4>1, <4>2, <4>3 DEF NoRowChanges, SameRows
    <3> QED
      BY <1>1, <3>1, <3>2 DEF Goto, TxState
  <2> QED
    BY <2>1, <2>2
<1>4. CASE LockKey(t)
  BY <1>1, <1>4, TablesTyped, OperationRows DEF LockKey, Locked, NoRowChanges, TxState
<1>5. CASE Climb(t)
  <2>1. NoRowChanges
    BY <1>5, TablesUntouched DEF Climb
  <2>2. tx'[t].pc \in {"climb", "point", "plant"}
    BY <1>1, <1>5 DEF Climb, Found, Missing, Descend, At, TxState
  <2> QED
    BY <2>1, <2>2
<1>6. CASE Plant(t)
  <2>1. CASE Fail(t, "error")
    BY <2>1 DEF Ends
  <2>2. CASE ~Fail(t, "error")
    <3>1. tx'[t].pc \in {"point", "plant"}
      BY <1>1, <1>6, <2>2 DEF Plant, Descend, TxState
    <3>2. NoRowChanges
      <4>1. /\ \E u, v : recordKey' = Write(recordKey, u, t, v)
            /\ UNCHANGED <<commitLog, record, association>>
        BY <1>6, <2>2 DEF Plant
      <4> QED
        BY <4>1, TablesTyped, OperationRows DEF NoRowChanges
    <3> QED
      BY <3>1, <3>2
  <2> QED
    BY <2>1, <2>2
<1>7. CASE Point(t)
  <2>1. CASE Fail(t, "error")
    BY <2>1 DEF Ends
  <2>2. CASE ~Fail(t, "error")
    <3>1. tx'[t].pc \in {"flag_old", "distribute"}
      BY <1>1, <1>7, <2>2 DEF Point, Goto, TxState
    <3>2. NoRowChanges
      BY <1>7, <2>2, TablesTyped, OperationRows DEF Point, NoRowChanges
    <3> QED
      BY <3>1, <3>2
  <2> QED
    BY <2>1, <2>2
<1>8. CASE FlagOld(t)
  BY <1>1, <1>8, TablesTyped, OperationRows DEF FlagOld, Goto, NoRowChanges, TxState
<1>9. CASE DropOld(t)
  BY <1>1, <1>9, TablesTyped, OperationRows DEF DropOld, Goto, NoRowChanges, TxState
<1>10. CASE Distribute(t)
  <2>1. NoRowChanges
    BY <1>10, TablesUntouched DEF Distribute
  <2>2. CASE Goto(t, "publish")
    BY <1>1, <2>1, <2>2 DEF Goto, TxState
  <2>3. CASE ~Goto(t, "publish")
    <3>1. \E c \in tx[t].todo : \E new :
            /\ tx[Ref(t[1])].pc = "idle"
            /\ tx' = [tx EXCEPT ![t].todo = Remaining(@, c), ![Ref(t[1])] = new]
      BY <1>10, <2>3 DEF Distribute
    <3>2. t # Ref(t[1]) /\ tx[t].pc = "distribute"
      BY <1>10, <3>1 DEF Distribute, At
    <3>3. tx'[t].pc = "distribute"
      BY <1>1, <3>1, <3>2 DEF TxState
    <3> QED
      BY <2>1, <3>3
  <2> QED
    BY <2>2, <2>3
<1>11. CASE Publish(t)
  <2>1. CASE Fail(t, "unpublished")
    BY <2>1 DEF Ends
  <2>2. CASE ~Fail(t, "unpublished")
    <3>1. Goto(t, "commit") /\ NoRowChanges
      BY <1>11, <2>2, TablesUntouched DEF Publish
    <3> QED
      BY <1>1, <3>1 DEF Goto, TxState
  <2> QED
    BY <2>1, <2>2
<1>12. CASE FindTarget(t)
  <2>1. CASE Fail(t, "error")
    BY <2>1 DEF Ends
  <2>2. CASE ~Fail(t, "error")
    <3>1. NoRowChanges /\ tx'[t].pc = "insert_association"
      BY <1>1, <1>12, <2>2, TablesUntouched DEF FindTarget, TxState
    <3> QED
      BY <3>1
  <2> QED
    BY <2>1, <2>2
<1>13. CASE InsertAssociation(t)
  <2>1. CASE Fail(t, "error")
    BY <2>1 DEF Ends
  <2>2. CASE ~Fail(t, "error")
    <3>1. Goto(t, "publish")
      BY <1>13, <2>2 DEF InsertAssociation
    <3>2. NoRowChanges
      BY <1>13, <2>2, TablesTyped, OperationRows, SMTT(30) DEF InsertAssociation, NoRowChanges
    <3> QED
      BY <1>1, <3>1, <3>2 DEF Goto, TxState
  <2> QED
    BY <2>1, <2>2
<1> QED
  BY <1>2, <1>3, <1>4, <1>5, <1>6, <1>7, <1>8, <1>9, <1>10, <1>11, <1>12, <1>13
  DEF Create, Associate, Ends

\* and so does each of a lookup or a delete.
LEMMA ReaderSteps ==
    ASSUME Parts, NEW t \in Tx, Find(t) \/ Delete(t)
    PROVE  Goes(t) \/ Ends(t)
<1>1. tx \in [Tx -> TxState]
  BY DEF Parts, TxInv
<1> USE DEF Goes, Replies
<1>2. CASE FindById(t) \/ FindKey(t) \/ FindRecord(t)
  <2>1. CASE Reply(t, "error")
    BY <2>1 DEF Ends
  <2>2. CASE ~Reply(t, "error")
    <3>1. NoRowChanges
      BY <1>2, <2>2, TablesUntouched DEF FindById, FindKey, FindRecord
    <3>2. tx'[t].pc \in {"delete_commit", "find_record", "find_commit"}
      BY <1>1, <1>2, <2>2 DEF FindById, FindKey, FindRecord, Goto, TxState
    <3> QED
      BY <3>1, <3>2
  <2> QED
    BY <2>1, <2>2
<1>3. CASE FindCommit(t)
  BY <1>3 DEF FindCommit, Ends
<1>4. CASE DeleteCommit(t)
  <2>1. CASE Reply(t, "ok")
    BY <1>4, <2>1 DEF Ends
  <2>2. CASE ~Reply(t, "ok")
    <3>1. /\ commitLog' = Remove(commitLog, tx[t].doc, t, "none")
          /\ UNCHANGED <<record, recordKey, association>>
          /\ Goto(t, "delete_record")
      BY <1>4, <2>2 DEF DeleteCommit
    <3>2. NoRowChanges
      BY <3>1, TablesTyped, OperationRows DEF NoRowChanges
    <3> QED
      BY <1>1, <3>1, <3>2 DEF Goto, TxState
  <2> QED
    BY <2>1, <2>2
<1>5. CASE DeleteRecord(t)
  BY <1>1, <1>5, TablesTyped, OperationRows DEF DeleteRecord, Goto, NoRowChanges, TxState
<1>6. CASE DeleteKey(t)
  <2>1. \A s \in Slots :
          Remove(association, s, t, NoAssociation)[s].row = association[s].row
    BY AssociationTyped DEF Remove, CellOf
  <2>2. SameRows(association, association')
    BY <1>6, <2>1, AssociationTyped DEF DeleteKey, SameRows
  <2>3. SameRows(commitLog, commitLog') /\ SameRows(record, record')
        /\ SameRows(recordKey, recordKey')
    BY <1>6, TablesTyped, OperationRows DEF DeleteKey
  <2>4. tx'[t].pc = "commit"
    BY <1>1, <1>6 DEF DeleteKey, Goto, TxState
  <2> QED
    BY <2>2, <2>3, <2>4 DEF NoRowChanges
<1> QED
  BY <1>2, <1>3, <1>4, <1>5, <1>6 DEF Find, Delete

\* A step commits one transaction or changes no committed row.
LEMMA OnlyCommits ==
    ASSUME Parts, [Next]_vars
    PROVE  NoRowChanges \/ \E t \in Tx : Commit(t)
<1>1. UNCHANGED tables => NoRowChanges
  BY TablesUntouched
<1>2. \A S \in SUBSET Tx : Rollback(S) => NoRowChanges
  BY RolledBackRows
<1>3. ASSUME NEW t \in Tx, Statement(t)
      PROVE  NoRowChanges \/ Commit(t)
  <2>1. Goes(t) \/ Ends(t)
    BY <1>3, WriterSteps, ReaderSteps DEF Statement
  <2>2. ASSUME NEW r, Fail(t, r) \/ Reply(t, r)
        PROVE  NoRowChanges
    <3>1. Rollback({t}) \/ UNCHANGED tables
      BY <2>2 DEF Fail, Reply
    <3>2. {t} \in SUBSET Tx
      OBVIOUS
    <3> QED
      BY <1>1, <1>2, <3>1, <3>2
  <2> QED
    BY <2>1, <2>2 DEF Goes, Ends
<1>4. ASSUME NEW p \in Req, Begin(p) \/ Cancel(p)
      PROVE  NoRowChanges
  <2>1. {Main(p), Ref(p)} \in SUBSET Tx
    BY DEF Main, Ref, Tx
  <2>2. Rollback({Main(p), Ref(p)}) \/ UNCHANGED tables
    BY <1>4 DEF Begin, Cancel
  <2> QED
    BY <1>1, <1>2, <2>1, <2>2
<1>5. CASE Crash
  <2>1. Rollback(Tx) /\ Tx \in SUBSET Tx
    BY <1>5 DEF Crash
  <2> QED
    BY <1>2, <2>1
<1>6. CASE UNCHANGED vars
  BY <1>1, <1>6 DEF vars, tables
<1>7. ASSUME NEW t \in Tx, DeadlockAbort(t) \/ CommitFails(t)
      PROVE  NoRowChanges
  <2>1. Rollback({t}) /\ {t} \in SUBSET Tx
    BY <1>7 DEF DeadlockAbort, CommitFails, Fail
  <2> QED
    BY <1>2, <2>1
<1> QED
  BY <1>3, <1>4, <1>5, <1>6, <1>7 DEF Next, Quiet

\* Whoever deletes an association that is committed deletes the key it hangs on.
LEMMA DetachedWithKey ==
    ASSUME Integrity, NEW t \in Tx, Commit(t)
    PROVE  OutlivedByTarget
<1>1. /\ Parts /\ KeysInv /\ Grip(t) /\ Course(tx[t]) /\ RowsHang
  BY IntegrityOf DEF Parts, Integrity
<1>2. SUFFICES ASSUME NEW s \in Slots, association[s].row # NoAssociation,
                      association'[s].row # association[s].row
               PROVE  LET u == Target[association[s].row.doc] IN
                      recordKey'[u].row.id # recordKey[u].row.id
  BY DEF OutlivedByTarget
<1> DEFINE a == association[s].row
           u == Target[a.doc]
           w == UriOf(tx[t].doc)
<1>3. a.target # NoId /\ recordKey[u].row.id = a.target /\ u \in Uri
  BY <1>1, <1>2, DocumentKeys DEF RowsHang
<1>4. association[s].by = t
  BY <1>2, CommitRows DEF Sees
<1>5. association[s].dirty = NoAssociation
  BY <1>1, <1>2, <1>4 DEF Grip, Attached1
<1>6. /\ recordKey[w].by = t /\ recordKey[w].dirty.id = NoId
      /\ a.target = recordKey[w].row.id /\ tx[t].kind = "delete" /\ tx[t].pc = "commit"
  BY <1>1, <1>4, <1>5 DEF Grip, Detached
<1>7. w \in Uri
  BY <1>1, <1>6, DocumentKeys DEF Course, Written, Deleting
<1>8. w = u
  BY <1>1, <1>3, <1>6, <1>7, KeyRowIds
<1>9. recordKey'[u].row.id = NoId
  BY <1>6, <1>7, <1>8, CommitRows DEF Sees
<1> QED
  BY <1>3, <1>9

\* An association that is committed goes away only with the key it hangs on, at the
\* commit of a delete (record.go:381-407, the ON DELETE CASCADE of associations).
THEOREM AssociationsOutlivedAlways == Spec => AssociationsOutlivedByTarget
<1>1. ASSUME Integrity, [Next]_vars
      PROVE  OutlivedByTarget
  <2>1. Parts
    BY <1>1, PartsOfInductive DEF Integrity
  <2>2. CASE NoRowChanges
    BY <2>1, <2>2, AssociationTyped DEF NoRowChanges, SameRows, OutlivedByTarget
  <2> QED
    BY <1>1, <2>1, <2>2, OnlyCommits, DetachedWithKey
<1>2. Integrity /\ [Next]_vars => [OutlivedByTarget]_vars
  BY <1>1
<1> QED
  BY <1>2, IntegrityAlways, PTL DEF Spec, AssociationsOutlivedByTarget

-----------------------------------------------------------------------------
(* How a request is answered.                                              *)

\* A statement of one transaction leaves the others alone, but for the nested one it
\* may start.
LEMMA StatementOfOne ==
    ASSUME Parts, NEW x \in Tx, Statement(x), NEW t \in Tx, t # x,
           Distribute(x) => t # Ref(x[1])
    PROVE  tx'[t] = tx[t]
<1>1. tx \in [Tx -> TxState]
  BY DEF Parts, TxInv
<1>3. ASSUME \E pc : Goto(x, pc) \/ Fail(x, pc) \/ Reply(x, pc)
      PROVE  tx'[t] = tx[t]
  BY <1>1, <1>3 DEF Goto, Fail, Reply
<1>4. CASE InsertCommit(x) \/ InsertRecord(x) \/ Point(x) \/ FlagOld(x) \/ DropOld(x)
  BY <1>3, <1>4 DEF InsertCommit, InsertRecord, Point, FlagOld, DropOld
<1>5. CASE LockKey(x) \/ Commit(x) \/ FindKey(x) \/ FindRecord(x)
  <2>1. CASE Reply(x, "error")
    BY <1>3, <2>1
  <2> QED
    BY <1>1, <1>5, <2>1 DEF LockKey, Commit, FindKey, FindRecord
<1>6. CASE Climb(x) \/ Plant(x)
  <2>1. CASE Fail(x, "error")
    BY <1>3, <2>1
  <2> QED
    BY <1>1, <1>6, <2>1 DEF Climb, Plant, Found, Missing
<1>7. CASE Distribute(x)
  <2>1. t # Ref(x[1])
    BY <1>7
  <2> QED
    BY <1>1, <1>3, <1>7, <2>1 DEF Distribute
<1>8. CASE Publish(x) \/ InsertAssociation(x)
  BY <1>3, <1>8 DEF Publish, InsertAssociation
<1>9. CASE FindTarget(x)
  <2>1. CASE Fail(x, "error")
    BY <1>3, <2>1
  <2> QED
    BY <1>1, <1>9, <2>1 DEF FindTarget
<1>10. CASE FindById(x) \/ FindCommit(x)
  BY <1>3, <1>10 DEF FindById, FindCommit
<1>11. CASE Delete(x)
  BY <1>3, <1>11 DEF Delete, DeleteCommit, DeleteRecord, DeleteKey
<1> QED
  BY <1>4, <1>5, <1>6, <1>7, <1>8, <1>9, <1>10, <1>11 DEF Statement, Create, Associate, Find

\* What a step does to the main transaction of a request: it begins it, runs one of its
\* statements, ends it without a change, or leaves it alone.
LEMMA MainStep ==
    ASSUME Parts, [Next]_vars, NEW p \in Req
    PROVE  \/ tx'[Main(p)] = tx[Main(p)]
           \/ Begin(p)
           \/ Goes(Main(p)) \/ Ends(Main(p))
           \/ NoRowChanges /\ tx'[Main(p)].pc \in Replies \ {"ok"}
<1> DEFINE t == Main(p)
<1>1. t \in Tx /\ tx \in [Tx -> TxState] /\ t[1] = p /\ t[2] = "main"
  BY DEF Parts, TxInv, Main, Tx
<1>2. \A r : Ended(t, r).pc = r
  BY <1>1 DEF Ended, Fresh
<1>3. CASE UNCHANGED vars
  BY <1>3 DEF vars
<1>4. ASSUME NEW q \in Req, Begin(q)
      PROVE  Begin(p) \/ tx'[t] = tx[t]
  <2>1. q # p => Main(q) # t
    BY DEF Main
  <2> QED
    BY <1>1, <1>4, <2>1 DEF Begin
<1>5. ASSUME NEW q \in Req, Cancel(q)
      PROVE  tx'[t] = tx[t] \/ (NoRowChanges /\ tx'[t].pc = "cancelled")
  <2>1. {Main(q), Ref(q)} \in SUBSET Tx
    BY DEF Main, Ref, Tx
  <2>2. NoRowChanges
    BY <1>5, <2>1, RolledBackRows DEF Cancel
  <2> QED
    BY <1>1, <1>2, <1>5, <2>2 DEF Cancel, Over
<1>6. ASSUME Crash
      PROVE  tx'[t] = tx[t] \/ (NoRowChanges /\ tx'[t].pc = "crashed")
  <2>1. NoRowChanges
    BY <1>6, RolledBackRows DEF Crash
  <2> QED
    BY <1>1, <1>2, <1>6, <2>1 DEF Crash, Over
<1>7. ASSUME NEW x \in Tx, Statement(x) \/ DeadlockAbort(x) \/ CommitFails(x)
      PROVE  tx'[t] = tx[t] \/ Goes(t) \/ Ends(t)
  <2>1. CASE x = t
    <3>1. CASE Statement(t)
      BY <1>1, <3>1, WriterSteps, ReaderSteps DEF Statement
    <3>2. CASE DeadlockAbort(t) \/ CommitFails(t)
      BY <3>2 DEF DeadlockAbort, CommitFails, Ends, Replies
    <3> QED
      BY <1>7, <2>1, <3>1, <3>2
  <2>2. CASE x # t
    <3>1. CASE Statement(x)
      <4>1. t # Ref(x[1])
        BY DEF Main, Ref
      <4> QED
        BY <1>1, <2>2, <3>1, <4>1, StatementOfOne
    <3>2. CASE DeadlockAbort(x) \/ CommitFails(x)
      BY <1>1, <2>2, <3>2 DEF DeadlockAbort, CommitFails, Fail
    <3> QED
      BY <1>7, <3>1, <3>2
  <2> QED
    BY <2>1, <2>2
<1> QED
  BY <1>3, <1>4, <1>5, <1>6, <1>7 DEF Next, Quiet, Replies

\* The main transaction of a request is always somewhere in its program.
Awake == \A p \in Req : tx[Main(p)].pc # "idle"

\* Awake is inductive.
LEMMA AwakeAlways == Spec => []Awake
<1>1. Init => Awake
  BY DEF Init, Awake, Main, Tx, Fresh
<1>2. ASSUME KeysInductive, Awake, [Next]_vars
      PROVE  Awake'
  <2>1. SUFFICES ASSUME NEW p \in Req
                 PROVE  tx'[Main(p)].pc # "idle"
    BY DEF Awake
  <2>2. Main(p) \in Tx /\ Main(p)[2] = "main" /\ Parts /\ tx \in [Tx -> TxState]
    BY <1>2, PartsOfInductive DEF Main, Tx, Parts, TxInv
  <2>3. \A r : Ended(Main(p), r).pc = r
    BY <2>2 DEF Ended, Fresh
  <2>4. CASE Begin(p)
    <3>1. \A o \in Menu[p] : FirstStatement(o) # "idle"
      BY MenuAssumption DEF Operation, Kinds, FirstStatement
    <3> QED
      BY <2>2, <2>4, <3>1 DEF Begin, Fresh
  <2>5. CASE Ends(Main(p))
    BY <2>2, <2>3, <2>5 DEF Ends, Commit, Fail, Reply, Replies
  <2> QED
    BY <1>2, <2>2, <2>4, <2>5, MainStep DEF Awake, Goes, Replies
<1> QED
  BY <1>1, <1>2, KeysInductiveAlways, PTL DEF Spec

\* The commit of a request makes its answer true.
LEMMA CommitAnswers ==
    ASSUME Integrity, NEW p \in Req, Commit(Main(p)), InFlight(p)
    PROVE  TrueAnswer(p)
<1> DEFINE t == Main(p)
           d == tx[t].doc
           u == tx[t].uri
<1>1. t \in Tx /\ t[2] = "main"
  BY DEF Main, Tx
<1>2. /\ Grip(t) /\ Course(tx[t]) /\ Announced(t) /\ tx[t].pc = "commit"
      /\ tx'[t].pc = "ok"
  <2>1. tx \in [Tx -> TxState]
    BY <1>1, IntegrityOf DEF Parts, TxInv
  <2> QED
    BY <1>1, <2>1, IntegrityOf DEF Commit, At, Ended, Fresh
<1>3. CASE tx[t].kind = "create"
  <2>1. d \in RecordDoc /\ u \in Uri /\ d # NoDoc
    BY <1>2, <1>3, DocumentKeys DEF Course, Written, Listed, Pointed
  <2>2. recordKey[u].by = t /\ recordKey[u].dirty.rec = d
    BY <1>2, <1>3 DEF Grip, KeyPointed, Pointed
  <2>3. Sees(record, d, t)
    BY <1>2, <2>1, <2>2 DEF Grip, KeyPointed
  <2>4. recordKey'[u].row.rec = d /\ record'[d].row /\ d \in published
    BY <1>1, <1>2, <1>3, <2>1, <2>2, <2>3, CommitRows DEF Sees, Announced
  <2> QED
    BY <1>2, <1>3, <2>4 DEF TrueAnswer
<1>4. CASE tx[t].kind = "delete"
  <2> DEFINE w == UriOf(d)
  <2>1. d \in RecordDoc /\ d \in Doc /\ w \in Uri /\ d # NoDoc
    BY <1>2, <1>4, DocumentKeys DEF Course, Written, Deleting
  <2>2. commitLog[d].by = t /\ commitLog[d].dirty = "none"
    BY <1>2, <1>4 DEF Grip, CommitHeld, Deleting
  <2>3. /\ recordKey[w].row.rec = d => recordKey[w].by = t /\ recordKey[w].dirty = NoKey
        /\ recordKey[w].by = t => recordKey[w].dirty.rec = NoDoc
    BY <1>2, <1>4, <2>1 DEF Grip, KeyDeleted, KeyPointed
  <2>4. commitLog'[d].row = "none" /\ recordKey'[w].row.rec # d
    BY <1>1, <2>1, <2>2, <2>3, CommitRows DEF Sees
  <2> QED
    BY <1>2, <1>4, <2>4 DEF TrueAnswer
<1>5. CASE tx[t].kind = "associate"
  BY <1>5 DEF TrueAnswer
<1> QED
  BY <1>2, <1>3, <1>4, <1>5 DEF Course, Kinded

\* So does every other reply.
LEMMA ReplyAnswers ==
    ASSUME Integrity, NEW p \in Req, InFlight(p), Awake, NoRowChanges,
           tx'[Main(p)].pc = "ok" => FindCommit(Main(p)) \/ DeleteCommit(Main(p)),
           tx'[Main(p)].pc \in Replies
    PROVE  TrueAnswer(p)
<1> DEFINE t == Main(p)
           d == tx[t].doc
           u == tx[t].uri
<1>1. /\ t \in Tx /\ Parts /\ Course(tx[t]) /\ RowsResolve
      /\ tx[t].pc \in Pcs \ (Replies \cup {"new", "idle"})
  <2>1. t \in Tx
    BY DEF Main, Tx
  <2>2. tx[t] \in TxState /\ Parts /\ Course(tx[t])
    BY <2>1, IntegrityOf
  <2> QED
    BY <2>1, <2>2 DEF InFlight, Awake, TxState, Integrity
<1>2. CASE tx[t].kind = "create"
  <2>1. tx'[t].pc # "ok"
    BY <1>1, <1>2 DEF FindCommit, DeleteCommit, At, Course, Kinded
  <2> QED
    BY <1>2, <2>1 DEF TrueAnswer
<1>3. CASE tx[t].kind = "delete" /\ tx'[t].pc = "ok"
  <2>1. DeleteCommit(t) /\ tx[t].pc = "delete_commit"
    BY <1>1, <1>3 DEF FindCommit, DeleteCommit, At, Course, Kinded
  <2>2. SUFFICES ASSUME d # NoDoc
                 PROVE  commitLog'[d].row = "none" /\ recordKey'[UriOf(d)].row.rec # d
    BY <1>3 DEF TrueAnswer
  <2>3. d \in RecordDoc /\ d \in Doc /\ UriOf(d) \in Uri
    BY <1>1, <2>1, <2>2, DocumentKeys DEF Course, Written
  <2>4. commitLog[d].row = "none"
    <3>1. tx[t] \in TxState /\ tx \in [Tx -> TxState]
      BY <1>1 DEF Parts, TxInv
    <3>2. ~Goto(t, "delete_record")
      BY <1>1, <1>3, <3>1 DEF Goto, TxState
    <3> QED
      BY <2>1, <2>2, <3>2 DEF DeleteCommit
  <2>5. recordKey[UriOf(d)].row.rec # d
    BY <1>1, <2>2, <2>3, <2>4 DEF RowsResolve, Live
  <2> QED
    BY <1>1, <2>3, <2>4, <2>5, TablesTyped DEF NoRowChanges, SameRows
<1>4. CASE tx[t].kind = "get" /\ tx'[t].pc = "ok"
  <2>1. FindCommit(t) /\ tx[t].pc = "find_commit"
    BY <1>1, <1>4 DEF FindCommit, DeleteCommit, At, Course, Kinded
  <2>2. d # NoDoc /\ commitLog[d].row # "none"
    <3>1. tx \in [Tx -> TxState] /\ t[2] = "main"
      BY <1>1 DEF Parts, TxInv, Main
    <3> QED
      BY <1>1, <1>4, <2>1, <3>1 DEF FindCommit, Reply, Ended, Fresh
  <2>3. u # Root => UriOf(d) = u
    BY <1>1, <2>1, <2>2 DEF Course, Written
  <2> QED
    BY <1>4, <2>2, <2>3 DEF TrueAnswer
<1> QED
  BY <1>2, <1>3, <1>4 DEF TrueAnswer

\* Whatever else runs, fails or dies meanwhile, an ok tells what happened: a create
\* answered ok is in place, listed and announced; a delete answered ok has left no trace
\* of what it found; a get answers with what is stored for its URI (record.go:84-219,
\* 381-437).
THEOREM AnsweredTrulyAlways == Spec => AnsweredTruly
<1>1. ASSUME Integrity, Awake, [Next]_vars, NEW p \in Req
      PROVE  TrueAnswer(p)
  <2>1. SUFFICES ASSUME InFlight(p), tx'[Main(p)].pc \in Replies
                 PROVE  TrueAnswer(p)
    BY DEF TrueAnswer
  <2>2. Parts /\ Main(p) \in Tx /\ Main(p)[2] = "main" /\ tx \in [Tx -> TxState]
    BY <1>1, PartsOfInductive DEF Integrity, Parts, TxInv, Main, Tx
  <2>3. Ends(Main(p)) \/ (NoRowChanges /\ tx'[Main(p)].pc \in Replies \ {"ok"})
    BY <1>1, <2>1, <2>2, MainStep DEF InFlight, Begin, Goes
  <2>4. CASE Commit(Main(p))
    BY <1>1, <2>1, <2>4, CommitAnswers
  <2>5. ASSUME NEW r \in Replies, Fail(Main(p), r) \/ Reply(Main(p), r)
        PROVE  NoRowChanges /\ tx'[Main(p)].pc = r
    <3>1. tx'[Main(p)].pc = r
      BY <2>2, <2>5 DEF Fail, Reply, Ended, Fresh
    <3>2. {Main(p)} \in SUBSET Tx
      BY <2>2
    <3> QED
      BY <2>2, <2>5, <3>1, <3>2, RolledBackRows, TablesUntouched DEF Fail, Reply
  <2>6. CASE /\ NoRowChanges
             /\ tx'[Main(p)].pc = "ok" => FindCommit(Main(p)) \/ DeleteCommit(Main(p))
    BY <1>1, <2>1, <2>6, ReplyAnswers
  <2> QED
    BY <2>3, <2>4, <2>5, <2>6 DEF Ends, Replies
<1>2. Integrity /\ Awake /\ [Next]_vars => [\A p \in Req : TrueAnswer(p)]_vars
  BY <1>1
<1> QED
  BY <1>2, IntegrityAlways, AwakeAlways, PTL DEF Spec, AnsweredTruly

-----------------------------------------------------------------------------
(* What a request leaves behind when it is cut short.                      *)

\* Only a transaction that is under way runs a statement,
LEMMA StatementPc ==
    ASSUME NEW t \in Tx, Statement(t)
    PROVE  tx[t].pc \notin Replies \cup {"new", "idle"}
<1>1. CASE Create(t)
  BY <1>1 DEF Create, InsertCommit, InsertRecord, LockKey, Climb, Plant, Point, FlagOld,
     DropOld, Distribute, Publish, Commit, At, Replies
<1>2. CASE Associate(t) \/ Find(t) \/ Delete(t)
  BY <1>2 DEF Associate, FindTarget, InsertAssociation, Find, FindById, FindKey, FindRecord,
     FindCommit, Delete, DeleteCommit, DeleteRecord, DeleteKey, At, Replies
<1> QED
  BY <1>1, <1>2 DEF Statement

\* and only one that runs a statement that may have to wait can be in a deadlock.
LEMMA NeverWaits ==
    ASSUME NEW t \in Tx,
           tx[t].pc \in Replies \cup {"new", "idle", "distribute", "publish", "commit"}
    PROVE  Blockers(t) = {}
  BY DEF Blockers, Replies

\* The loop over memberOf, the publication and the commit have statements of their own.
LEMMA LastStatements ==
    ASSUME NEW t \in Tx, Statement(t), tx[t].pc \in {"distribute", "publish", "commit"}
    PROVE  \/ tx[t].pc = "distribute" /\ Distribute(t)
           \/ tx[t].pc = "publish" /\ Publish(t)
           \/ tx[t].pc = "commit" /\ Commit(t)
<1>1. CASE Create(t)
  BY <1>1 DEF Create, InsertCommit, InsertRecord, LockKey, Climb, Plant, Point, FlagOld,
     DropOld, Distribute, Publish, Commit, At
<1>2. CASE Associate(t) \/ Find(t) \/ Delete(t)
  BY <1>2 DEF Associate, FindTarget, InsertAssociation, Find, FindById, FindKey, FindRecord,
     FindCommit, Delete, DeleteCommit, DeleteRecord, DeleteKey, At
<1> QED
  BY <1>1, <1>2 DEF Statement

\* A statement that does not end its transaction leaves it with its subject, but for the
\* lookup that finds it.
LEMMA StatementSubject ==
    ASSUME Parts, NEW t \in Tx, Statement(t), \A r : tx'[t] # Ended(t, r)
    PROVE  /\ tx'[t].kind = tx[t].kind /\ tx'[t].uri = tx[t].uri
           /\ tx'[t].doc = tx[t].doc \/ FindRecord(t)
<1>1. tx \in [Tx -> TxState]
  BY DEF Parts, TxInv
<1>2. \A r : ~Fail(t, r) /\ ~Reply(t, r)
  BY <1>1 DEF Fail, Reply
<1>3. ASSUME NEW pc, Goto(t, pc)
      PROVE  /\ tx'[t].kind = tx[t].kind /\ tx'[t].uri = tx[t].uri
             /\ tx'[t].doc = tx[t].doc
  BY <1>1, <1>3 DEF Goto, TxState
<1>4. CASE Create(t)
  <2>1. CASE \/ InsertCommit(t) \/ InsertRecord(t) \/ Point(t) \/ FlagOld(t) \/ DropOld(t)
             \/ Publish(t)
    BY <1>2, <1>3, <2>1 DEF InsertCommit, InsertRecord, Point, FlagOld, DropOld, Publish
  <2>2. CASE LockKey(t) \/ Climb(t) \/ Plant(t)
    BY <1>1, <1>2, <2>2 DEF LockKey, Climb, Found, Missing, Plant, TxState
  <2>3. CASE Distribute(t)
    <3>1. tx[t].pc = "distribute"
      BY <2>3 DEF Distribute, At
    <3>2. CASE Goto(t, "publish")
      BY <1>3, <3>2
    <3>3. CASE ~Goto(t, "publish")
      <4>1. \E c \in tx[t].todo : \E new :
              /\ tx[Ref(t[1])].pc = "idle"
              /\ tx' = [tx EXCEPT ![t].todo = Remaining(@, c), ![Ref(t[1])] = new]
        BY <2>3, <3>3 DEF Distribute
      <4>2. t # Ref(t[1])
        BY <3>1, <4>1
      <4> QED
        BY <1>1, <4>1, <4>2 DEF TxState
    <3> QED
      BY <3>2, <3>3
  <2>4. CASE Commit(t)
    BY <1>1, <2>4 DEF Commit
  <2> QED
    BY <1>4, <2>1, <2>2, <2>3, <2>4 DEF Create
<1>5. CASE Associate(t)
  BY <1>1, <1>2, <1>3, <1>5 DEF Associate, FindTarget, InsertAssociation, TxState
<1>6. CASE Find(t)
  <2>1. CASE FindById(t) \/ FindKey(t) \/ FindCommit(t)
    BY <1>1, <1>2, <1>3, <2>1 DEF FindById, FindKey, FindCommit, TxState
  <2>2. CASE FindRecord(t)
    BY <1>1, <2>2 DEF FindRecord, TxState
  <2> QED
    BY <1>6, <2>1, <2>2 DEF Find
<1>7. CASE Delete(t)
  BY <1>2, <1>3, <1>7 DEF Delete, DeleteCommit, DeleteRecord, DeleteKey
<1> QED
  BY <1>4, <1>5, <1>6, <1>7 DEF Statement

\* A request that has been answered is not touched any more.
LEMMA RepliedStays ==
    ASSUME Parts, [Next]_vars, NEW p \in Req, tx[Main(p)].pc \in Replies
    PROVE  tx'[Main(p)] = tx[Main(p)]
<1> DEFINE t == Main(p)
<1>1. t \in Tx /\ t[1] = p /\ tx \in [Tx -> TxState] /\ tx[t].pc \notin {"new", "idle"}
  BY DEF Parts, TxInv, Main, Tx, Replies
<1>2. ~InFlight(p)
  BY DEF InFlight
<1>3. CASE UNCHANGED vars
  BY <1>3 DEF vars
<1>4. ASSUME NEW q \in Req, Begin(q)
      PROVE  tx'[t] = tx[t]
  <2>1. Main(q) # t
    BY <1>1, <1>4 DEF Begin
  <2> QED
    BY <1>1, <1>4, <2>1 DEF Begin
<1>5. ASSUME NEW q \in Req, Cancel(q)
      PROVE  tx'[t] = tx[t]
  <2>1. q # p
    BY <1>2, <1>5 DEF Cancel
  <2> QED
    BY <1>1, <1>5, <2>1 DEF Cancel, Over
<1>6. CASE Crash
  BY <1>1, <1>2, <1>6 DEF Crash, Over
<1>7. ASSUME NEW x \in Tx, Statement(x)
      PROVE  tx'[t] = tx[t]
  <2>1. x # t
    BY <1>7, StatementPc
  <2>2. t # Ref(x[1])
    BY DEF Main, Ref
  <2> QED
    BY <1>1, <1>7, <2>1, <2>2, StatementOfOne
<1>8. ASSUME NEW x \in Tx, DeadlockAbort(x) \/ CommitFails(x)
      PROVE  tx'[t] = tx[t]
  <2>1. x # t
    BY <1>8, NeverWaits DEF DeadlockAbort, CommitFails, At, Replies
  <2> QED
    BY <1>1, <1>8, <2>1 DEF DeadlockAbort, CommitFails, Fail
<1> QED
  BY <1>3, <1>4, <1>5, <1>6, <1>7, <1>8 DEF Next, Quiet

\* A request keeps what it is about, unless a lookup is to find it.
LEMMA MainSubject ==
    ASSUME Integrity, [Next]_vars, NEW p \in Req
    PROVE  \/ tx'[Main(p)] = tx[Main(p)]
           \/ Begin(p)
           \/ /\ tx[Main(p)].pc \notin Replies \cup {"new"}
              /\ tx'[Main(p)].kind = tx[Main(p)].kind
              /\ \/ tx'[Main(p)].doc = tx[Main(p)].doc
                 \/ tx[Main(p)].kind \in {"delete", "get"}
<1> DEFINE t == Main(p)
<1>1. /\ t \in Tx /\ t[1] = p /\ t[2] = "main" /\ Parts /\ tx \in [Tx -> TxState]
      /\ Course(tx[t])
  <2>1. t \in Tx /\ t[1] = p /\ t[2] = "main"
    BY DEF Main, Tx
  <2> QED
    BY <2>1, IntegrityOf DEF Parts, TxInv
<1>2. \A r : Ended(t, r).kind = tx[t].kind /\ Ended(t, r).doc = tx[t].doc
  BY <1>1 DEF Ended, Fresh
<1>3. CASE tx[t].pc \in Replies
  BY <1>1, <1>3, RepliedStays
<1>4. CASE UNCHANGED vars
  BY <1>4 DEF vars
<1>5. ASSUME NEW q \in Req, Begin(q), q # p
      PROVE  tx'[t] = tx[t]
  <2>1. Main(q) # t
    BY <1>5 DEF Main
  <2> QED
    BY <1>1, <1>5, <2>1 DEF Begin
<1>6. ASSUME NEW q \in Req, Cancel(q) \/ Crash
      PROVE  \/ tx'[t] = tx[t]
             \/ InFlight(p) /\ \E r : tx'[t] = Ended(t, r)
  BY <1>1, <1>6 DEF Cancel, Crash, Over
<1>7. ASSUME NEW x \in Tx, Statement(x), x # t
      PROVE  tx'[t] = tx[t]
  <2>1. t # Ref(x[1])
    BY DEF Main, Ref
  <2> QED
    BY <1>1, <1>7, <2>1, StatementOfOne
<1>8. CASE Statement(t)
  <2>1. tx[t].pc \notin Replies \cup {"new", "idle"}
    BY <1>1, <1>8, StatementPc
  <2>2. FindRecord(t) => tx[t].kind \in {"delete", "get"}
    BY <1>1 DEF FindRecord, At, Course, Kinded
  <2> QED
    BY <1>1, <1>2, <1>8, <2>1, <2>2, StatementSubject
<1>9. ASSUME NEW x \in Tx, DeadlockAbort(x) \/ CommitFails(x)
      PROVE  \/ tx'[t] = tx[t]
             \/ /\ tx[t].pc \notin Replies \cup {"new"}
                /\ \E r : tx'[t] = Ended(t, r)
  <2>1. CASE x = t
    <3>1. tx[t].pc \notin Replies \cup {"new"}
      BY <1>9, <2>1, NeverWaits DEF DeadlockAbort, CommitFails, At, Replies
    <3>2. \E r : Fail(t, r)
      BY <1>9, <2>1 DEF DeadlockAbort, CommitFails
    <3> QED
      BY <1>1, <3>1, <3>2 DEF Fail
  <2>2. CASE x # t
    BY <1>1, <1>9, <2>2 DEF DeadlockAbort, CommitFails, Fail
  <2> QED
    BY <2>1, <2>2
<1> QED
  BY <1>2, <1>4, <1>5, <1>6, <1>7, <1>8, <1>9 DEF Next, Quiet, InFlight

\* The nested transaction keeps what it was started for.
LEMMA RefSubject ==
    ASSUME Integrity, OnBehalf, [Next]_vars, NEW p \in Req, tx'[Ref(p)].pc # "idle"
    PROVE  LET r == tx'[Ref(p)] IN
           r.kind = "create" /\ r.doc \in RefDoc /\ r.doc.by = p /\ r.doc.of = tx'[Main(p)].doc
<1> DEFINE t == Main(p)
           x == Ref(p)
           Tied(r) == /\ r.kind = "create" /\ r.doc \in RefDoc /\ r.doc.by = p
                      /\ r.doc.of = tx'[t].doc
<1>1. /\ t \in Tx /\ t[1] = p /\ t[2] = "main" /\ x \in Tx /\ x[1] = p /\ x[2] = "ref"
      /\ t # x /\ Parts /\ tx \in [Tx -> TxState] /\ Course(tx[t]) /\ Course(tx[x])
      /\ WellDirected(tx[t])
  <2>1. /\ t \in Tx /\ t[1] = p /\ t[2] = "main" /\ x \in Tx /\ x[1] = p /\ x[2] = "ref"
        /\ t # x
    BY DEF Main, Ref, Tx
  <2> QED
    BY <2>1, IntegrityOf DEF Parts, TxInv
<1>2. \A y \in Tx : y[1] = p <=> y \in {t, x}
  BY DEF Main, Ref, Tx
<1>3. \A r : Ended(x, r).pc = "idle"
  BY <1>1 DEF Ended, Fresh
<1>4. tx[x].pc # "idle" => tx[t].pc = "distribute" /\ Blockers(t) = {}
  BY <1>1, NeverWaits DEF Integrity, Nested
<1>5. tx[x].pc # "idle" => /\ tx[x].kind = "create" /\ tx[x].doc \in RefDoc
                           /\ tx[x].doc.by = p /\ tx[x].doc.of = tx[t].doc
  BY DEF OnBehalf
<1>6. CASE tx'[x] = tx[x] /\ tx'[t].doc = tx[t].doc
  BY <1>5, <1>6
<1>7. CASE UNCHANGED vars
  BY <1>6, <1>7 DEF vars
<1>8. ASSUME NEW q \in Req, Begin(q)
      PROVE  Tied(tx'[x])
  <2>1. tx'[x] = tx[x] /\ Main(q) # x
    BY <1>1, <1>8 DEF Begin, Main, Ref
  <2>2. Main(q) # t
    BY <1>4, <1>8, <2>1 DEF Begin
  <2>3. tx'[t] = tx[t]
    BY <1>1, <1>8, <2>2 DEF Begin
  <2> QED
    BY <1>6, <2>1, <2>3
<1>9. ASSUME NEW q \in Req, Cancel(q) \/ Crash
      PROVE  Tied(tx'[x])
  <2>1. tx'[x] = tx[x] /\ tx'[t] = tx[t]
    BY <1>1, <1>3, <1>9 DEF Cancel, Crash, Over
  <2> QED
    BY <1>6, <2>1
<1>10. ASSUME NEW y \in Tx, DeadlockAbort(y) \/ CommitFails(y)
       PROVE  Tied(tx'[x])
  <2>1. PICK r : Fail(y, r)
    BY <1>10 DEF DeadlockAbort, CommitFails
  <2>2. y # x /\ tx'[x] = tx[x]
    BY <1>1, <1>3, <2>1 DEF Fail
  <2>3. y # t
    BY <1>4, <1>10, <2>2 DEF DeadlockAbort, CommitFails, At
  <2> QED
    BY <1>1, <1>6, <2>1, <2>2, <2>3 DEF Fail
<1>11. ASSUME NEW y \in Tx \ {t, x}, Statement(y)
       PROVE  Tied(tx'[x])
  <2>1. Ref(y[1]) \notin {t, x}
    BY <1>1, <1>2 DEF Ref
  <2>2. tx'[x] = tx[x] /\ tx'[t] = tx[t]
    BY <1>1, <1>11, <2>1, StatementOfOne
  <2> QED
    BY <1>6, <2>2
<1>12. CASE Statement(x)
  <2>1. tx[x].pc # "idle"
    BY <1>1, <1>12, StatementPc
  <2>2. tx'[t] = tx[t]
    BY <1>1, <1>12, StatementOfOne
  <2>3. ~FindRecord(x)
    BY <1>1, <1>5, <2>1 DEF FindRecord, At, Course, Kinded
  <2>4. tx'[x].kind = tx[x].kind /\ tx'[x].doc = tx[x].doc
    BY <1>1, <1>3, <1>12, <2>3, StatementSubject
  <2> QED
    BY <1>5, <2>1, <2>2, <2>4
<1>13. CASE Statement(t)
  <2>1. CASE ~Distribute(t)
    <3>1. tx[x].pc = "idle"
      BY <1>1, <1>4, <1>13, <2>1, LastStatements
    <3>2. tx'[x] = tx[x]
      BY <1>1, <1>13, <2>1, StatementOfOne
    <3> QED
      BY <3>1, <3>2
  <2>2. CASE Distribute(t)
    <3>1. tx[t].pc = "distribute" /\ x = Ref(t[1])
      BY <1>1, <2>2 DEF Distribute, At
    <3>2. tx[x].pc = "idle"
      BY <1>1, <2>2, <3>1 DEF Distribute
    <3>3. ~Goto(t, "publish")
      BY <1>1, <3>2 DEF Goto
    <3>4. PICK c \in tx[t].todo :
            tx' = [tx EXCEPT
                    ![t].todo = Remaining(@, c),
                    ![x] = [Fresh("insert_commit") EXCEPT
                        !.doc = [of |-> tx[t].doc, in |-> c, by |-> p],
                        !.uri = RefUri(t, c)]]
      BY <1>1, <2>2, <3>1, <3>3 DEF Distribute
    <3>5. /\ tx'[x].kind = "create" /\ tx'[x].doc = [of |-> tx[t].doc, in |-> c, by |-> p]
          /\ tx'[t].doc = tx[t].doc
      BY <1>1, <3>4 DEF Fresh, TxState
    <3>6. tx[t].doc \in UserDoc /\ c \in MemberOf[tx[t].doc]
      BY <1>1, <3>4 DEF WellDirected
    <3>7. tx'[x].doc \in RefDoc
      BY <3>5, <3>6 DEF RefDoc
    <3> QED
      BY <3>5, <3>7
  <2> QED
    BY <2>1, <2>2
<1> QED
  BY <1>7, <1>8, <1>9, <1>10, <1>11, <1>12, <1>13 DEF Next, Quiet

\* OnBehalf is inductive relative to Integrity.
LEMMA NextOnBehalf ==
    ASSUME Integrity, OnBehalf, [Next]_vars
    PROVE  OnBehalf'
<1>1. ASSUME NEW p \in Req, tx'[Main(p)].kind = "create", tx'[Main(p)].pc # "new"
      PROVE  tx'[Main(p)].doc \in UserDoc
  <2>1. CASE Begin(p)
    <3>1. Main(p) \in Tx /\ tx \in [Tx -> TxState]
      BY PartsOfInductive DEF Integrity, Parts, TxInv, Main, Tx
    <3>2. PICK o \in Menu[p] : tx'[Main(p)].kind = o.kind /\ tx'[Main(p)].doc = o.doc
      BY <2>1, <3>1 DEF Begin, Fresh
    <3> QED
      BY <1>1, <3>2, MenuAssumption
  <2>2. CASE tx'[Main(p)] = tx[Main(p)]
    BY <1>1, <2>2 DEF OnBehalf
  <2> QED
    BY <1>1, <2>1, <2>2, MainSubject DEF OnBehalf
<1> QED
  BY <1>1, RefSubject DEF OnBehalf

\* Only a publication that succeeds adds to what is published, and a commit follows it.
LEMMA PublishedStep ==
    ASSUME Parts, [Next]_vars, NEW d, d \in published', d \notin published
    PROVE  \E t \in Tx : Publish(t) /\ tx[t].doc = d /\ Goto(t, "commit")
<1>1. \A S \in SUBSET Tx : ~Rollback(S)
  BY DEF Rollback
<1>2. \A t \in Tx : \A r : ~Fail(t, r)
  BY <1>1 DEF Fail
<1>3. CASE UNCHANGED vars \/ \E p \in Req : Begin(p)
  BY <1>3 DEF vars, Begin
<1>4. CASE \/ Crash \/ (\E p \in Req : Cancel(p))
           \/ (\E t \in Tx : DeadlockAbort(t) \/ CommitFails(t))
  BY <1>2, <1>4 DEF Crash, Cancel, DeadlockAbort, CommitFails, Rollback
<1>5. ASSUME NEW t \in Tx, Statement(t)
      PROVE  Publish(t)
  <2>1. CASE Create(t)
    BY <1>2, <2>1 DEF Create, InsertCommit, InsertRecord, LockKey, Climb, Plant, Point,
       FlagOld, DropOld, Distribute, Commit
  <2>2. CASE Associate(t)
    BY <1>2, <2>2 DEF Associate, FindTarget, InsertAssociation
  <2>3. CASE Find(t) \/ Delete(t)
    BY <2>3 DEF Find, FindById, FindKey, FindRecord, FindCommit, Reply, Delete,
       DeleteCommit, DeleteRecord, DeleteKey
  <2> QED
    BY <1>5, <2>1, <2>2, <2>3 DEF Statement
<1>6. \A t \in Tx : Publish(t) => tx[t].doc = d /\ Goto(t, "commit")
  BY <1>2 DEF Publish
<1> QED
  BY <1>3, <1>4, <1>5, <1>6 DEF Next, Quiet

\* A creation or an association that commits leaves its document stored.
LEMMA StoredByThen ==
    ASSUME Integrity, Integrity', NEW t \in Tx, Commit(t), tx[t].kind # "delete"
    PROVE  commitLog'[tx[t].doc].row # "none"
<1> DEFINE d == tx[t].doc
<1>1. Grip(t) /\ Course(tx[t]) /\ tx[t].pc = "commit" /\ RowsResolve'
  BY IntegrityOf DEF Commit, At, Integrity
<1>2. CASE tx[t].kind = "create"
  <2>1. d \in RecordDoc /\ d # NoDoc
    BY <1>1, <1>2, DocumentKeys DEF Course, Written, Listed, Pointed
  <2>2. Sees(record, d, t)
    <3>1. tx[t].uri \in Uri
      BY <1>1, <1>2, DocumentKeys DEF Course, Written, Listed, Pointed
    <3>2. recordKey[tx[t].uri].by = t /\ recordKey[tx[t].uri].dirty.rec = d
      BY <1>1, <1>2 DEF Grip, KeyPointed, Pointed
    <3> QED
      BY <1>1, <2>1, <3>1, <3>2 DEF Grip, KeyPointed
  <2>3. record'[d].row
    BY <2>1, <2>2, IntegrityOf, CommitRows
  <2> QED
    BY <1>1, <2>1, <2>3 DEF RowsResolve
<1>3. CASE tx[t].kind = "associate"
  <2>1. d \in Doc /\ Sees(commitLog, d, t) # "none"
    BY <1>1, <1>3, DocumentKeys DEF Course, Written, Grip, CommitHeld, Attaching
  <2> QED
    BY <2>1, IntegrityOf, CommitRows
<1> QED
  BY <1>1, <1>2, <1>3 DEF Course, Kinded

\* A commit that goes is the one a request deletes, which is answered ok.
LEMMA GoneIsDeleted ==
    ASSUME Integrity, OnBehalf, [Next]_vars,
           NEW d \in Doc, commitLog[d].row # "none", commitLog'[d].row = "none"
    PROVE  Deleted(d)'
<1>1. Parts
  BY PartsOfInductive DEF Integrity
<1>2. ~NoRowChanges
  BY <1>1, LogTyped DEF NoRowChanges, SameRows
<1>3. PICK t \in Tx : Commit(t)
  BY <1>1, <1>2, OnlyCommits
<1>4. Grip(t) /\ tx[t].pc = "commit" /\ tx \in [Tx -> TxState]
  BY <1>1, <1>3, IntegrityOf DEF Commit, At, Parts, TxInv
<1>5. commitLog[d].by = t /\ commitLog[d].dirty = "none"
  BY <1>1, <1>3, CommitRows DEF Sees
<1>6. tx[t].kind = "delete" /\ tx[t].doc = d
  BY <1>4, <1>5 DEF Grip, CommitHeld
<1>7. PICK p \in Req : t = Main(p)
  <2>1. \A p \in Req : t # Ref(p)
    BY <1>4, <1>6 DEF OnBehalf
  <2> QED
    BY <2>1 DEF Tx, Main, Ref
<1>8. tx'[t] = Ended(t, "ok") /\ t[2] = "main"
  BY <1>3, <1>4, <1>7 DEF Commit, Main
<1>9. tx'[t].kind = "delete" /\ tx'[t].doc = d /\ tx'[t].pc = "ok"
  BY <1>6, <1>8 DEF Ended, Fresh
<1> QED
  BY <1>7, <1>9 DEF Deleted

\* What has been deleted stays so,
LEMMA DeletedStays ==
    ASSUME Parts, [Next]_vars, NEW d, Deleted(d)
    PROVE  Deleted(d)'
<1>1. PICK p \in Req : tx[Main(p)].kind = "delete" /\ tx[Main(p)].doc = d /\ tx[Main(p)].pc = "ok"
  BY DEF Deleted
<1>2. tx'[Main(p)] = tx[Main(p)]
  BY <1>1, RepliedStays DEF Replies
<1> QED
  BY <1>1, <1>2 DEF Deleted

\* and a transaction about to commit commits, or is cut short.
LEMMA StoringStep ==
    ASSUME Integrity, Integrity', OnBehalf, [Next]_vars, NEW t \in Tx, NEW d, Storing(t, d)
    PROVE  \/ Storing(t, d)'
           \/ \E p \in Req : CutShort(p, d)'
           \/ d \in RefDoc /\ "commit" \in Faults
           \/ commitLog'[d].row # "none"
<1>1. /\ Parts /\ tx \in [Tx -> TxState] /\ Course(tx[t]) /\ Blockers(t) = {}
      /\ tx[t].pc = "commit" /\ tx[t].doc = d /\ tx[t].kind \in {"create", "associate"}
  BY IntegrityOf, NeverWaits DEF Parts, TxInv, Storing, Course, Kinded
<1>2. PICK p \in Req : t \in {Main(p), Ref(p)} /\ t[1] = p
  BY DEF Tx, Main, Ref
<1>3. CASE tx'[t] = tx[t]
  BY <1>1, <1>3 DEF Storing
<1>4. CASE Statement(t)
  BY <1>1, <1>4, LastStatements, StoredByThen
<1>5. ASSUME NEW x \in Tx, Statement(x), x # t
      PROVE  tx'[t] = tx[t]
  <2>1. Distribute(x) => t # Ref(x[1])
    <3>1. SUFFICES ASSUME Distribute(x), t = Ref(x[1])
                   PROVE  FALSE
      OBVIOUS
    <3>2. tx[x].pc = "distribute" /\ tx[t].pc # "idle"
      BY <1>1, <3>1 DEF Distribute, At
    <3>3. x[2] = "main"
      BY <1>5, <3>1 DEF Tx, Ref
    <3>4. Goto(x, "publish")
      BY <3>1, <3>2 DEF Distribute
    <3> QED
      BY <3>1, <3>2, <3>3 DEF Distribute
  <2> QED
    BY <1>1, <1>5, <2>1, StatementOfOne
<1>6. ASSUME NEW x \in Tx, DeadlockAbort(x) \/ (CommitFails(x) /\ x # t)
      PROVE  tx'[t] = tx[t]
  BY <1>1, <1>6 DEF DeadlockAbort, CommitFails, Fail
<1>7. ASSUME NEW q \in Req, Begin(q)
      PROVE  tx'[t] = tx[t]
  BY <1>1, <1>7 DEF Begin
<1>9. CASE CommitFails(t)
  <2>1. CASE t = Ref(p)
    BY <1>1, <1>9, <2>1 DEF CommitFails, OnBehalf
  <2>2. CASE t = Main(p)
    <3>1. d \notin RefDoc
      BY <1>1, <2>2, KeysAssumption DEF OnBehalf, Course, Written, Attaching
    <3>2. t[2] = "main"
      BY <2>2 DEF Main
    <3>3. tx'[t].pc = "uncommitted" /\ tx'[t].doc = d
      BY <1>1, <1>9, <3>2 DEF CommitFails, Fail, Ended, Fresh
    <3> QED
      BY <2>2, <3>1, <3>3 DEF CutShort
  <2> QED
    BY <1>2, <2>1, <2>2
<1>8. ASSUME tx'[t] # tx[t], Crash \/ \E q \in Req : Cancel(q)
      PROVE  CutShort(p, d)'
  <2>1. /\ Main(p) \in Tx /\ Main(p)[1] = p /\ Main(p)[2] = "main"
    BY DEF Main, Tx
  <2>2. PICK r \in {"cancelled", "crashed"} : tx'[Main(p)] = Ended(Main(p), r)
    BY <1>1, <1>2, <1>8, <2>1 DEF Crash, Cancel, Over
  <2>3. tx'[Main(p)].pc \in {"cancelled", "crashed"} /\ tx'[Main(p)].doc = tx[Main(p)].doc
    BY <2>1, <2>2 DEF Ended, Fresh
  <2>4. CASE t = Ref(p)
    BY <1>1, <2>3, <2>4 DEF OnBehalf, CutShort
  <2>5. CASE t = Main(p)
    <3>1. d \in UserDoc \/ d \in AssocDoc
      BY <1>1, <2>5 DEF OnBehalf, Course, Written, Attaching
    <3>2. d \notin RefDoc
      BY <3>1, KeysAssumption
    <3> QED
      BY <1>1, <2>3, <2>5, <3>2 DEF CutShort
  <2> QED
    BY <1>2, <2>4, <2>5
<1> QED
  BY <1>3, <1>4, <1>5, <1>6, <1>7, <1>8, <1>9 DEF Next, Quiet, vars

\* AnnouncedUnlessFault is inductive relative to the above,
LEMMA NextAnnounced ==
    ASSUME Integrity, Integrity', OnBehalf, AnnouncedUnlessFault, [Next]_vars
    PROVE  AnnouncedUnlessFault'
<1>1. Parts /\ Parts' /\ tx \in [Tx -> TxState] /\ published' \subseteq Doc
  BY PartsOfInductive, NextParts DEF Integrity, Parts, TxInv, RestTyped
<1>2. SUFFICES ASSUME NEW d \in Doc, d \in published', commitLog'[d].row = "none"
               PROVE  \/ \E t \in Tx : Storing(t, d)'
                      \/ \E p \in Req : CutShort(p, d)'
                      \/ d \in RefDoc /\ "commit" \in Faults
                      \/ Deleted(d)'
  BY <1>1 DEF AnnouncedUnlessFault
<1>3. CASE d \notin published
  <2>1. PICK t \in Tx : Publish(t) /\ tx[t].doc = d /\ Goto(t, "commit")
    BY <1>1, <1>2, <1>3, PublishedStep
  <2>2. tx[t].kind # "delete"
    <3>1. Course(tx[t])
      BY IntegrityOf
    <3> QED
      BY <2>1, <3>1 DEF Publish, At, Course, Kinded
  <2>3. Storing(t, d)'
    BY <1>1, <2>1, <2>2 DEF Goto, Storing, TxState
  <2> QED
    BY <2>3
<1>4. CASE commitLog[d].row # "none"
  BY <1>2, <1>4, GoneIsDeleted
<1>5. CASE \E t \in Tx : Storing(t, d)
  BY <1>2, <1>5, StoringStep
<1>6. ASSUME NEW p \in Req, CutShort(p, d)
      PROVE  CutShort(p, d)'
  <2>1. tx'[Main(p)] = tx[Main(p)]
    BY <1>1, <1>6, RepliedStays DEF CutShort, Replies
  <2> QED
    BY <1>6, <2>1 DEF CutShort
<1>7. CASE Deleted(d)
  BY <1>1, <1>7, DeletedStays
<1> QED
  BY <1>3, <1>4, <1>5, <1>6, <1>7 DEF AnnouncedUnlessFault

\* and so is DanglingOnlyAfterFault.
LEMMA NextDangling ==
    ASSUME Integrity, Integrity', OnBehalf, DanglingOnlyAfterFault, [Next]_vars
    PROVE  DanglingOnlyAfterFault'
<1>1. Parts /\ KeysInv /\ tx \in [Tx -> TxState] /\ Nested
  BY PartsOfInductive DEF Integrity, Parts, TxInv
<1>2. SUFFICES ASSUME NEW u \in Uri, NEW r \in RefDoc, recordKey'[u].row.rec = r,
                      commitLog'[r.of].row = "none"
               PROVE  \/ Distributing(r.by, r.of)'
                      \/ tx'[Main(r.by)].pc \in {"unpublished", "uncommitted", "cancelled", "crashed"}
                      \/ Deleted(r.of)'
  BY DEF DanglingOnlyAfterFault, Live
<1> DEFINE p == r.by
           d == r.of
           t == Main(p)
<1>3. /\ p \in Req /\ d \in UserDoc /\ d \in Doc /\ r \in RecordDoc /\ r # NoDoc
      /\ t \in Tx /\ t[1] = p /\ t[2] = "main"
  BY DocumentKeys DEF RefDoc, Doc, RecordDoc, Main, Tx
<1> HIDE DEF p, d, t
<1>4. CASE commitLog[d].row # "none"
  BY <1>2, <1>3, <1>4, GoneIsDeleted DEF d
<1>5. CASE Live(u) # r
  <2>1. ~NoRowChanges
    BY <1>1, <1>2, <1>5, KeyTyped DEF NoRowChanges, SameRows, Live
  <2>2. PICK x \in Tx : Commit(x)
    BY <1>1, <2>1, OnlyCommits
  <2>3. /\ recordKey[u].by = x /\ recordKey[u].dirty.rec = r
        /\ Grip(x) /\ Course(tx[x]) /\ tx[x].pc = "commit"
    BY <1>1, <1>2, <1>5, <2>2, CommitRows, IntegrityOf, ZenonT(40) DEF Sees, Live, Commit, At
  <2>4. tx[x].kind = "create" /\ tx[x].doc = r
    BY <1>3, <2>3 DEF Grip, KeyPointed
  <2>5. PICK q \in Req : x = Ref(q)
    <3>1. \A q \in Req : x # Main(q)
      BY <2>3, <2>4, KeysAssumption DEF OnBehalf
    <3> QED
      BY <3>1 DEF Tx, Main, Ref
  <2>6. q = p /\ d = tx[t].doc
    BY <2>3, <2>4, <2>5 DEF OnBehalf, p, d, t
  <2>7. tx[t].pc = "distribute" /\ x # t
    BY <1>1, <1>3, <2>3, <2>5, <2>6 DEF Nested, t, Main, Ref
  <2>8. tx[t].kind = "create"
    BY <1>3, <2>7, IntegrityOf DEF Course, Kinded
  <2>9. tx'[t] = tx[t]
    BY <1>1, <1>3, <2>2, <2>7 DEF Commit
  <2> QED
    BY <2>6, <2>7, <2>8, <2>9 DEF Distributing, p, d, t
<1>6. CASE Deleted(d)
  BY <1>1, <1>6, DeletedStays DEF d
<1>7. CASE tx[t].pc \in {"unpublished", "uncommitted", "cancelled", "crashed"}
  BY <1>1, <1>3, <1>7, RepliedStays DEF Replies, t, p
<1>8. CASE Distributing(p, d)
  <2>1. /\ tx[t].kind = "create" /\ tx[t].doc = d /\ Blockers(t) = {}
        /\ tx[t].pc \in {"distribute", "publish", "commit"}
    BY <1>3, <1>8, NeverWaits DEF Distributing, t
  <2>2. SUFFICES ASSUME tx'[t] # tx[t]
                 PROVE  \/ /\ tx'[t].kind = "create" /\ tx'[t].doc = d
                           /\ tx'[t].pc \in {"distribute", "publish", "commit"}
                        \/ tx'[t].pc \in {"unpublished", "uncommitted", "cancelled", "crashed"}
    BY <2>1 DEF Distributing, p, d, t
  <2>3. \A e : Ended(t, e).pc = e
    BY <1>3 DEF Ended, Fresh
  <2>4. CASE Crash \/ \E q \in Req : Cancel(q)
    BY <1>3, <2>2, <2>3, <2>4 DEF Crash, Cancel, Over
  <2>5. CASE \E q \in Req : Begin(q)
    BY <1>1, <2>1, <2>2, <2>5 DEF Begin
  <2>6. CASE \E x \in Tx : DeadlockAbort(x) \/ CommitFails(x)
    <3>1. CASE Fail(t, "uncommitted")
      BY <1>1, <1>3, <2>3, <3>1 DEF Fail
    <3>2. CASE ~Fail(t, "uncommitted")
      <4>1. PICK x \in Tx : DeadlockAbort(x) \/ CommitFails(x)
        BY <2>6
      <4>2. x # t
        BY <2>1, <3>2, <4>1 DEF DeadlockAbort, CommitFails
      <4>3. \E e : Fail(x, e)
        BY <4>1 DEF DeadlockAbort, CommitFails
      <4> QED
        BY <1>1, <2>2, <4>2, <4>3 DEF Fail
    <3> QED
      BY <3>1, <3>2
  <2>7. CASE Statement(t)
    <3>1. CASE Publish(t)
      BY <1>1, <1>3, <2>1, <2>3, <3>1 DEF Publish, Fail, Goto, TxState
    <3>2. CASE Commit(t)
      <4>1. commitLog'[d].row # "none"
        BY <1>3, <2>1, <3>2, StoredByThen
      <4> QED
        BY <1>2, <4>1 DEF d
    <3>3. CASE Distribute(t)
      <4>1. tx'[t].kind = tx[t].kind /\ tx'[t].doc = tx[t].doc
            /\ tx'[t].pc \in {"distribute", "publish"}
        <5>1. CASE Goto(t, "publish")
          BY <1>1, <1>3, <5>1 DEF Goto, TxState
        <5>2. CASE ~Goto(t, "publish")
          <6>1. t # Ref(t[1]) /\ tx[t].pc = "distribute"
            BY <1>3, <3>3 DEF Ref, Distribute, At
          <6>2. \E c \in tx[t].todo : \E new :
                  tx' = [tx EXCEPT ![t].todo = Remaining(@, c), ![Ref(t[1])] = new]
            BY <3>3, <5>2 DEF Distribute
          <6> QED
            BY <1>1, <1>3, <6>1, <6>2 DEF TxState
        <5> QED
          BY <5>1, <5>2
      <4> QED
        BY <2>1, <4>1
    <3> QED
      BY <1>3, <2>1, <2>7, <3>1, <3>2, <3>3, LastStatements
  <2>8. ASSUME NEW x \in Tx, Statement(x), x # t
        PROVE  FALSE
    <3>1. t # Ref(x[1])
      BY <1>3 DEF Ref
    <3> QED
      BY <1>1, <1>3, <2>2, <2>8, <3>1, StatementOfOne
  <2> QED
    BY <2>2, <2>4, <2>5, <2>6, <2>7, <2>8 DEF Next, Quiet, vars
<1> QED
  BY <1>2, <1>4, <1>5, <1>6, <1>7, <1>8 DEF DanglingOnlyAfterFault, p, d, t

\* Accounted is an invariant.
THEOREM AccountedAlways == Spec => []Accounted
<1>1. ASSUME Init
      PROVE  Accounted
  <2>1. Integrity
    BY <1>1, InitIntegrity
  <2>2. /\ commitLog = [d \in Doc |-> Cell(IF d \in Stored THEN "kept" ELSE "none")]
        /\ recordKey = [u \in Uri |-> Cell(StartKey(u))]
        /\ tx = [t \in Tx |-> Fresh(IF t[2] = "main" THEN "new" ELSE "idle")]
        /\ published = {}
    BY <1>1 DEF Init
  <2>3. OnBehalf
    BY <2>2 DEF OnBehalf, Main, Ref, Tx, Fresh
  <2>4. AnnouncedUnlessFault
    BY <2>2 DEF AnnouncedUnlessFault
  <2>5. DanglingOnlyAfterFault
    <3>1. ASSUME NEW u \in Uri, Live(u) \in RefDoc
          PROVE  FALSE
      <4>1. Live(u) = NoDoc \/ Live(u) \in Stored
        BY <2>2, <3>1 DEF Live, Cell, StartKey, NoKey
      <4> QED
        BY <3>1, <4>1, KeysAssumption, StartAssumption DEF Doc, RecordDoc
    <3> QED
      BY <3>1 DEF DanglingOnlyAfterFault
  <2> QED
    BY <2>1, <2>3, <2>4, <2>5 DEF Accounted
<1>2. ASSUME Accounted, [Next]_vars
      PROVE  Accounted'
  BY <1>2, NextIntegrity, NextOnBehalf, NextAnnounced, NextDangling DEF Accounted
<1> QED
  BY <1>1, <1>2, PTL DEF Spec

\* An event is about a document that is stored, unless its request was cancelled or the
\* server died between the publication and the COMMIT (record.go:211-219), or the document
\* was deleted.
THEOREM AnnouncedAlways == Spec => []AnnouncedUnlessFault
<1>1. Accounted => AnnouncedUnlessFault
  BY DEF Accounted
<1> QED
  BY <1>1, AccountedAlways, PTL

\* A reference dangles only behind a creation still past its last statement, or ended
\* there by a fault, or a delete (record.go:169-208).
THEOREM DanglingAlways == Spec => []DanglingOnlyAfterFault
<1>1. Accounted => DanglingOnlyAfterFault
  BY DEF Accounted
<1> QED
  BY <1>1, AccountedAlways, PTL
=============================================================================
