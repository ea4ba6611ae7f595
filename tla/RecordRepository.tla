-------------------------- MODULE RecordRepository --------------------------
(***************************************************************************)
(* The record repository (internal/infra/repository/record.go) behind the  *)
(* record usecase (internal/usecase/record.go): concurrent requests that   *)
(* create, associate, delete and read documents, one action per SQL        *)
(* statement, on the four tables of internal/infra/database/models.        *)
(*                                                                         *)
(* A request runs one transaction, <<p, "main">>.  While it distributes a  *)
(* record to the collections of its memberOf it calls CreateRecord again,  *)
(* on r.db and not on tx: that is a second transaction, <<p, "ref">>, on   *)
(* another connection, which commits on its own while the first one idles  *)
(* with its locks held.                                                    *)
(***************************************************************************)
EXTENDS Naturals, Sequences, Postgres

CONSTANTS
    Req,        \* requests
    UserDoc,    \* documents signed by users that become records
    AssocDoc,   \* documents signed by users that become associations
    Uri,        \* record URIs
    Root,       \* cc://owner/, which has no record key
    NoDoc,
    Parent,     \* the URI one path element up
    Home,       \* the URI of a user's record document
    MemberOf,   \* the collections a record document asks to be a member of
    Item,       \* Item[c, d]: the URI of the reference to d in collection c
    Target,     \* the URI an association document is attached to
    Slot,       \* the unique hash of an association's owner, target and variant
    Menu,       \* the operations each request may ask for
    Planted,    \* URIs that have a record key before the requests arrive
    Stored,     \* documents committed before the requests arrive
    Faults      \* what may go wrong: subset of {"publish", "commit", "cancel", "crash"}

\* The document created for d in collection c on behalf of request p: its
\* createdAt is time.Now(), so every attempt makes a document of its own.
RefDoc    == [of: UserDoc, in: UNION {MemberOf[d] : d \in UserDoc}, by: Req]
RecordDoc == UserDoc \cup RefDoc
Doc       == RecordDoc \cup AssocDoc

UriOf(d) == IF d \in UserDoc THEN Home[d] ELSE Item[<<d.in, d.of>>]

Tx      == Req \X {"main", "ref"}
Main(p) == <<p, "main">>
Ref(p)  == <<p, "ref">>

Kinds == {"create", "associate", "delete", "get", "ack"}
Operation == [kind: Kinds,
              doc: Doc \cup {NoDoc}, uri: Uri \cup {Root}]

ASSUME KeysAssumption ==
    /\ Root \notin Uri
    /\ NoDoc \notin Doc
    /\ UserDoc \cap AssocDoc = {} /\ UserDoc \cap RefDoc = {} /\ AssocDoc \cap RefDoc = {}
    /\ Parent \in [Uri -> Uri \cup {Root}]
    /\ Home \in [UserDoc -> Uri]
    /\ MemberOf \in [UserDoc -> SUBSET Uri]
    /\ \A d \in RefDoc : UriOf(d) \in Uri /\ Parent[UriOf(d)] = d.in
    /\ Target \in [AssocDoc -> Uri]
    /\ NoTx \notin Tx
\* A request names what it is about by the URI its document is keyed by or
\* attached to; a delete or a get may name a document by its id instead.
ASSUME MenuAssumption ==
    \A p \in Req : \A o \in Menu[p] :
        /\ o \in Operation
        /\ o.kind = "create" => o.doc \in UserDoc /\ o.uri = Home[o.doc]
        /\ o.kind = "associate" => o.doc \in AssocDoc /\ o.uri = Target[o.doc]
        /\ o.kind \in {"delete", "get"} =>
              IF o.uri = Root THEN o.doc \in RecordDoc ELSE o.doc = NoDoc
ASSUME StartAssumption ==
    /\ Planted \subseteq Uri
    /\ \A u \in Planted : Parent[u] \in Planted \cup {Root}
    /\ Stored \subseteq UserDoc
    /\ \A d, e \in Stored : Home[d] \in Planted /\ (Home[d] = Home[e] => d = e)
ASSUME FaultsAssumption == Faults \subseteq {"publish", "commit", "cancel", "crash"}

(***************************************************************************)
(* The serial id of a record key is drawn from a sequence and only its     *)
(* identity matters: it is written as the URI the row was inserted for and *)
(* how many rows have been inserted for that URI.                          *)
(***************************************************************************)
RowId == (Uri \cup {Root}) \X Nat
NoId  == <<Root, 0>>
NoKey == [id |-> NoId, parent |-> NoId, rec |-> NoDoc]
KeyRow == [id: RowId, parent: RowId, rec: Doc \cup {NoDoc}]
NoAssociation == [doc |-> NoDoc, target |-> NoId]
AssociationRow == [doc: Doc \cup {NoDoc}, target: RowId]
Slots == {Slot[d] : d \in AssocDoc}

VARIABLES
    commitLog,    \* commit_logs (and their owners): "none", "kept", "gc" candidate
    record,       \* records: whether the document has a row
    recordKey,    \* record_keys
    association,  \* associations, by their unique hash
    drawn,        \* how many rows have been inserted for a URI
    tx,           \* each transaction: program counter and local variables
    published     \* documents whose event was published

tables == <<commitLog, record, recordKey, association>>
vars   == <<commitLog, record, recordKey, association, drawn, tx, published>>

Replies == {"ok", "error", "unpublished", "uncommitted", "cancelled", "crashed"}
Pcs == Replies \cup
    {"new", "idle", "insert_commit", "insert_record", "lock_key", "climb", "plant",
     "point", "flag_old", "drop_old", "distribute", "publish", "commit",
     "find_target", "insert_association",
     "find_key", "find_id", "find_record", "find_commit",
     "delete_commit", "delete_record", "delete_key"}
TxState == [pc: Pcs, kind: Kinds, doc: Doc \cup {NoDoc}, uri: Uri \cup {Root},
            old: Doc \cup {NoDoc},       \* oldRecordKey.RecordID
            path: Seq(Uri),              \* ancestors still to plant, then the URI
            pid: RowId,                  \* id of the parent's (or target's) key
            todo: SUBSET Uri]            \* memberOf still to distribute to
Fresh(pc) == [pc |-> pc, kind |-> "create", doc |-> NoDoc, uri |-> Root, old |-> NoDoc,
              path |-> <<>>, pid |-> NoId, todo |-> {}]

StartKey(u) ==
    IF u \notin Planted THEN NoKey
    ELSE [id |-> <<u, 1>>,
          parent |-> IF Parent[u] = Root THEN NoId ELSE <<Parent[u], 1>>,
          rec |-> IF \E d \in Stored : Home[d] = u
                  THEN CHOOSE d \in Stored : Home[d] = u ELSE NoDoc]

Init ==
    /\ commitLog = [d \in Doc |-> Cell(IF d \in Stored THEN "kept" ELSE "none")]
    /\ record = [d \in RecordDoc |-> Cell(d \in Stored)]
    /\ recordKey = [u \in Uri |-> Cell(StartKey(u))]
    /\ association = [s \in Slots |-> Cell(NoAssociation)]
    /\ drawn = [u \in Uri |-> IF u \in Planted THEN 1 ELSE 0]
    /\ tx = [t \in Tx |-> Fresh(IF t[2] = "main" THEN "new" ELSE "idle")]
    /\ published = {}

-----------------------------------------------------------------------------
\* Mutant: the foreign key of record_keys without ON DELETE CASCADE.
NeverCascades(d) == FALSE
\* The key that goes with the record of d when d's commit is deleted.
Cascades(d) == recordKey[UriOf(d)].row.rec = d

(***************************************************************************)
(* What the statement t is about to run waits for.                         *)
(***************************************************************************)
Present(u, t) == Sees(recordKey, u, t).id # NoId

Blockers(t) ==
    LET d == tx[t].doc  u == tx[t].uri  old == tx[t].old
    IN CASE tx[t].pc = "insert_commit" -> Writer(commitLog, d, t)
         [] tx[t].pc = "insert_record" -> Writer(record, d, t) \cup Remover(commitLog, d, t)
         [] tx[t].pc = "lock_key" /\ Present(u, t) -> Users(recordKey, u, t)
         [] tx[t].pc = "plant" -> Writer(recordKey, Head(tx[t].path), t)
         [] tx[t].pc = "point" -> Holder(recordKey, u, t) \cup Remover(record, d, t)
         [] tx[t].pc = "flag_old" /\ commitLog[old].row # "none" -> Holder(commitLog, old, t)
         [] tx[t].pc = "drop_old" /\ record[old].row -> Users(record, old, t)
         [] tx[t].pc = "insert_association" ->
                Writer(association, Slot[d], t) \cup Remover(recordKey, u, t)
         [] tx[t].pc = "delete_commit" /\ d # NoDoc -> Users(commitLog, d, t)
         [] tx[t].pc = "delete_record" /\ record[d].row -> Users(record, d, t)
         [] tx[t].pc = "delete_key" /\ Cascades(d) ->
                Users(recordKey, UriOf(d), t)
         [] OTHER -> {}

At(t, pc) == tx[t].pc = pc /\ Blockers(t) = {}
Goto(t, pc) == tx' = [tx EXCEPT ![t].pc = pc]

\* The transaction is over: a request replies, a nested one returns to its caller.
Ended(t, reply) ==
    IF t[2] = "main"
    THEN [Fresh(reply) EXCEPT !.kind = tx[t].kind, !.doc = tx[t].doc, !.uri = tx[t].uri]
    ELSE Fresh("idle")

Rollback(S) ==
    /\ commitLog' = RolledBack(commitLog, S)
    /\ record' = RolledBack(record, S)
    /\ recordKey' = RolledBack(recordKey, S)
    /\ association' = RolledBack(association, S)
    /\ UNCHANGED <<drawn, published>>
\* Mutants: the error returns without a ROLLBACK; the error of a nested CreateRecord is
\* returned, not skipped.
FailHolding(t, reply) ==
    tx' = [tx EXCEPT ![t] = Ended(t, reply)] /\ UNCHANGED <<tables, drawn, published>>
FailWithCaller(t, reply) ==
    LET S == {t, Main(t[1])} IN
    Rollback(S) /\ tx' = [x \in Tx |-> IF x \in S THEN Ended(x, reply) ELSE tx[x]]
\* An error of a statement returns from the transaction's function: it rolls back.
Fail(t, reply) == Rollback({t}) /\ tx' = [tx EXCEPT ![t] = Ended(t, reply)]

Reply(t, reply) ==
    /\ tx' = [tx EXCEPT ![t] = Ended(t, reply)]
    /\ UNCHANGED <<tables, drawn, published>>

-----------------------------------------------------------------------------
(***************************************************************************)
(* RecordUsecase.Commit, once the proof is verified, and Get: the request  *)
(* is dispatched on its document.                                          *)
(***************************************************************************)
FirstStatement(o) ==
    CASE o.kind \in {"create", "associate"} -> "insert_commit"
      [] o.kind = "delete" -> IF o.uri = Root THEN "find_id" ELSE "find_key"
      [] o.kind = "get"    -> IF o.uri = Root THEN "find_commit" ELSE "find_key"
      [] o.kind = "ack"    -> "error"

Begin(p) ==
    /\ tx[Main(p)].pc = "new"
    /\ \E o \in Menu[p] :
        tx' = [tx EXCEPT ![Main(p)] = [Fresh(FirstStatement(o)) EXCEPT
                  !.kind = o.kind,
                  !.doc = o.doc,
                  !.uri = o.uri,
                  !.todo = IF o.kind = "create" THEN MemberOf[o.doc] ELSE {}]]
    /\ UNCHANGED <<tables, drawn, published>>

\* Mutant: the event goes out with the first statement.
InsertCommitAnnounced(t) ==
    /\ At(t, "insert_commit")
    /\ LET d == tx[t].doc IN
        /\ commitLog' = IF commitLog[d].row = "none"
                        THEN Write(commitLog, d, t, "kept") ELSE commitLog
        /\ published' = published \cup {d}
        /\ Goto(t, IF d \in AssocDoc THEN "find_target" ELSE "insert_record")
    /\ UNCHANGED <<record, recordKey, association, drawn>>

(***************************************************************************)
(* CreateRecord and CreateAssociation: the commit and its owners, both ON  *)
(* CONFLICT DO NOTHING.                                                    *)
(***************************************************************************)
InsertCommit(t) ==
    /\ At(t, "insert_commit")
    /\ LET d == tx[t].doc IN
        /\ commitLog' = IF commitLog[d].row = "none"
                        THEN Write(commitLog, d, t, "kept") ELSE commitLog
        /\ Goto(t, IF d \in AssocDoc THEN "find_target" ELSE "insert_record")
    /\ UNCHANGED <<record, recordKey, association, drawn, published>>

\* The record row, ON CONFLICT DO NOTHING; it references the commit.
InsertRecord(t) ==
    /\ At(t, "insert_record")
    /\ LET d == tx[t].doc IN
        \/ /\ record[d].row
           /\ Goto(t, "lock_key")
           /\ UNCHANGED <<tables, drawn, published>>
        \/ /\ ~record[d].row
           /\ Sees(commitLog, d, t) # "none"
           /\ record' = Write(record, d, t, TRUE)
           /\ commitLog' = Share(commitLog, d, t)
           /\ Goto(t, "lock_key")
           /\ UNCHANGED <<recordKey, association, drawn, published>>
        \/ /\ ~record[d].row
           /\ Sees(commitLog, d, t) = "none"
           /\ Fail(t, "error")

\* Mutant: the key is read without FOR UPDATE.
ReadOnly(u, t) == recordKey
Locked(u, t) == IF Present(u, t) THEN ForUpdate(recordKey, u, t) ELSE recordKey

\* SELECT ... FOR UPDATE of the key: locks nothing when there is no row yet.
LockKey(t) ==
    /\ At(t, "lock_key")
    /\ LET u == tx[t].uri IN
        /\ recordKey' = Locked(u, t)
        /\ tx' = [tx EXCEPT ![t].pc = "climb",
                            ![t].old = Sees(recordKey, u, t).rec,
                            ![t].path = <<u>>]
    /\ UNCHANGED <<commitLog, record, association, drawn, published>>

(***************************************************************************)
(* getOrCreateParentRecordKey: look the parents up one by one until one    *)
(* exists or the root is reached, then insert the missing ones, top down,  *)
(* as placeholders without a record.                                       *)
(***************************************************************************)
Descend(path) == IF Len(path) = 1 THEN "point" ELSE "plant"

Found(t, id)   == tx' = [tx EXCEPT ![t].pc = Descend(tx[t].path), ![t].pid = id]
Missing(t, up) == tx' = [tx EXCEPT ![t].path = <<up>> \o @]

Climb(t) ==
    /\ At(t, "climb")
    /\ LET up == Parent[Head(tx[t].path)] IN
        \/ /\ up = Root
           /\ Found(t, NoId)
        \/ /\ up # Root
           /\ Present(up, t)
           /\ Found(t, Sees(recordKey, up, t).id)
        \/ /\ up # Root
           /\ ~Present(up, t)
           /\ Missing(t, up)
    /\ UNCHANGED <<tables, drawn, published>>

NewId(u) == <<u, drawn[u] + 1>>
Draw(u)  == drawn' = [drawn EXCEPT ![u] = @ + 1]

\* Mutants: an empty record id instead of NULL; the parent's id is not passed down.
PlaceholderEmpty(u, pid)  == [id |-> NewId(u), parent |-> pid, rec |-> Root]
PlaceholderOrphan(u, pid) == [id |-> NewId(u), parent |-> NoId, rec |-> NoDoc]
Placeholder(u, pid) == [id |-> NewId(u), parent |-> pid, rec |-> NoDoc]

\* A plain INSERT: a key that appeared since the climb is a unique violation.
Plant(t) ==
    /\ At(t, "plant")
    /\ LET u == Head(tx[t].path) IN
        \/ /\ ~Present(u, t)
           /\ recordKey' = Write(recordKey, u, t, Placeholder(u, tx[t].pid))
           /\ tx' = [tx EXCEPT ![t].pc = Descend(Tail(tx[t].path)),
                               ![t].path = Tail(@),
                               ![t].pid = NewId(u)]
           /\ Draw(u)
           /\ UNCHANGED <<commitLog, record, association, published>>
        \/ /\ Present(u, t)
           /\ Fail(t, "error")

(***************************************************************************)
(* The upsert of the key (ON CONFLICT (uri) DO UPDATE SET record_id): an   *)
(* existing row keeps its id and its parent.  It references the record.    *)
(***************************************************************************)
\* Mutants: ON CONFLICT DO NOTHING; a new key without its parent.
PointedAtNothing(key, t) ==
    IF key.id = NoId
    THEN [id |-> NewId(tx[t].uri), parent |-> tx[t].pid, rec |-> tx[t].doc]
    ELSE key
PointedAtOrphan(key, t) ==
    IF key.id = NoId
    THEN [id |-> NewId(tx[t].uri), parent |-> NoId, rec |-> tx[t].doc]
    ELSE [key EXCEPT !.rec = tx[t].doc]
PointedAt(key, t) ==
    IF key.id = NoId
    THEN [id |-> NewId(tx[t].uri), parent |-> tx[t].pid, rec |-> tx[t].doc]
    ELSE [key EXCEPT !.rec = tx[t].doc]

\* Mutant: the comparison with the new document is inverted.
SupersededSame(t) == {tx[t].old} \cap {tx[t].doc}
\* The document whose commit is flagged and whose record is deleted, if any.
Superseded(t) == {tx[t].old} \ {NoDoc, tx[t].doc}

Point(t) ==
    /\ At(t, "point")
    /\ LET d == tx[t].doc  u == tx[t].uri  key == Sees(recordKey, u, t) IN
        \/ /\ Sees(record, d, t)
           /\ recordKey' = Write(recordKey, u, t, PointedAt(key, t))
           /\ record' = Share(record, d, t)
           /\ IF key.id = NoId THEN Draw(u) ELSE UNCHANGED drawn
           /\ Goto(t, IF Superseded(t) # {} THEN "flag_old" ELSE "distribute")
           /\ UNCHANGED <<commitLog, association, published>>
        \/ /\ ~Sees(record, d, t)
           /\ Fail(t, "error")

\* The commit of the record that was replaced becomes a GC candidate,
FlagOld(t) ==
    /\ At(t, "flag_old")
    /\ LET old == tx[t].old IN
        commitLog' = IF commitLog[old].row # "none"
                     THEN Write(commitLog, old, t, "gc") ELSE commitLog
    /\ Goto(t, "drop_old")
    /\ UNCHANGED <<record, recordKey, association, drawn, published>>

\* and its record row is deleted.
DropOld(t) ==
    /\ At(t, "drop_old")
    /\ LET old == tx[t].old IN
        record' = IF record[old].row THEN Remove(record, old, t, FALSE) ELSE record
    /\ Goto(t, "distribute")
    /\ UNCHANGED <<commitLog, recordKey, association, drawn, published>>

\* Mutant: the loop ends after its first collection.
RemainingNone(todo, c) == {}
Remaining(todo, c) == todo \ {c}

\* Mutant: the reference is keyed by the URI it refers to.
RefUriHref(t, c) == tx[t].uri
\* The reference is keyed by the collection's path and the document's id.
RefUri(t, c) == Item[<<c, tx[t].doc>>]

(***************************************************************************)
(* The loop over memberOf: CreateRecord of a reference in a transaction of *)
(* its own; its error is printed and the loop continues.  The list's order *)
(* is left open.                                                           *)
(***************************************************************************)
Distribute(t) ==
    /\ At(t, "distribute")
    /\ \/ \E c \in tx[t].todo :
            /\ tx[Ref(t[1])].pc = "idle"
            /\ tx' = [tx EXCEPT
                  ![t].todo = Remaining(@, c),
                  ![Ref(t[1])] = [Fresh("insert_commit") EXCEPT
                      !.doc = [of |-> tx[t].doc, in |-> c, by |-> t[1]],
                      !.uri = RefUri(t, c)]]
       \/ /\ tx[t].todo = {}
          /\ t[2] = "main" => tx[Ref(t[1])].pc = "idle"
          /\ Goto(t, "publish")
    /\ UNCHANGED <<tables, drawn, published>>

\* Mutant: failing to send the event is ignored.
PublishUnchecked(t) ==
    /\ At(t, "publish")
    /\ \/ published' = published \cup {tx[t].doc}
       \/ "publish" \in Faults /\ UNCHANGED published
    /\ Goto(t, "commit")
    /\ UNCHANGED <<tables, drawn>>
\* The event goes out before the transaction commits; failing to send it fails t.
Publish(t) ==
    /\ At(t, "publish")
    /\ \/ /\ published' = published \cup {tx[t].doc}
          /\ Goto(t, "commit")
          /\ UNCHANGED <<tables, drawn>>
       \/ "publish" \in Faults /\ Fail(t, "unpublished")

Commit(t) ==
    /\ At(t, "commit")
    /\ commitLog' = Committed(commitLog, t)
    /\ record' = Committed(record, t)
    /\ recordKey' = Committed(recordKey, t)
    /\ association' = Committed(association, t)
    /\ tx' = [tx EXCEPT ![t] = Ended(t, "ok")]
    /\ UNCHANGED <<drawn, published>>

-----------------------------------------------------------------------------
\* CreateAssociation reads the key of its target,
FindTarget(t) ==
    /\ At(t, "find_target")
    /\ LET u == tx[t].uri IN
        \/ /\ Present(u, t)
           /\ tx' = [tx EXCEPT ![t].pc = "insert_association",
                               ![t].pid = Sees(recordKey, u, t).id]
           /\ UNCHANGED <<tables, drawn, published>>
        \/ ~Present(u, t) /\ Fail(t, "error")

\* Mutants: the foreign key is not checked; the hash is not unique.
MayAttachAnywhere(t) == association[Slot[tx[t].doc]].row = NoAssociation
MayAttachTwice(t)    == recordKey[tx[t].uri].row.id = tx[t].pid
MayAttach(t) ==
    /\ recordKey[tx[t].uri].row.id = tx[t].pid
    /\ association[Slot[tx[t].doc]].row = NoAssociation

(***************************************************************************)
(* and inserts the association.  It references that row of the key, which  *)
(* may be gone by now, and its hash is unique, so that repeating the       *)
(* request is an error.                                                    *)
(***************************************************************************)
InsertAssociation(t) ==
    /\ At(t, "insert_association")
    /\ LET s == Slot[tx[t].doc]  u == tx[t].uri IN
        \/ /\ MayAttach(t)
           /\ association' = Write(association, s, t,
                                   [doc |-> tx[t].doc, target |-> tx[t].pid])
           /\ recordKey' = Share(recordKey, u, t)
           /\ Goto(t, "publish")
           /\ UNCHANGED <<commitLog, record, drawn, published>>
        \/ ~MayAttach(t) /\ Fail(t, "error")

-----------------------------------------------------------------------------
(***************************************************************************)
(* getRecordByURI and getCommitByURI: separate statements outside any      *)
(* transaction.  A URI may also name a document by its id (uri = Root).    *)
(***************************************************************************)
FindById(t) ==
    /\ At(t, "find_id")
    /\ \/ record[tx[t].doc].row /\ Goto(t, "delete_commit")
             /\ UNCHANGED <<tables, drawn, published>>
       \/ ~record[tx[t].doc].row /\ Reply(t, "error")

FindKey(t) ==
    /\ At(t, "find_key")
    /\ LET key == recordKey[tx[t].uri].row IN
        \/ /\ key.id # NoId
           /\ tx' = [tx EXCEPT ![t].pc = "find_record", ![t].old = key.rec]
           /\ UNCHANGED <<tables, drawn, published>>
        \/ key.id = NoId /\ Reply(t, "error")

\* A key without a record, or whose record went away since, gives an empty one.
FindRecord(t) ==
    /\ At(t, "find_record")
    /\ LET old == tx[t].old
           found == IF old # NoDoc /\ record[old].row THEN old ELSE NoDoc
       IN tx' = [tx EXCEPT
              ![t].pc = IF tx[t].kind = "get" THEN "find_commit" ELSE "delete_commit",
              ![t].doc = found]
    /\ UNCHANGED <<tables, drawn, published>>

\* GetDocument fails to parse the document of an empty commit.
FindCommit(t) ==
    /\ At(t, "find_commit")
    /\ LET d == tx[t].doc IN
        Reply(t, IF d # NoDoc /\ commitLog[d].row # "none" THEN "ok" ELSE "error")

(***************************************************************************)
(* Delete: the commit of the record that was found; the foreign keys       *)
(* cascade to its owners and its record, from there to the key that points *)
(* at it, from there to the associations that target that key.  Without a  *)
(* record there is nothing to delete, which is not an error.               *)
(***************************************************************************)
DeleteCommit(t) ==
    /\ At(t, "delete_commit")
    /\ LET d == tx[t].doc
           there == d # NoDoc /\ commitLog[d].row # "none"
       IN
        \/ /\ there
           /\ commitLog' = Remove(commitLog, d, t, "none")
           /\ Goto(t, "delete_record")
           /\ UNCHANGED <<record, recordKey, association, drawn, published>>
        \/ /\ ~there
           /\ Reply(t, "ok")

DeleteRecord(t) ==
    /\ At(t, "delete_record")
    /\ LET d == tx[t].doc IN
        record' = IF record[d].row THEN Remove(record, d, t, FALSE) ELSE record
    /\ Goto(t, "delete_key")
    /\ UNCHANGED <<commitLog, recordKey, association, drawn, published>>

DeleteKey(t) ==
    /\ At(t, "delete_key")
    /\ LET u == UriOf(tx[t].doc)
           key == recordKey[u].row
           hit == Cascades(tx[t].doc)
       IN /\ recordKey' = IF hit THEN Remove(recordKey, u, t, NoKey) ELSE recordKey
          /\ association' =
                [s \in Slots |->
                    IF hit /\ association[s].row.target = key.id
                    THEN Remove(association, s, t, NoAssociation)[s]
                    ELSE association[s]]
    /\ Goto(t, "commit")
    /\ UNCHANGED <<commitLog, record, drawn, published>>

-----------------------------------------------------------------------------
(***************************************************************************)
(* PostgreSQL aborts a transaction that waits for itself.  It sees only    *)
(* locks: that <<p, "main">> waits for <<p, "ref">> to return is known to  *)
(* the Go program alone.                                                   *)
(***************************************************************************)
InWaitCycle(t) ==
    \A S \in SUBSET Tx :
        (Blockers(t) \subseteq S /\ \A x \in S : Blockers(x) \subseteq S) => t \in S

DeadlockAbort(t) == Blockers(t) # {} /\ InWaitCycle(t) /\ Fail(t, "error")

\* COMMIT itself fails: nothing of the transaction stays, and its caller gets the error.
CommitFails(t) == "commit" \in Faults /\ At(t, "commit") /\ Fail(t, "uncommitted")

InFlight(p) == tx[Main(p)].pc \notin Replies \cup {"new"}

Over(S, reply) ==
    tx' = [t \in Tx |-> IF t[1] \in S THEN Ended(t, reply) ELSE tx[t]]

\* The client goes away: the context both transactions run under is cancelled.
Cancel(p) ==
    /\ "cancel" \in Faults
    /\ InFlight(p)
    /\ Rollback({Main(p), Ref(p)})
    /\ Over({p}, "cancelled")

\* The server dies: every open transaction is rolled back, no request is answered.
Crash ==
    /\ "crash" \in Faults
    /\ \E p \in Req : InFlight(p)
    /\ Rollback(Tx)
    /\ Over({p \in Req : InFlight(p)}, "crashed")

Create(t) ==
    \/ InsertCommit(t) \/ InsertRecord(t) \/ LockKey(t) \/ Climb(t) \/ Plant(t)
    \/ Point(t) \/ FlagOld(t) \/ DropOld(t) \/ Distribute(t)
    \/ Publish(t) \/ Commit(t)
Associate(t) == FindTarget(t) \/ InsertAssociation(t)
Find(t)   == FindById(t) \/ FindKey(t) \/ FindRecord(t) \/ FindCommit(t)
Delete(t) == DeleteCommit(t) \/ DeleteRecord(t) \/ DeleteKey(t)
Statement(t) == Create(t) \/ Associate(t) \/ Find(t) \/ Delete(t)

\* Every request has its reply; the server keeps listening.
Quiet == (\A p \in Req : tx[Main(p)].pc \in Replies) /\ UNCHANGED vars

Next ==
    \/ \E p \in Req : Begin(p) \/ Cancel(p)
    \/ \E t \in Tx : Statement(t) \/ DeadlockAbort(t) \/ CommitFails(t)
    \/ Crash
    \/ Quiet

Spec == Init /\ [][Next]_vars

(***************************************************************************)
(* The goroutine of a request runs on, a statement that may proceed does,  *)
(* and the deadlock detector gets around to every cycle.                   *)
(***************************************************************************)
Fairness ==
    /\ \A p \in Req : WF_vars(Begin(p))
    /\ \A t \in Tx : WF_vars(Statement(t)) /\ WF_vars(DeadlockAbort(t))

FairSpec == Spec /\ Fairness
=============================================================================
