-------------------------- MODULE RecordInvariants --------------------------
(***************************************************************************)
(* What must hold of the record repository: its type invariant, the        *)
(* relations between commit log, records, keys and associations, what a    *)
(* step may never do, and the abstract document store it implements.       *)
(***************************************************************************)
EXTENDS RecordRepository

Live(u) == recordKey[u].row.rec
Has(u)  == recordKey[u].row.id # NoId

\* Types of the tables, of the transactions' local variables and of the rest.
TypeOK ==
    /\ commitLog \in [Doc -> CellOf({"none", "kept", "gc"}, Tx)]
    /\ record \in [RecordDoc -> CellOf(BOOLEAN, Tx)]
    /\ recordKey \in [Uri -> CellOf(KeyRow, Tx)]
    /\ association \in [Slots -> CellOf(AssociationRow, Tx)]
    /\ drawn \in [Uri -> Nat]
    /\ tx \in [Tx -> TxState]
    /\ published \subseteq Doc

(***************************************************************************)
(* Whatever the interleaving of creations, a key's parent id names a row   *)
(* that was inserted for its parent URI and for no other, a key without    *)
(* one is a child of the root, and the document a key resolves to was      *)
(* written for that URI (record.go:112-153, 439-493).                      *)
(***************************************************************************)
KeyBelongs(u, key) ==
    IF key.id = NoId THEN key = NoKey
    ELSE /\ key.id[1] = u
         /\ key.parent[1] = Parent[u]
         /\ key.rec # NoDoc => key.rec \in RecordDoc /\ UriOf(key.rec) = u

KeysBelong == \A u \in Uri : KeyBelongs(u, recordKey[u].row)

(***************************************************************************)
(* KeysBelong is not inductive: it needs the same of the key as its writer *)
(* sees it, and of a creation under way that it writes for the URI of its  *)
(* document, that its path is a chain of parents that ends at that URI,    *)
(* and that the parent id it carries is a row of the parent of the path's  *)
(* first URI; and that what looks a key up looks for one that can exist.   *)
(***************************************************************************)
ChainTo(path, u) ==
    /\ path # <<>>
    /\ path[Len(path)] = u
    /\ \A i \in 1 .. (Len(path) - 1) : Parent[path[i + 1]] = path[i]

Creating == {"insert_record", "lock_key", "climb", "plant", "point"}

Following == {"flag_old", "drop_old", "distribute", "find_target",
              "insert_association", "publish"}

Finding == {"find_target", "find_key", "find_record"}

WellDirected(s) ==
    /\ s.todo # {} => s.doc \in UserDoc /\ s.todo \subseteq MemberOf[s.doc]
    /\ s.pc \in Creating => s.doc \in RecordDoc
    /\ s.pc \in Following => s.doc \in Doc
    /\ s.pc \in Creating \cup {"insert_commit"} =>
          s.doc \in RecordDoc \cup AssocDoc /\ (s.doc \in RecordDoc => s.uri = UriOf(s.doc))
    /\ s.pc \in Finding \cup {"insert_commit"} => s.uri \in Uri
    /\ s.pc \in {"find_key", "find_record"} => s.todo = {}
    /\ s.pc \in {"climb", "plant", "point"} => ChainTo(s.path, s.uri)
    /\ s.pc \in {"plant", "point"} => s.pid[1] = Parent[s.path[1]]
    /\ s.pc = "plant" => Len(s.path) > 1
    /\ s.pc = "point" => Len(s.path) = 1

KeysInductive ==
    /\ TypeOK
    /\ \A t \in Tx : WellDirected(tx[t])
    /\ \A u \in Uri : KeyBelongs(u, recordKey[u].row) /\ KeyBelongs(u, recordKey[u].dirty)

\* No replacement, delete or rollback leaves a key resolving to a document
\* whose record or commit is gone.
KeysResolve ==
    \A u \in Uri : Live(u) # NoDoc =>
        record[Live(u)].row /\ commitLog[Live(u)].row # "none"

(***************************************************************************)
(* The parent id of a key is the id of the row its parent URI has now, so  *)
(* that listings by parent_id (chunkline.go) find it.                      *)
(***************************************************************************)
Attached ==
    \A u \in Uri : Has(u) =>
        recordKey[u].row.parent =
            IF Parent[u] = Root THEN NoId ELSE recordKey[Parent[u]].row.id

(***************************************************************************)
(* "Find the parent's RecordKey" (comment at record.go:127), "make the     *)
(* RecordKey" with that key's id as ParentID (139-144): once the creation  *)
(* is answered ok, its key hangs on the row it found for its parent.       *)
(***************************************************************************)
HangsOnParentFound ==
    [][\A p \in Req : LET t == Main(p) IN
          (tx[t].kind = "create" /\ tx[t].pc = "commit" /\ tx'[t].pc = "ok")
              => recordKey'[tx[t].uri].row.parent = tx[t].pid]_vars

(***************************************************************************)
(* A replaced record leaves nothing listed behind (comment at              *)
(* record.go:155): every record row is the one its URI resolves to, and    *)
(* the commit of any other record is flagged for garbage collection.       *)
(***************************************************************************)
SupersededIsRetired ==
    \A d \in RecordDoc :
        /\ record[d].row => Live(UriOf(d)) = d
        /\ commitLog[d].row = "kept" => Live(UriOf(d)) = d

(***************************************************************************)
(* An association hangs on the very row of its target, and its commit is   *)
(* in the log: no interleaving with Delete leaves it dangling.             *)
(***************************************************************************)
AssociationsHang ==
    \A s \in Slots : association[s].row # NoAssociation =>
        LET a == association[s].row IN
        /\ recordKey[Target[a.doc]].row.id = a.target
        /\ commitLog[a.doc].row # "none"

\* An association goes away only together with the key it hangs on.
OutlivedByTarget ==
    \A s \in Slots :
        (association[s].row # NoAssociation /\ association'[s].row # association[s].row)
            => LET u == Target[association[s].row.doc] IN
               recordKey'[u].row.id # recordKey[u].row.id

AssociationsOutlivedByTarget == [][OutlivedByTarget]_vars

(***************************************************************************)
(* Answers are true at the step that gives them.  A create answered ok is  *)
(* what its URI resolves to, is listed and has had its event published.  A *)
(* delete answered ok has left no commit of the record it had found, a get *)
(* answers with a document that is stored and was written for the URI.     *)
(* What an operation answered otherwise may leave behind is a matter of    *)
(* DanglingOnlyAfterFault and AnnouncedUnlessFault.                        *)
(***************************************************************************)
TrueAnswer(p) ==
    LET t == Main(p)  d == tx[t].doc  u == tx[t].uri  reply == tx'[t].pc IN
    (InFlight(p) /\ reply \in Replies) =>
        CASE tx[t].kind = "create" /\ reply = "ok" ->
                recordKey'[u].row.rec = d /\ record'[d].row /\ d \in published
          [] tx[t].kind = "delete" /\ reply = "ok" ->
                d # NoDoc => commitLog'[d].row = "none" /\ recordKey'[UriOf(d)].row.rec # d
          [] tx[t].kind = "get" /\ reply = "ok" ->
                commitLog[d].row # "none" /\ (u # Root => UriOf(d) = u)
          [] OTHER -> TRUE

AnsweredTruly == [][\A p \in Req : TrueAnswer(p)]_vars

-----------------------------------------------------------------------------
\* A delete has removed d, and was answered so.
Deleted(d) ==
    \E p \in Req : LET s == tx[Main(p)] IN
        s.kind = "delete" /\ s.doc = d /\ s.pc = "ok"

(***************************************************************************)
(* A reference in a collection to a document that is not stored: its       *)
(* creator is past its last statement, in the loop over memberOf or after  *)
(* it, or ended there by a failed publication, a failed COMMIT, a          *)
(* cancelled request or a crash; or the document has been deleted since.   *)
(* No error of a statement of either transaction leaves one behind, since  *)
(* a record is distributed after its last statement that can fail          *)
(* (record.go:169-208).                                                    *)
(***************************************************************************)
Distributing(p, d) ==
    LET s == tx[Main(p)] IN
    s.kind = "create" /\ s.doc = d /\ s.pc \in {"distribute", "publish", "commit"}

DanglingOnlyAfterFault ==
    \A u \in Uri :
        LET r == Live(u) IN
        (r \in RefDoc /\ commitLog[r.of].row = "none") =>
            \/ Distributing(r.by, r.of)
            \/ tx[Main(r.by)].pc \in {"unpublished", "uncommitted", "cancelled", "crashed"}
            \/ Deleted(r.of)

(***************************************************************************)
(* An event that was sent is about a document that is stored, or soon will *)
(* be: its creator is between the publication and the end of its COMMIT,   *)
(* or was cut short there by a failed COMMIT, a cancelled request or a     *)
(* crash, or the document has been deleted since.  No statement that may   *)
(* fail comes after the publication (record.go:211-219).  A reference is   *)
(* created on behalf of the request whose record it refers to, which goes  *)
(* on when the COMMIT of the reference fails, so that nothing tells of it. *)
(***************************************************************************)
Storing(t, d) == tx[t].pc = "commit" /\ tx[t].kind # "delete" /\ tx[t].doc = d

CutShort(p, d) ==
    /\ tx[Main(p)].pc \in {"uncommitted", "cancelled", "crashed"}
    /\ tx[Main(p)].doc = IF d \in RefDoc /\ d.by = p THEN d.of ELSE d

AnnouncedUnlessFault ==
    \A d \in published : commitLog[d].row = "none" =>
        \/ \E t \in Tx : Storing(t, d)
        \/ \E p \in Req : CutShort(p, d)
        \/ d \in RefDoc /\ "commit" \in Faults
        \/ Deleted(d)

\* A record answered ok is in every collection it is a member of.
Distributed ==
    \A p \in Req : LET t == Main(p) IN
        (tx[t].pc = "ok" /\ tx[t].kind = "create") =>
            \A c \in MemberOf[tx[t].doc] :
                LET r == Live(Item[<<c, tx[t].doc>>]) IN
                r \in RefDoc /\ r.of = tx[t].doc

(***************************************************************************)
(* No transaction waits for itself where PostgreSQL cannot see it, that    *)
(* is through a request waiting for its nested CreateRecord to return.     *)
(***************************************************************************)
WaitsFor(t) ==
    Blockers(t) \cup
    (IF t[2] = "main" /\ tx[t].pc = "distribute" /\ tx[Ref(t[1])].pc # "idle"
     THEN {Ref(t[1])} ELSE {})

NoHiddenDeadlock ==
    \A t \in Tx :
        (\A S \in SUBSET Tx :
            (WaitsFor(t) \subseteq S /\ \A x \in S : WaitsFor(x) \subseteq S) => t \in S)
        => \E x \in Tx : Blockers(x) # {} /\ InWaitCycle(x)

\* Every request is answered in the end.
Answered == \A p \in Req : <>(tx[Main(p)].pc \in Replies)

-----------------------------------------------------------------------------
(***************************************************************************)
(* The abstract store the four tables implement: one step of it for each   *)
(* commit of a transaction, none for any other step.                       *)
(***************************************************************************)
Store == INSTANCE DocumentStore WITH
    live    <- [u \in Uri |-> Live(u)],
    stored  <- {d \in Doc : commitLog[d].row # "none"},
    retired <- {d \in Doc : commitLog[d].row = "gc"},
    listed  <- {d \in RecordDoc : record[d].row}

ImplementsDocumentStore == Store!Spec
=============================================================================
