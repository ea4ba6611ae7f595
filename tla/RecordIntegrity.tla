--------------------------- MODULE RecordIntegrity ---------------------------
(***************************************************************************)
(* Why no interleaving leaves a key without its record, a record without   *)
(* its commit or an association without its target: the inductive          *)
(* invariant behind KeysResolve, AssociationsHang and AnsweredTruly.       *)
(*                                                                         *)
(* A statement checks what it needs when it runs, but its rows become      *)
(* visible only when the transaction commits.  In between, the row locks   *)
(* must keep what was checked true.  The invariant says of each            *)
(* transaction what it has written so far, at which statement it is by     *)
(* then, and which lock protects what it relies on.                        *)
(***************************************************************************)
EXTENDS RecordInvariants

\* The phases of a creation: its key points at its document, then all those in
\* which its record row may be there.
Pointed  == {"flag_old", "drop_old", "distribute", "publish", "commit"}
Listed   == {"lock_key", "climb", "plant", "point"} \cup Pointed
Reading  == {"find_id", "find_key", "find_record", "find_commit", "delete_commit"}
Deleting == {"delete_record", "delete_key", "commit"}
Attaching == {"find_target", "insert_association", "publish", "commit"}

\* Nobody but t holds a lock on the row.
Sole(T, k, t) == T[k].excl = t /\ T[k].share \subseteq {t}

(***************************************************************************)
(* The course of a transaction: which statements each kind of request      *)
(* runs, and what its variables hold by then.                              *)
(***************************************************************************)
Kinded(s) ==
    /\ s.pc \in Creating \cup {"flag_old", "drop_old", "distribute"} => s.kind = "create"
    /\ s.pc \in {"insert_commit", "publish"} => s.kind \in {"create", "associate"}
    /\ s.pc \in {"find_target", "insert_association"} => s.kind = "associate"
    /\ s.pc \in {"find_key", "find_record"} => s.kind \in {"delete", "get"}
    /\ s.pc \in {"find_id", "delete_commit", "delete_record", "delete_key"} =>
          s.kind = "delete"
    /\ s.pc = "find_commit" => s.kind = "get"
    /\ s.pc = "commit" => s.kind \in {"create", "associate", "delete"}

Written(s) ==
    /\ (s.kind = "create" /\ s.pc \in {"insert_commit", "insert_record"} \cup Listed) =>
          s.doc \in RecordDoc /\ s.uri = UriOf(s.doc)
    /\ (s.kind = "associate" /\ s.pc \in Attaching \cup {"insert_commit"}) =>
          s.doc \in AssocDoc /\ s.uri = Target[s.doc]
    /\ (s.kind = "associate" /\ s.pc \in {"insert_association", "publish", "commit"}) =>
          s.pid # NoId
    /\ (s.kind = "delete" /\ s.pc \in Deleting \cup {"find_id"}) => s.doc \in RecordDoc
    /\ s.pc = "find_id" => s.uri = Root
    /\ (s.pc \in {"delete_commit", "find_commit"} /\ s.doc # NoDoc) =>
          s.doc \in RecordDoc /\ (s.uri # Root => UriOf(s.doc) = s.uri)

Replaced(s) ==
    /\ (s.pc = "find_record" /\ s.old # NoDoc) => s.old \in RecordDoc /\ UriOf(s.old) = s.uri
    /\ (s.kind = "create" /\ s.pc \in Listed \ {"lock_key"} /\ s.old # NoDoc) =>
          s.old \in RecordDoc /\ UriOf(s.old) = s.uri
    /\ s.pc \in {"flag_old", "drop_old"} => s.old \notin {NoDoc, s.doc}

Course(s) == Kinded(s) /\ Written(s) /\ Replaced(s)

\* What is about to commit has been announced.
Announced(t) ==
    (tx[t].pc = "commit" /\ tx[t].kind # "delete") => tx[t].doc \in published

\* A nested CreateRecord runs while its caller is in the loop over memberOf.
Nested == \A p \in Req : tx[Ref(p)].pc # "idle" => tx[Main(p)].pc = "distribute"

(***************************************************************************)
(* What a transaction has written, and the locks that go with it.          *)
(***************************************************************************)
\* A commit is deleted by a delete only, which then holds it alone; the commit of
\* an association under way is there.
CommitHeld(t) ==
    LET s == tx[t] IN
    /\ \A d \in Doc : (commitLog[d].by = t /\ commitLog[d].dirty = "none") =>
          s.kind = "delete" /\ s.doc = d /\ s.pc \in Deleting
    /\ (s.kind = "delete" /\ s.pc \in Deleting) =>
          /\ commitLog[s.doc].by = t /\ commitLog[s.doc].dirty = "none"
          /\ Sole(commitLog, s.doc, t)
    /\ (s.kind = "associate" /\ s.pc \in Attaching) => Sees(commitLog, s.doc, t) # "none"

\* A record is inserted under the share lock of its commit, which is there, and
\* deleted alone: by the creation that replaces it or with its commit.
RecordInserted(t) ==
    LET s == tx[t] IN
    \A d \in RecordDoc : (record[d].by = t /\ record[d].dirty) =>
        /\ s.kind = "create" /\ s.doc = d /\ s.pc \in Listed
        /\ t \in commitLog[d].share /\ Sees(commitLog, d, t) # "none"

RecordDeleted(t) ==
    LET s == tx[t] IN
    /\ \A d \in RecordDoc : (record[d].by = t /\ ~record[d].dirty) =>
          /\ record[d].row
          /\ Sole(record, d, t)
          /\ \/ /\ s.kind = "create" /\ s.pc \in {"distribute", "publish", "commit"}
                /\ s.old = d /\ s.doc # d
             \/ s.kind = "delete" /\ s.pc \in {"delete_key", "commit"} /\ s.doc = d
    /\ (s.kind = "delete" /\ s.pc \in {"delete_key", "commit"} /\ record[s.doc].row) =>
          record[s.doc].by = t /\ ~record[s.doc].dirty

\* A key is pointed at a record that is there, under its share lock.
KeyPointed(t) ==
    LET s == tx[t] IN
    /\ \A u \in Uri : (recordKey[u].by = t /\ recordKey[u].dirty.rec # NoDoc) =>
          /\ s.kind = "create" /\ s.pc \in Pointed
          /\ s.uri = u /\ s.doc = recordKey[u].dirty.rec
          /\ t \in record[s.doc].share /\ Sees(record, s.doc, t)
    /\ (s.kind = "create" /\ s.pc \in Pointed) =>
          recordKey[s.uri].by = t /\ recordKey[s.uri].dirty.rec = s.doc

\* A key is deleted alone, with its record's commit and with every association
\* that targets it; one that is not deleted keeps its id.
KeyDeleted(t) ==
    LET s == tx[t] IN
    /\ \A u \in Uri : (recordKey[u].by = t /\ recordKey[u].dirty.id = NoId) =>
          /\ s.kind = "delete" /\ s.pc = "commit" /\ UriOf(s.doc) = u
          /\ Sole(recordKey, u, t) /\ recordKey[u].row.id # NoId
          /\ \A x \in Slots : association[x].row.target = recordKey[u].row.id =>
                association[x].by = t /\ association[x].dirty = NoAssociation
    /\ (s.kind = "delete" /\ s.pc = "commit" /\ recordKey[UriOf(s.doc)].row.rec = s.doc) =>
          recordKey[UriOf(s.doc)].by = t /\ recordKey[UriOf(s.doc)].dirty = NoKey

KeyKeepsId(t) ==
    \A u \in Uri : (recordKey[u].by = t /\ recordKey[u].dirty.id # NoId) =>
        recordKey[u].row.id \in {NoId, recordKey[u].dirty.id}

\* An association is inserted under the share lock of the key it targets, and
\* deleted with that key.
Attached1(t) ==
    LET s == tx[t] IN
    \A x \in Slots : (association[x].by = t /\ association[x].dirty # NoAssociation) =>
        /\ s.kind = "associate" /\ s.pc \in {"publish", "commit"}
        /\ x = Slot[s.doc]
        /\ association[x].dirty = [doc |-> s.doc, target |-> s.pid]
        /\ association[x].row = NoAssociation
        /\ recordKey[s.uri].row.id = s.pid /\ t \in recordKey[s.uri].share

Detached(t) ==
    LET s == tx[t]  key == recordKey[UriOf(s.doc)] IN
    \A x \in Slots : (association[x].by = t /\ association[x].dirty = NoAssociation) =>
        /\ s.kind = "delete" /\ s.pc = "commit"
        /\ association[x].row # NoAssociation
        /\ key.by = t /\ key.dirty.id = NoId
        /\ association[x].row.target = key.row.id

Grip(t) ==
    /\ CommitHeld(t)
    /\ RecordInserted(t) /\ RecordDeleted(t)
    /\ KeyPointed(t) /\ KeyDeleted(t) /\ KeyKeepsId(t)
    /\ Attached1(t) /\ Detached(t)

(***************************************************************************)
(* What is committed: a key's record, a record's commit and an             *)
(* association's target and commit are there.                              *)
(***************************************************************************)
RowsResolve ==
    /\ \A d \in RecordDoc : record[d].row => commitLog[d].row # "none"
    /\ \A u \in Uri : Live(u) # NoDoc => record[Live(u)].row

RowsHang ==
    \A x \in Slots : association[x].row # NoAssociation =>
        LET a == association[x].row IN
        /\ a.doc \in AssocDoc /\ a.target # NoId
        /\ recordKey[Target[a.doc]].row.id = a.target
        /\ commitLog[a.doc].row # "none"

Integrity ==
    /\ KeysInductive
    /\ \A t \in Tx : Course(tx[t]) /\ Announced(t) /\ Grip(t)
    /\ Nested /\ RowsResolve /\ RowsHang

(***************************************************************************)
(* On whose behalf: a nested CreateRecord creates a reference to the       *)
(* document of its caller, which is a user's, and only a request deletes.  *)
(***************************************************************************)
OnBehalf ==
    \A p \in Req : LET s == tx[Main(p)]  r == tx[Ref(p)] IN
        /\ (s.kind = "create" /\ s.pc # "new") => s.doc \in UserDoc
        /\ r.pc # "idle" =>
              r.kind = "create" /\ r.doc \in RefDoc /\ r.doc.by = p /\ r.doc.of = s.doc

Accounted == Integrity /\ OnBehalf /\ AnnouncedUnlessFault /\ DanglingOnlyAfterFault
=============================================================================
