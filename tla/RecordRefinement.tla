--------------------------- MODULE RecordRefinement ---------------------------
(***************************************************************************)
(* Why the four tables implement the abstract document store: the          *)
(* inductive invariant behind ImplementsDocumentStore and                  *)
(* SupersededIsRetired.                                                    *)
(*                                                                         *)
(* Integrity says that what a transaction has written hangs together; the  *)
(* refinement needs that it has written exactly what one step of the store *)
(* changes, and that the document it is about to retire is the one its URI *)
(* resolves to by then.  The latter is what SELECT ... FOR UPDATE is for   *)
(* (record.go:118), and it holds only where there is a row to lock: two    *)
(* documents that share a URI must find its key planted.                   *)
(***************************************************************************)
EXTENDS RecordIntegrity

\* Several documents are keyed by the URI.
Shared(u) == \E d, e \in RecordDoc : d # e /\ UriOf(d) = u /\ UriOf(e) = u

\* Whom a delete may name.
MayName(kind, doc, uri) ==
    kind = "delete" =>
        /\ doc \in RecordDoc => ~Shared(UriOf(doc))
        /\ uri \in Uri => ~Shared(uri)

(***************************************************************************)
(* The key of a URI that several documents share is there from the start   *)
(* and no request deletes it.  Without this the code does not implement    *)
(* the store, as the run FirstCreateRace shows.                            *)
(***************************************************************************)
SharedKeysStay ==
    /\ \A u \in Uri : Shared(u) => u \in Planted
    /\ \A p \in Req : \A o \in Menu[p] : MayName(o.kind, o.doc, o.uri)

Writing  == {"insert_record"} \cup Listed \cup Attaching
Retiring == {"drop_old", "distribute", "publish", "commit"}

\* A transaction writes the commit of its own document, as new or as gone, and
\* flags that of the document it replaces.
CommitsWritten(t) ==
    LET s == tx[t] IN
    \A d \in Doc : commitLog[d].by = t =>
        \/ /\ s.kind \in {"create", "associate"} /\ s.pc \in Writing /\ d = s.doc
           /\ commitLog[d].row = "none" /\ commitLog[d].dirty = "kept"
        \/ /\ s.kind = "create" /\ s.pc \in Retiring /\ d = s.old /\ d # s.doc
           /\ commitLog[d].row # "none" /\ commitLog[d].dirty = "gc"
        \/ /\ s.kind = "delete" /\ s.pc \in Deleting /\ d = s.doc
           /\ commitLog[d].row # "none" /\ commitLog[d].dirty = "none"

\* A key that a transaction plants was not there, one that it deletes resolved to the
\* document it deletes.
KeysWritten(t) ==
    \A u \in Uri : (recordKey[u].by = t /\ recordKey[u].dirty.rec = NoDoc) =>
        IF recordKey[u].dirty.id = NoId
        THEN recordKey[u].row.rec = tx[t].doc
        ELSE recordKey[u].row = NoKey

\* What a creation found at a shared URI is what the URI resolves to until it ends.
OldIsLive(t) ==
    LET s == tx[t] IN
    (s.kind = "create" /\ s.pc \in Listed \ {"lock_key"} /\ Shared(s.uri)) =>
        /\ s.old = recordKey[s.uri].row.rec
        /\ Sole(recordKey, s.uri, t)

\* It is flagged, then its record is deleted.
OldIsRetired(t) ==
    LET s == tx[t] IN
    (s.kind = "create" /\ s.old \notin {NoDoc, s.doc}) =>
        /\ s.pc \in Retiring => commitLog[s.old].by = t /\ commitLog[s.old].dirty = "gc"
        /\ s.pc \in Retiring \ {"drop_old"} => record[s.old].by = t /\ ~record[s.old].dirty

Exact(t) ==
    /\ CommitsWritten(t) /\ KeysWritten(t)
    /\ OldIsLive(t) /\ OldIsRetired(t)
    /\ MayName(tx[t].kind, tx[t].doc, tx[t].uri)

SharedKeysThere == \A u \in Uri : Shared(u) => Has(u)

Exactness ==
    /\ Integrity
    /\ \A t \in Tx : Exact(t)
    /\ SharedKeysThere /\ SupersededIsRetired
=============================================================================
