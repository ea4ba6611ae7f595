------------------------------ MODULE RecordTree ------------------------------
(***************************************************************************)
(* Why a key hangs on its parent, why no request waits for itself in       *)
(* secret, and why an acknowledged record is in its collections: the       *)
(* inductive invariants behind Attached, NoHiddenDeadlock and Distributed. *)
(*                                                                         *)
(* None of the three holds of every tree of URIs.  Each is a matter of who *)
(* may touch which part of it, so each comes with the condition on the     *)
(* requests that the runs outside of it show to be needed.                 *)
(***************************************************************************)
EXTENDS RecordIntegrity

\* A delete of the key at u, named by its URI or by the id of a document.
Deletes(kind, doc, uri, u) ==
    kind = "delete" /\ (uri = u \/ (doc \in RecordDoc /\ UriOf(doc) = u))

Undeleted(K) ==
    \A u \in K, p \in Req : \A o \in Menu[p] : ~Deletes(o.kind, o.doc, o.uri, u)

Spared(K) == \A u \in K, t \in Tx : ~Deletes(tx[t].kind, tx[t].doc, tx[t].uri, u)

(***************************************************************************)
(* Attached: no request deletes a key that has children.  Without this     *)
(* they keep the id of a row that is gone, even when they are replaced and *)
(* the parent created again for them, as RecreatedParent shows.            *)
(***************************************************************************)
Parents == {Parent[u] : u \in Uri} \ {Root}

ParentsStay == Undeleted(Parents)

\* A key of u with this parent id hangs, in the keys T as t sees them, on its parent's.
Hooked(T, u, id, t) ==
    IF Parent[u] = Root THEN id = NoId
    ELSE LET up == Sees(T, Parent[u], t) IN up.id # NoId /\ id = up.id

\* What a transaction has written, and what it is about to write, is hooked.
Hooking(t) ==
    /\ \A u \in Uri : (recordKey[u].by = t /\ recordKey[u].dirty.id # NoId) =>
          Hooked(recordKey, u, recordKey[u].dirty.parent, t)
    /\ tx[t].pc \in {"plant", "point"} =>
          Hooked(recordKey, tx[t].path[1], tx[t].pid, t)

RowsHooked ==
    \A u \in Uri : Has(u) =>
        IF Parent[u] = Root THEN recordKey[u].row.parent = NoId
        ELSE /\ Has(Parent[u])
             /\ recordKey[u].row.parent = recordKey[Parent[u]].row.id

Grown ==
    /\ Integrity /\ Spared(Parents)
    /\ RowsHooked /\ \A t \in Tx : Hooking(t)

(***************************************************************************)
(* NoHiddenDeadlock: references have a part N of the tree to themselves.   *)
(* It holds all their URIs and no user's, is closed downwards, and what it *)
(* hangs on is planted; nobody deletes any of that.                        *)
(***************************************************************************)
Around(N) == (N \cup {Parent[u] : u \in N}) \ {Root}

Reserved(N) ==
    /\ \A d \in RefDoc : UriOf(d) \in N
    /\ \A d \in UserDoc : Home[d] \notin N
    /\ \A u \in Uri : Parent[u] \in N => u \in N
    /\ \A u \in N : Parent[u] \in N \cup Planted \cup {Root}
    /\ Undeleted(Around(N))

CollectionsApart == \E N \in SUBSET Uri : Reserved(N)

Lockers(c) == ({c.by, c.excl} \cup c.share) \ {NoTx}

IsRef(t) == t[2] = "ref"

\* An association that is there waits for nothing any more.
Settled(t) == tx[t].kind = "associate" /\ tx[t].pc \in {"publish", "commit"}

\* Who holds anything of a reference, or of a key in N, creates a reference, unless it
\* is an association to that key that waits for nothing.
Apart(N, t) ==
    /\ \A d \in RefDoc :
          (t \in Lockers(commitLog[d]) \/ t \in Lockers(record[d])) => IsRef(t)
    /\ \A u \in N : t \in Lockers(recordKey[u]) => IsRef(t) \/ Settled(t)
    /\ tx[t].pc \in {"climb", "plant", "point"} =>
          \A i \in 1 .. Len(tx[t].path) : tx[t].path[i] \in N <=> IsRef(t)

Standing(N) == \A u \in Planted \cap Around(N) : Has(u)

Separate(N) ==
    /\ Integrity /\ OnBehalf /\ Spared(Around(N))
    /\ Standing(N) /\ \A t \in Tx : Apart(N, t)

(***************************************************************************)
(* Distributed: besides, the collections are planted, a reference's URI is *)
(* not that of a reference to another document, and neither sending an     *)
(* event nor COMMIT fails on its own.                                      *)
(***************************************************************************)
Items == {UriOf(d) : d \in RefDoc}

CollectionsStand ==
    /\ Reserved(Items)
    /\ \A d \in RefDoc : d.in \in Planted
    /\ \A d, e \in RefDoc : UriOf(d) = UriOf(e) => d.of = e.of
    /\ Faults \cap {"publish", "commit"} = {}

Active(p) == tx[Ref(p)].pc # "idle"

\* A reference is made once: its creator has begun, is past its turn in the loop over
\* memberOf, and is not at it now.
Made(d) ==
    LET s == tx[Main(d.by)] IN
    /\ s.kind = "create" /\ s.pc # "new" /\ s.doc = d.of /\ d.in \notin s.todo
    /\ ~(Active(d.by) /\ tx[Ref(d.by)].doc = d)

UnmadeIsNowhere == \A d \in RefDoc : ~Made(d) => commitLog[d].row = "none"

\* A transaction that touches the rows of a reference creates it or replaces it;
RowsTended(t) ==
    LET s == tx[t] IN
    \A d \in RefDoc :
        /\ commitLog[d].by = t =>
              /\ s.kind = "create"
              /\ \/ s.doc = d /\ s.pc \in {"insert_record"} \cup Listed
                 \/ s.old = d /\ s.pc \in Pointed
        /\ commitLog[d].excl # t
        /\ record[d].excl = t => record[d].by = t
        /\ t \in record[d].share => s.kind = "create" /\ s.doc = d /\ s.pc \in Pointed

\* one that touches its key points it at the document it creates, or is about to.
KeysTended(t) ==
    LET s == tx[t] IN
    \A u \in Items :
        /\ recordKey[u].by = t => recordKey[u].dirty.rec # NoDoc
        /\ recordKey[u].excl = t =>
              s.kind = "create" /\ s.uri = u /\ s.pc \in Listed \ {"lock_key"}
        /\ t \in recordKey[u].share => Settled(t)

\* It plants nothing, holds what it is about to replace, and has written what it needs
\* to go on.
Tending(t) ==
    LET s == tx[t] IN
    (s.kind = "create" /\ s.uri \in Items) =>
        /\ s.pc # "plant"
        /\ s.pc \in {"climb", "point"} => s.path = <<s.uri>>
        /\ (s.pc \in Listed \ {"lock_key"} /\ s.old # NoDoc) =>
              recordKey[s.uri].excl = t /\ commitLog[s.old].row # "none"
        /\ s.pc \in {"insert_record"} \cup Listed => commitLog[s.doc].by = t
        /\ s.pc \in Listed => record[s.doc].by = t /\ record[s.doc].dirty

Tended(t) == RowsTended(t) /\ KeysTended(t) /\ Tending(t)

\* Who writes the key of a reference has it locked, if anybody has.
OneHolder ==
    \A u \in Items : recordKey[u].by = NoTx \/ recordKey[u].excl \in {NoTx, recordKey[u].by}

\* Every collection is still to come, its reference is being made, or it is there.
InCollection(c, d) == LET r == Live(Item[<<c, d>>]) IN r \in RefDoc /\ r.of = d

Accruing(p) ==
    LET s == tx[Main(p)] IN
    s.kind = "create" =>
        /\ s.pc \in {"distribute", "publish", "commit", "ok"} =>
              \A c \in MemberOf[s.doc] :
                  \/ c \in s.todo
                  \/ Active(p) /\ tx[Ref(p)].doc.in = c
                  \/ InCollection(c, s.doc)
        /\ s.pc \in {"insert_commit", "flag_old", "drop_old"} \cup Creating =>
              s.todo = MemberOf[s.doc]
        /\ s.pc \in {"publish", "commit", "ok"} => s.todo = {}
        /\ Active(p) => tx[Ref(p)].doc.in \notin s.todo

Gathered ==
    /\ Separate(Items)
    /\ UnmadeIsNowhere /\ OneHolder
    /\ \A t \in Tx : Tended(t)
    /\ \A p \in Req : Accruing(p)
=============================================================================
