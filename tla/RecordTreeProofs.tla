--------------------------- MODULE RecordTreeProofs ---------------------------
(***************************************************************************)
(* Theorems about the tree of keys and the references in it: where nobody  *)
(* deletes a key with children, every key hangs on its parent's; where     *)
(* references have a part of the tree to themselves, no request waits for  *)
(* itself unseen; and where their collections stand, too, a record that    *)
(* was acknowledged is in every one of them.                               *)
(*                                                                         *)
(* Each of the three invariants says something of every transaction.  What *)
(* a step may do to one is the same for all of them, so it is said once,   *)
(* in StepCases.                                                           *)
(***************************************************************************)
EXTENDS RecordTree, RecordRefinementProofs

-----------------------------------------------------------------------------
(* What a step does to a transaction.                                      *)

\* A transaction that does not move, with all it has written and locked.
Still(x) == tx'[x] = tx[x] /\ KeptAll(x)

\* One that holds nothing.
Free(x) ==
    /\ \A d \in Doc : x \notin Lockers(commitLog[d])
    /\ \A d \in RecordDoc : x \notin Lockers(record[d])
    /\ \A u \in Uri : x \notin Lockers(recordKey[u])

\* One that was rolled back.
Gone(x) ==
    /\ NoRowChanges /\ Free(x)'
    /\ \/ \E r \in Replies \ {"ok"} : tx'[x] = Ended(x, r)
       \/ tx'[x] = tx[x] /\ tx[x].pc \in AtRest

\* A reference that is begun.
Starts(x) ==
    \E p \in Req :
        /\ x = Ref(p) /\ Distribute(Main(p))
        /\ tx[x].pc = "idle" /\ tx'[x].pc # "idle"

\* A rollback leaves nothing of the transactions it ends,
LEMMA RolledBackFree ==
    ASSUME NEW K, NEW V, NEW T \in [K -> CellOf(V, Tx)], NEW S \in SUBSET Tx, NEW x \in S
    PROVE  \A k \in K : x \notin Lockers(RolledBack(T, S)[k])
<1> DEFINE U == RolledBack(T, S)
<1>1. DOMAIN T = K /\ NoTx \notin Tx /\ x \in Tx /\ x # NoTx
  BY KeysAssumption
<1>2. ASSUME NEW j \in K
      PROVE  U[j].share = T[j].share \ S /\ U[j].excl \notin S /\ U[j].by \notin S
  BY <1>1 DEF RolledBack, Release, CellOf
<1> HIDE DEF U
<1>3. \A k \in K : x \notin Lockers(U[k])
  BY <1>1, <1>2 DEF Lockers
<1> QED
  BY <1>3 DEF U

\* nor does a commit of its own.
LEMMA CommittedFree ==
    ASSUME NEW K, NEW V, NEW T \in [K -> CellOf(V, Tx)], NEW t \in Tx
    PROVE  \A k \in K : t \notin Lockers(Committed(T, t)[k])
<1> DEFINE U == Committed(T, t)
<1>1. DOMAIN T = K /\ NoTx \notin Tx /\ t # NoTx
  BY KeysAssumption
<1>2. ASSUME NEW j \in K
      PROVE  t \notin U[j].share /\ U[j].excl # t /\ U[j].by # t
  BY <1>1 DEF Committed, Release, CellOf
<1> HIDE DEF U
<1>3. \A k \in K : t \notin Lockers(U[k])
  BY <1>1, <1>2 DEF Lockers
<1> QED
  BY <1>3 DEF U

\* A statement that fails ends its transaction.
LEMMA RollbackGone ==
    ASSUME Parts, NEW S \in SUBSET Tx, Rollback(S), NEW x \in S,
           \/ \E r \in Replies \ {"ok"} : tx'[x] = Ended(x, r)
           \/ tx'[x] = tx[x] /\ tx[x].pc \in AtRest
    PROVE  Gone(x)
<1>1. NoRowChanges
  BY RolledBackRows
<1>2. Free(x)'
  BY TablesTyped, RolledBackFree DEF Rollback, Free
<1> QED
  BY <1>1, <1>2 DEF Gone

\* as does any error.
LEMMA FailGone ==
    ASSUME Parts, NEW t \in Tx, NEW r \in Replies \ {"ok"}, Fail(t, r)
    PROVE  Gone(t)
<1>1. {t} \in SUBSET Tx /\ t \in {t} /\ Rollback({t}) /\ tx'[t] = Ended(t, r)
  BY DEF Fail, Parts, TxInv
<1> QED
  BY <1>1, RollbackGone

(***************************************************************************)
(* A step leaves a transaction as it is, unless it is that transaction's   *)
(* statement, the beginning of its request or its reference, or its end;   *)
(* and committed rows change only by a commit.                             *)
(***************************************************************************)
LEMMA StepCases ==
    ASSUME Integrity, [Next]_vars, NEW x \in Tx
    PROVE  \/ Still(x) /\ (NoRowChanges \/ \E t \in Tx \ {x} : Commit(t))
           \/ Statement(x)
           \/ \E p \in Req : x = Main(p) /\ Begin(p)
           \/ Starts(x)
           \/ Gone(x)
<1>1. /\ Parts /\ tx \in [Tx -> TxState] /\ Nested
      /\ {"error", "uncommitted", "cancelled", "crashed"} \subseteq Replies \ {"ok"}
  BY IntegrityOf DEF Parts, TxInv, Integrity, Replies
<1>2. CASE UNCHANGED vars
  BY <1>2, NothingKeeps, TablesUntouched DEF vars, tables, Still, KeptAll
<1>3. ASSUME NEW p \in Req, Begin(p), x # Main(p)
      PROVE  Still(x) /\ NoRowChanges
  <2>1. tx'[x] = tx[x] /\ UNCHANGED tables
    BY <1>1, <1>3 DEF Begin
  <2> QED
    BY <2>1, NothingKeeps, TablesUntouched DEF tables, Still, KeptAll
<1>4. ASSUME NEW t \in Tx \ {x}, Statement(t)
      PROVE  \/ Still(x) /\ (NoRowChanges \/ Commit(t))
             \/ Starts(x)
  <2>1. KeptAll(x)
    BY <1>4, WriterSteady, ReaderSteady DEF Statement
  <2>2. NoRowChanges \/ Commit(t)
    <3>1. Goes(t) \/ Ends(t)
      BY <1>1, <1>4, WriterSteps, ReaderSteps DEF Statement
    <3>2. \A r : Fail(t, r) => NoRowChanges
      <4>1. {t} \in SUBSET Tx
        OBVIOUS
      <4> QED
        BY <1>1, <4>1, RolledBackRows DEF Fail
    <3>3. \A r : Reply(t, r) => NoRowChanges
      BY TablesUntouched DEF Reply
    <3> QED
      BY <3>1, <3>2, <3>3 DEF Goes, Ends
  <2>3. CASE tx'[x] = tx[x]
    BY <2>1, <2>2, <2>3 DEF Still
  <2>4. CASE tx'[x] # tx[x]
    <3>1. Distribute(t) /\ x = Ref(t[1])
      BY <1>1, <1>4, <2>4, StatementOfOne
    <3>2. t[1] \in Req /\ t = Main(t[1])
      BY <1>4, <3>1 DEF Tx, Main, Ref
    <3>3. ~Goto(t, "publish")
      BY <1>1, <1>4, <2>4 DEF Goto
    <3>4. PICK c : /\ tx[x].pc = "idle"
                   /\ tx' = [tx EXCEPT
                       ![t].todo = Remaining(@, c),
                       ![x] = [Fresh("insert_commit") EXCEPT
                           !.doc = [of |-> tx[t].doc, in |-> c, by |-> t[1]],
                           !.uri = RefUri(t, c)]]
      BY <3>1, <3>3 DEF Distribute
    <3>5. tx'[x].pc = "insert_commit"
      BY <1>1, <3>4 DEF Fresh
    <3> QED
      BY <3>1, <3>2, <3>4, <3>5 DEF Starts
  <2> QED
    BY <2>3, <2>4
<1>5. ASSUME NEW S \in SUBSET Tx, Rollback(S), NEW r \in Replies \ {"ok"},
             x \notin S => tx'[x] = tx[x],
             x \in S => \/ tx'[x] = Ended(x, r)
                        \/ tx'[x] = tx[x] /\ tx[x].pc \in AtRest
      PROVE  Gone(x) \/ (Still(x) /\ NoRowChanges)
  <2>1. CASE x \in S
    BY <1>1, <1>5, <2>1, RollbackGone
  <2>2. CASE x \notin S
    BY <1>1, <1>5, <2>2, RollbackSteady, RolledBackRows DEF Still
  <2> QED
    BY <2>1, <2>2
<1>6. ASSUME NEW t \in Tx, DeadlockAbort(t) \/ CommitFails(t)
      PROVE  Gone(x) \/ (Still(x) /\ NoRowChanges)
  <2>1. {t} \in SUBSET Tx /\ Rollback({t})
    BY <1>6 DEF DeadlockAbort, CommitFails, Fail
  <2>2. PICK r \in {"error", "uncommitted"} : tx'[x] = IF x = t THEN Ended(x, r) ELSE tx[x]
    BY <1>1, <1>6 DEF DeadlockAbort, CommitFails, Fail
  <2> QED
    BY <1>1, <1>5, <2>1, <2>2
<1>7. ASSUME NEW p \in Req, Cancel(p)
      PROVE  Gone(x) \/ (Still(x) /\ NoRowChanges)
  <2>1. {Main(p), Ref(p)} \in SUBSET Tx /\ Rollback({Main(p), Ref(p)})
    BY <1>7 DEF Cancel, Main, Ref, Tx
  <2>2. x[1] = p <=> x \in {Main(p), Ref(p)}
    BY DEF Main, Ref, Tx
  <2>3. tx'[x] = IF x \in {Main(p), Ref(p)} THEN Ended(x, "cancelled") ELSE tx[x]
    BY <1>7, <2>2 DEF Cancel, Over
  <2> QED
    BY <1>1, <1>5, <2>1, <2>3
<1>8. CASE Crash
  <2>1. Tx \in SUBSET Tx /\ Rollback(Tx)
    BY <1>8 DEF Crash
  <2>2. PICK p \in Req : x \in {Main(p), Ref(p)} /\ x[1] = p
    BY DEF Main, Ref, Tx
  <2>3. tx'[x] = IF InFlight(p) THEN Ended(x, "crashed") ELSE tx[x]
    BY <1>8, <2>2 DEF Crash, Over
  <2>4. ~InFlight(p) => tx[x].pc \in AtRest
    BY <1>1, <2>2 DEF InFlight, Nested, AtRest, Replies
  <2> QED
    BY <1>1, <1>5, <2>1, <2>3, <2>4
<1> QED
  BY <1>2, <1>3, <1>4, <1>6, <1>7, <1>8 DEF Next, Quiet

\* What a reference is begun with.
LEMMA StartsWith ==
    ASSUME Integrity, NEW p \in Req, Distribute(Main(p)),
           tx[Ref(p)].pc = "idle", tx'[Ref(p)].pc # "idle"
    PROVE  LET t == Main(p)  s == tx'[Ref(p)] IN
           /\ UNCHANGED tables
           /\ \E c \in tx[t].todo :
                 /\ tx'[t] = [tx[t] EXCEPT !.todo = Remaining(@, c)]
                 /\ s.pc = "insert_commit" /\ s.kind = "create"
                 /\ s.doc = [of |-> tx[t].doc, in |-> c, by |-> p]
                 /\ s.doc \in RefDoc /\ s.uri = UriOf(s.doc) /\ s.todo = {}
<1> DEFINE t == Main(p)
           x == Ref(p)
<1>1. /\ t \in Tx /\ x \in Tx /\ t # x /\ t[1] = p /\ tx \in [Tx -> TxState]
      /\ WellDirected(tx[t]) /\ tx[t].pc = "distribute"
  <2>1. t \in Tx /\ x \in Tx /\ t # x /\ t[1] = p
    BY DEF Main, Ref, Tx
  <2> QED
    BY <2>1, IntegrityOf DEF Parts, TxInv, Distribute, At
<1>2. ~Goto(t, "publish")
  BY <1>1 DEF Goto
<1>3. PICK c \in tx[t].todo :
          tx' = [tx EXCEPT
              ![t].todo = Remaining(@, c),
              ![x] = [Fresh("insert_commit") EXCEPT
                  !.doc = [of |-> tx[t].doc, in |-> c, by |-> p],
                  !.uri = RefUri(t, c)]]
  BY <1>1, <1>2 DEF Distribute
<1>4. /\ tx'[t] = [tx[t] EXCEPT !.todo = Remaining(@, c)]
      /\ tx'[x].pc = "insert_commit" /\ tx'[x].kind = "create" /\ tx'[x].todo = {}
      /\ tx'[x].doc = [of |-> tx[t].doc, in |-> c, by |-> p]
      /\ tx'[x].uri = Item[<<c, tx[t].doc>>]
  BY <1>1, <1>3 DEF Fresh, TxState, RefUri
<1>5. tx[t].doc \in UserDoc /\ c \in MemberOf[tx[t].doc]
  BY <1>1, <1>3 DEF WellDirected
<1>6. tx'[x].doc \in RefDoc /\ tx'[x].doc \notin UserDoc
  BY <1>4, <1>5, KeysAssumption DEF RefDoc
<1>7. tx'[x].uri = UriOf(tx'[x].doc)
  BY <1>4, <1>6 DEF UriOf
<1> QED
  BY <1>3, <1>4, <1>6, <1>7 DEF Distribute, tables

-----------------------------------------------------------------------------
(* Keys that nobody deletes.                                               *)

\* A transaction that has written such a key has not deleted it.
LEMMA SparedNotErased ==
    ASSUME Integrity, NEW K, Spared(K), NEW u \in Uri, u \in K, NEW t \in Tx,
           recordKey[u].by = t
    PROVE  recordKey[u].dirty.id # NoId
<1>1. Grip(t) /\ Course(tx[t])
  BY IntegrityOf
<1>2. SUFFICES ASSUME recordKey[u].dirty.id = NoId
               PROVE  FALSE
  OBVIOUS
<1>3. tx[t].kind = "delete" /\ tx[t].pc = "commit" /\ UriOf(tx[t].doc) = u
  BY <1>1, <1>2 DEF Grip, KeyDeleted
<1>4. tx[t].doc \in RecordDoc
  BY <1>1, <1>3 DEF Course, Written, Deleting
<1> QED
  BY <1>3, <1>4 DEF Spared, Deletes

\* Its row keeps its id.
LEMMA SparedKeepsId ==
    ASSUME Integrity, NEW K, Spared(K), [Next]_vars, NEW u \in Uri, u \in K, Has(u)
    PROVE  recordKey'[u].row.id = recordKey[u].row.id
<1>1. Parts /\ DOMAIN recordKey = Uri
  BY PartsOfInductive, KeyTyped DEF Integrity
<1>2. CASE NoRowChanges
  BY <1>1, <1>2 DEF NoRowChanges, SameRows
<1>3. ASSUME NEW t \in Tx, Commit(t)
      PROVE  recordKey'[u].row.id = recordKey[u].row.id
  <2>1. recordKey'[u].row = Sees(recordKey, u, t)
    BY <1>3, CommitRows
  <2>2. recordKey[u].by = t => recordKey[u].dirty.id = recordKey[u].row.id
    BY IntegrityOf, SparedNotErased DEF Grip, KeyKeepsId, Has
  <2> QED
    BY <2>1, <2>2 DEF Sees
<1> QED
  BY <1>1, <1>2, <1>3, OnlyCommits

\* A delete names a key from its first statement to its end, or none.
LEMMA NextSpared ==
    ASSUME Integrity, [Next]_vars, NEW K \in SUBSET Uri, Undeleted(K), Spared(K)
    PROVE  Spared(K)'
<1>1. ASSUME NEW x \in Tx, NEW u \in K
      PROVE  ~Deletes(tx'[x].kind, tx'[x].doc, tx'[x].uri, u)
  <2>1. /\ ~Deletes(tx[x].kind, tx[x].doc, tx[x].uri, u)
        /\ Parts /\ tx \in [Tx -> TxState] /\ Course(tx[x]) /\ WellDirected(tx[x])
    BY IntegrityOf DEF Spared, Parts, TxInv
  <2>2. CASE tx'[x] = tx[x]
    BY <2>1, <2>2
  <2>3. ASSUME NEW r, tx'[x] = Ended(x, r)
        PROVE  ~Deletes(tx'[x].kind, tx'[x].doc, tx'[x].uri, u)
    BY <2>1, <2>3 DEF Ended, Fresh, Deletes
  <2>4. ASSUME NEW p \in Req, x = Main(p), Begin(p)
        PROVE  ~Deletes(tx'[x].kind, tx'[x].doc, tx'[x].uri, u)
    <3>1. PICK o \in Menu[p] :
              tx'[x].kind = o.kind /\ tx'[x].doc = o.doc /\ tx'[x].uri = o.uri
      BY <2>1, <2>4 DEF Begin, Fresh
    <3> QED
      BY <3>1 DEF Undeleted
  <2>5. CASE Starts(x)
    <3>1. PICK p \in Req : /\ x = Ref(p) /\ Distribute(Main(p))
                           /\ tx[x].pc = "idle" /\ tx'[x].pc # "idle"
      BY <2>5 DEF Starts
    <3>2. tx'[x].kind = "create"
      BY <3>1, StartsWith
    <3> QED
      BY <3>2 DEF Deletes
  <2>6. CASE Statement(x) /\ \A r : tx'[x] # Ended(x, r)
    <3>1. /\ tx'[x].kind = tx[x].kind /\ tx'[x].uri = tx[x].uri
          /\ tx'[x].doc = tx[x].doc \/ FindRecord(x)
      BY <2>1, <2>6, StatementSubject
    <3>2. CASE FindRecord(x)
      <4>1. tx[x].pc = "find_record" /\ tx'[x].doc \in {tx[x].old, NoDoc}
        BY <2>1, <3>2 DEF FindRecord, At
      <4>2. tx'[x].doc \in RecordDoc => UriOf(tx'[x].doc) = tx[x].uri
        BY <2>1, <4>1, DocumentKeys DEF Course, Replaced
      <4> QED
        BY <2>1, <3>1, <4>2 DEF Deletes
    <3> QED
      BY <2>1, <3>1, <3>2
  <2> QED
    BY <2>2, <2>3, <2>4, <2>5, <2>6, StepCases DEF Still, Gone
<1> QED
  BY <1>1 DEF Spared

\* It begins with nothing deleted.
LEMMA InitSpared ==
    ASSUME Init, NEW K
    PROVE  Spared(K)
<1>1. \A t \in Tx : tx[t].kind = "create"
  BY DEF Init, Fresh
<1> QED
  BY <1>1 DEF Spared, Deletes

-----------------------------------------------------------------------------
(* Keys hang on their parents.                                             *)

\* x sees the keys it saw, and has written what it had.
SeesAlike(x) ==
    \A u \in Uri :
        /\ recordKey'[u].row = recordKey[u].row
        /\ recordKey'[u].by = x <=> recordKey[u].by = x
        /\ recordKey[u].by = x => recordKey'[u].dirty = recordKey[u].dirty

\* A lock changes nothing that is seen.
LEMMA LocksAlike ==
    ASSUME Parts, NEW x \in Tx, NEW u,
           recordKey' \in {recordKey, Share(recordKey, u, x), ForUpdate(recordKey, u, x)}
    PROVE  SeesAlike(x)
<1>1. recordKey \in [Uri -> CellOf(KeyRow, Tx)]
  BY KeyTyped
<1>2. CASE recordKey' = Share(recordKey, u, x)
  BY <1>1, <1>2 DEF Share, CellOf, SeesAlike
<1>3. CASE recordKey' = ForUpdate(recordKey, u, x)
  BY <1>1, <1>3 DEF ForUpdate, CellOf, SeesAlike
<1>4. CASE recordKey' = recordKey
  BY <1>4 DEF SeesAlike
<1> QED
  BY <1>2, <1>3, <1>4

\* What a key hangs on is a URI, of which nobody deletes the key.
LEMMA ParentKeys ==
    ASSUME NEW u \in Uri, Parent[u] # Root
    PROVE  Parent[u] \in Uri /\ Parent[u] \in Parents
  BY KeysAssumption DEF Parents

\* What is hooked stays so while its parent's key, if seen, keeps its id.
LEMMA HookedStays ==
    ASSUME NEW T, NEW U, NEW u \in Uri, NEW id, NEW x \in Tx, Hooked(T, u, id, x),
           (Parent[u] # Root /\ Sees(T, Parent[u], x).id # NoId) =>
               Sees(U, Parent[u], x).id = Sees(T, Parent[u], x).id
    PROVE  Hooked(U, u, id, x)
  BY DEF Hooked

\* A transaction that sees the same and is not about to insert anything new.
LEMMA AlikeHooks ==
    ASSUME NEW x \in Tx, Hooking(x), SeesAlike(x),
           tx'[x].pc \in {"plant", "point"} =>
               tx'[x].path[1] \in Uri /\ Hooked(recordKey, tx'[x].path[1], tx'[x].pid, x)
    PROVE  Hooking(x)'
<1>1. ASSUME NEW v \in Uri
      PROVE  Sees(recordKey', v, x) = Sees(recordKey, v, x)
  BY DEF SeesAlike, Sees
<1>2. ASSUME NEW u \in Uri, NEW id, Hooked(recordKey, u, id, x)
      PROVE  Hooked(recordKey', u, id, x)
  BY <1>1, <1>2, ParentKeys, HookedStays
<1>3. ASSUME NEW u \in Uri, recordKey'[u].by = x, recordKey'[u].dirty.id # NoId
      PROVE  Hooked(recordKey', u, recordKey'[u].dirty.parent, x)
  BY <1>2, <1>3 DEF SeesAlike, Hooking
<1> QED
  BY <1>2, <1>3 DEF Hooking

\* A transaction that does not move, whoever commits: the ids it relies on stay.
LEMMA StillHooks ==
    ASSUME Grown, [Next]_vars, NEW x \in Tx, Still(x)
    PROVE  Hooking(x)'
<1>1. Integrity /\ Parts /\ TxInv /\ Spared(Parents) /\ Hooking(x)
  BY PartsOfInductive DEF Grown, Integrity, Parts
<1>2. \A u \in Uri :
        /\ recordKey'[u].by = x <=> recordKey[u].by = x
        /\ recordKey[u].by = x => recordKey'[u].dirty = recordKey[u].dirty
  BY <1>1, KeyTyped DEF Still, KeptAll, Kept, Own
<1>3. ASSUME NEW v \in Parents, v \in Uri, Sees(recordKey, v, x).id # NoId
      PROVE  Sees(recordKey', v, x).id = Sees(recordKey, v, x).id
  <2>1. CASE recordKey[v].by = x
    BY <1>2, <1>3, <2>1 DEF Sees
  <2>2. CASE recordKey[v].by # x
    BY <1>1, <1>2, <1>3, <2>2, SparedKeepsId DEF Sees, Has
  <2> QED
    BY <2>1, <2>2
<1>4. ASSUME NEW u \in Uri, NEW id, Hooked(recordKey, u, id, x)
      PROVE  Hooked(recordKey', u, id, x)
  BY <1>3, <1>4, ParentKeys, HookedStays
<1>5. tx[x].pc \in {"plant", "point"} => tx[x].path[1] \in Uri
  BY <1>1, ClimbingState
<1> QED
  BY <1>1, <1>2, <1>4, <1>5 DEF Hooking, Still

\* One that is over has nothing left to hook.
LEMMA FreeHooks ==
    ASSUME NEW x \in Tx, \A u \in Uri : recordKey'[u].by # x, tx'[x].pc \notin {"plant", "point"}
    PROVE  Hooking(x)'
  BY DEF Hooking

\* Neither has one that was rolled back.
LEMMA GoneHooks ==
    ASSUME NEW x \in Tx, Gone(x)
    PROVE  Hooking(x)'
<1>1. \A u \in Uri : recordKey'[u].by # x
  BY KeysAssumption DEF Gone, Free, Lockers
<1>2. tx'[x].pc \notin {"plant", "point"}
  BY EndedPc DEF Gone, AtRest, Replies, Reading
<1> QED
  BY <1>1, <1>2, FreeHooks

\* Most statements write no key, and look for no parent.
LEMMA QuietKeys ==
    ASSUME Integrity, NEW x \in Tx,
           \/ InsertCommit(x) \/ InsertRecord(x) \/ FlagOld(x) \/ DropOld(x)
           \/ Distribute(x) \/ Publish(x) \/ Associate(x) \/ Find(x)
           \/ DeleteCommit(x) \/ DeleteRecord(x)
    PROVE  \/ Gone(x)
           \/ SeesAlike(x) /\ tx'[x].pc \notin {"climb", "plant", "point"}
<1>1. Parts /\ tx \in [Tx -> TxState] /\ \A r \in Replies \ {"ok"} : Fail(x, r) => Gone(x)
  BY PartsOfInductive, FailGone DEF Integrity, Parts, TxInv
<1>2. "error" \in Replies \ {"ok"} /\ "unpublished" \in Replies \ {"ok"}
  BY DEF Replies
<1>3. \A pc : Goto(x, pc) => tx'[x].pc = pc
  BY <1>1, GotoOnward DEF Parts, Onward
<1>4. recordKey' = recordKey => SeesAlike(x)
  BY <1>1, LocksAlike
<1>5. \A r \in Replies : Reply(x, r) => SeesAlike(x) /\ tx'[x].pc \notin {"climb", "plant", "point"}
  <2>1. \A r \in Replies : Reply(x, r) => tx'[x] = Ended(x, r) /\ recordKey' = recordKey
    BY <1>1 DEF Reply, tables
  <2> QED
    BY <1>4, <2>1, EndedPc DEF Replies
<1>6. CASE InsertCommit(x) \/ FlagOld(x) \/ DropOld(x) \/ DeleteRecord(x)
  BY <1>3, <1>4, <1>6 DEF InsertCommit, FlagOld, DropOld, DeleteRecord
<1>7. CASE InsertRecord(x)
  BY <1>1, <1>2, <1>3, <1>4, <1>7 DEF InsertRecord, tables
<1>8. CASE Distribute(x)
  <2>1. tx[x].pc = "distribute" /\ recordKey' = recordKey
    BY <1>8 DEF Distribute, At, tables
  <2>2. tx'[x].pc \in {"distribute", "publish"}
    <3>1. CASE Goto(x, "publish")
      BY <1>3, <3>1
    <3>2. CASE ~Goto(x, "publish")
      <4>1. \E c, new :
              /\ tx[Ref(x[1])].pc = "idle"
              /\ tx' = [tx EXCEPT ![x].todo = Remaining(@, c), ![Ref(x[1])] = new]
        BY <1>8, <3>2 DEF Distribute
      <4>2. x # Ref(x[1])
        BY <2>1, <4>1
      <4> QED
        BY <1>1, <2>1, <4>1, <4>2 DEF TxState
    <3> QED
      BY <3>1, <3>2
  <2> QED
    BY <1>4, <2>1, <2>2
<1>9. CASE Publish(x)
  BY <1>1, <1>2, <1>3, <1>4, <1>9 DEF Publish, tables
<1>10. CASE Associate(x)
  <2>1. CASE FindTarget(x)
    <3>1. CASE ~Fail(x, "error")
      BY <1>1, <1>4, <2>1, <3>1 DEF FindTarget, TxState, tables
    <3> QED
      BY <1>1, <1>2, <3>1
  <2>2. CASE InsertAssociation(x)
    <3>1. CASE ~Fail(x, "error")
      <4>1. recordKey' = Share(recordKey, tx[x].uri, x) /\ Goto(x, "publish")
        BY <2>2, <3>1 DEF InsertAssociation
      <4> QED
        BY <1>1, <1>3, <4>1, LocksAlike
    <3> QED
      BY <1>1, <1>2, <3>1
  <2> QED
    BY <1>10, <2>1, <2>2 DEF Associate
<1>11. CASE Find(x)
  <2>1. recordKey' = recordKey
    BY <1>11 DEF Find, FindById, FindKey, FindRecord, FindCommit, Reply, tables
  <2>2. tx'[x].pc \notin {"climb", "plant", "point"}
    <3>1. CASE FindById(x)
      BY <1>2, <1>3, <1>5, <3>1 DEF FindById, Replies
    <3>2. CASE FindKey(x)
      BY <1>1, <1>5, <3>2 DEF FindKey, TxState, Replies
    <3>3. CASE FindRecord(x)
      BY <1>1, <3>3 DEF FindRecord, TxState
    <3>4. CASE FindCommit(x)
      BY <1>5, <3>4 DEF FindCommit, Replies
    <3> QED
      BY <1>11, <3>1, <3>2, <3>3, <3>4 DEF Find
  <2> QED
    BY <1>4, <2>1, <2>2
<1>12. CASE DeleteCommit(x)
  <2>1. \/ Goto(x, "delete_record") /\ recordKey' = recordKey
        \/ Reply(x, "ok")
    BY <1>12 DEF DeleteCommit
  <2> QED
    BY <1>3, <1>4, <1>5, <2>1 DEF Replies
<1> QED
  BY <1>6, <1>7, <1>8, <1>9, <1>10, <1>11, <1>12

\* The key that is about to be written is locked.
LEMMA LockKeyHooks ==
    ASSUME Grown, NEW t \in Tx, LockKey(t)
    PROVE  Hooking(t)'
<1>1. Parts /\ tx \in [Tx -> TxState] /\ Hooking(t)
  BY PartsOfInductive DEF Grown, Integrity, Parts, TxInv
<1>2. recordKey' \in {recordKey, ForUpdate(recordKey, tx[t].uri, t)}
  BY DEF LockKey, Locked
<1>3. tx'[t].pc = "climb"
  BY <1>1 DEF LockKey, TxState
<1> QED
  BY <1>1, <1>2, <1>3, LocksAlike, AlikeHooks

\* Looking up a parent finds what to hang the next key on, or that it is missing.
LEMMA ClimbHooks ==
    ASSUME Grown, NEW t \in Tx, Climb(t)
    PROVE  Hooking(t)'
<1> DEFINE path == tx[t].path
           up == Parent[path[1]]
<1>1. /\ Parts /\ TxInv /\ tx \in [Tx -> TxState] /\ Hooking(t) /\ tx[t].pc = "climb"
      /\ UNCHANGED tables
  BY PartsOfInductive DEF Grown, Integrity, Parts, TxInv, Climb, At
<1>2. path[1] \in Uri /\ Head(path) = path[1]
  BY <1>1, ClimbingState
<1>3. SeesAlike(t)
  BY <1>1, LocksAlike DEF tables
<1>4. ASSUME NEW id, Found(t, id)
      PROVE  tx'[t].path = path /\ tx'[t].pid = id
  BY <1>1, <1>4 DEF Found, TxState
<1>5. ASSUME NEW v, Missing(t, v)
      PROVE  tx'[t].pc = "climb"
  BY <1>1, <1>5 DEF Missing, TxState
<1>6. CASE up = Root /\ Found(t, NoId)
  <2>1. Hooked(recordKey, path[1], NoId, t)
    BY <1>6 DEF Hooked
  <2> QED
    BY <1>1, <1>2, <1>3, <1>4, <1>6, <2>1, AlikeHooks
<1>7. CASE up # Root /\ Present(up, t) /\ Found(t, Sees(recordKey, up, t).id)
  <2>1. Hooked(recordKey, path[1], Sees(recordKey, up, t).id, t)
    BY <1>7 DEF Hooked, Present
  <2> QED
    BY <1>1, <1>2, <1>3, <1>4, <1>7, <2>1, AlikeHooks
<1>8. CASE Missing(t, up)
  BY <1>1, <1>3, <1>5, <1>8, AlikeHooks
<1> QED
  BY <1>2, <1>6, <1>7, <1>8 DEF Climb

\* Nothing hangs on a key that was not there when it is written.
LEMMA NewKeyHooks ==
    ASSUME NEW T, NEW U, NEW u \in Uri, NEW t \in Tx, Sees(T, u, t).id = NoId,
           \A v \in Uri \ {u} : Sees(U, v, t) = Sees(T, v, t),
           NEW w \in Uri, NEW id, Hooked(T, w, id, t)
    PROVE  Hooked(U, w, id, t)
<1>1. Parent[w] # Root => Parent[w] \in Uri
  BY KeysAssumption
<1> QED
  BY <1>1 DEF Hooked

\* A placeholder hangs on what was found or planted before it, and so will the next.
LEMMA PlantHooks ==
    ASSUME Grown, NEW t \in Tx, Plant(t)
    PROVE  Hooking(t)'
<1> DEFINE path == tx[t].path
           u == Head(path)
           new == Placeholder(u, tx[t].pid)
           q == Tail(path)
<1>1. /\ Parts /\ TxInv /\ tx \in [Tx -> TxState] /\ Hooking(t) /\ tx[t].pc = "plant"
  BY PartsOfInductive DEF Grown, Integrity, Parts, TxInv, Plant, At
<1>2. /\ path \in Seq(Uri) /\ ChainTo(path, tx[t].uri) /\ Len(path) > 1
      /\ u = path[1] /\ u \in Uri /\ u # Root /\ tx[t].uri \in Uri
  BY <1>1, ClimbingState, KeysAssumption DEF WellDirected
<1>3. CASE Fail(t, "error")
  BY <1>1, <1>3, FailGone, GoneHooks DEF Replies
<1>4. CASE /\ ~Present(u, t)
           /\ recordKey' = Write(recordKey, u, t, new)
           /\ tx' = [tx EXCEPT ![t].pc = Descend(Tail(tx[t].path)),
                               ![t].path = Tail(@),
                               ![t].pid = NewId(u)]
  <2>1. tx'[t].path = q /\ tx'[t].pid = NewId(u) /\ q[1] \in Uri /\ Parent[q[1]] = u
    <3>1. tx'[t].path = q /\ tx'[t].pid = NewId(u)
      BY <1>1, <1>4 DEF TxState
    <3>2. q \in Seq(Uri) /\ ChainTo(q, tx[t].uri) /\ Parent[q[1]] = u
      BY <1>2, ChainShrinks
    <3>3. \A s \in Seq(Uri) : s # <<>> => s[1] \in Uri
      OBVIOUS
    <3>4. q # <<>>
      BY <3>2 DEF ChainTo
    <3> HIDE DEF q
    <3> QED
      BY <3>1, <3>2, <3>3, <3>4
  <2>2. /\ new.id = NewId(u) /\ new.id # NoId /\ new.parent = tx[t].pid
    BY <1>2, NewIdIsSome DEF Placeholder
  <2> HIDE DEF new, q, path
  <2>3. \A w \in Uri :
            /\ w # u => recordKey'[w].by = recordKey[w].by
                        /\ recordKey'[w].dirty = recordKey[w].dirty
            /\ w = u => recordKey'[w].by = t /\ recordKey'[w].dirty = new
            /\ recordKey'[w].row = recordKey[w].row
    <3>1. recordKey \in [Uri -> CellOf(KeyRow, Tx)]
      BY <1>1, KeyTyped
    <3> QED
      BY <1>2, <1>4, <3>1, WriteCells
  <2>4. ASSUME NEW w \in Uri, NEW id, Hooked(recordKey, w, id, t)
        PROVE  Hooked(recordKey', w, id, t)
    <3>1. Sees(recordKey, u, t).id = NoId
      BY <1>4 DEF Present
    <3>2. \A v \in Uri \ {u} : Sees(recordKey', v, t) = Sees(recordKey, v, t)
      BY <2>3 DEF Sees
    <3> QED
      BY <1>2, <2>4, <3>1, <3>2, NewKeyHooks
  <2>5. Hooked(recordKey', u, tx[t].pid, t)
    BY <1>1, <1>2, <2>4 DEF Hooking, path
  <2>6. Hooked(recordKey', q[1], NewId(u), t)
    BY <1>2, <2>1, <2>2, <2>3 DEF Hooked, Sees
  <2>7. \A w \in Uri : (recordKey'[w].by = t /\ recordKey'[w].dirty.id # NoId) =>
            Hooked(recordKey', w, recordKey'[w].dirty.parent, t)
    BY <1>1, <2>2, <2>3, <2>4, <2>5 DEF Hooking
  <2> QED
    BY <2>1, <2>6, <2>7 DEF Hooking
<1> QED
  BY <1>3, <1>4 DEF Plant

\* A transaction sees committed keys on their parents, too.
LEMMA SeenRowHooked ==
    ASSUME Grown, NEW t \in Tx, NEW u \in Uri, Has(u)
    PROVE  Hooked(recordKey, u, recordKey[u].row.parent, t)
<1> DEFINE up == Parent[u]
<1>1. Integrity /\ Spared(Parents) /\ RowsHooked
  BY DEF Grown
<1>2. CASE up = Root
  BY <1>1, <1>2 DEF RowsHooked, Hooked
<1>3. CASE up # Root
  <2>1. up \in Uri /\ up \in Parents
    BY <1>3, ParentKeys
  <2>2. Has(up) /\ recordKey[u].row.parent = recordKey[up].row.id
    BY <1>1, <1>3 DEF RowsHooked
  <2>3. recordKey[up].by = t => recordKey[up].dirty.id = recordKey[up].row.id
    BY <1>1, <2>1, <2>2, IntegrityOf, SparedNotErased DEF Grip, KeyKeepsId, Has
  <2> QED
    BY <1>3, <2>2, <2>3 DEF Hooked, Sees, Has
<1> QED
  BY <1>2, <1>3

\* An upsert hangs a new key on the parent found for it and leaves an old one where it is.
LEMMA PointHooks ==
    ASSUME Grown, NEW t \in Tx, Point(t)
    PROVE  Hooking(t)'
<1> DEFINE u == tx[t].uri
           key == Sees(recordKey, u, t)
           new == PointedAt(key, t)
           pc == IF Superseded(t) # {} THEN "flag_old" ELSE "distribute"
<1>1. /\ Parts /\ TxInv /\ KeysInv /\ tx \in [Tx -> TxState] /\ Hooking(t)
      /\ tx[t].pc = "point"
  BY PartsOfInductive DEF Grown, Integrity, Parts, TxInv, Point, At
<1>2. u \in Uri /\ tx[t].path[1] = u
  BY <1>1, ClimbingState DEF WellDirected, ChainTo
<1>3. CASE Fail(t, "error")
  BY <1>1, <1>3, FailGone, GoneHooks DEF Replies
<1>4. CASE recordKey' = Write(recordKey, u, t, new) /\ Goto(t, pc)
  <2>1. tx'[t].pc \notin {"plant", "point"}
    BY <1>1, <1>4, GotoOnward DEF Onward
  <2>2. /\ key.id = NoId => new.id # NoId /\ new.parent = tx[t].pid
        /\ key.id # NoId => new.id = key.id /\ new.parent = key.parent
    <3>1. key \in KeyRow
      BY <1>1, <1>2, SeenKey
    <3>2. NewId(u) # NoId
      BY <1>2, NewIdIsSome
    <3> QED
      BY <3>1, <3>2 DEF PointedAt, KeyRow
  <2> HIDE DEF new
  <2>3. \A w \in Uri :
            /\ w # u => recordKey'[w].by = recordKey[w].by
                        /\ recordKey'[w].dirty = recordKey[w].dirty
            /\ w = u => recordKey'[w].by = t /\ recordKey'[w].dirty = new
            /\ recordKey'[w].row = recordKey[w].row
    <3>1. recordKey \in [Uri -> CellOf(KeyRow, Tx)]
      BY <1>1, KeyTyped
    <3> QED
      BY <1>2, <1>4, <3>1, WriteCells
  <2>4. \A v \in Uri \ {u} : Sees(recordKey', v, t) = Sees(recordKey, v, t)
    BY <2>3 DEF Sees
  <2>5. ASSUME NEW w \in Uri, NEW id, Hooked(recordKey, w, id, t)
        PROVE  Hooked(recordKey', w, id, t)
    <3>1. CASE key.id = NoId
      BY <1>2, <2>4, <2>5, <3>1, NewKeyHooks
    <3>2. CASE key.id # NoId
      <4>1. Sees(recordKey', u, t).id = key.id
        BY <1>2, <2>2, <2>3, <3>2 DEF Sees
      <4>2. Parent[w] # Root => Parent[w] \in Uri
        BY KeysAssumption
      <4> QED
        BY <2>4, <2>5, <4>1, <4>2, HookedStays
    <3> QED
      BY <3>1, <3>2
  <2>6. Hooked(recordKey, u, new.parent, t)
    <3>1. CASE key.id = NoId
      BY <1>1, <1>2, <2>2, <3>1 DEF Hooking
    <3>2. CASE key.id # NoId /\ recordKey[u].by = t
      BY <1>1, <1>2, <2>2, <3>2 DEF Hooking, Sees
    <3>3. CASE key.id # NoId /\ recordKey[u].by # t
      BY <1>2, <2>2, <3>3, SeenRowHooked DEF Sees, Has
    <3> QED
      BY <3>1, <3>2, <3>3
  <2>7. \A w \in Uri : (recordKey'[w].by = t /\ recordKey'[w].dirty.id # NoId) =>
            Hooked(recordKey', w, recordKey'[w].dirty.parent, t)
    BY <1>1, <1>2, <2>3, <2>5, <2>6 DEF Hooking
  <2> QED
    BY <2>1, <2>7 DEF Hooking
<1> QED
  BY <1>3, <1>4 DEF Point

\* A key that is deleted has nothing hanging on it.
LEMMA DeleteKeyHooks ==
    ASSUME Grown, NEW t \in Tx, DeleteKey(t)
    PROVE  Hooking(t)'
<1> DEFINE d == tx[t].doc
           u == UriOf(d)
<1>1. /\ Parts /\ TxInv /\ Course(tx[t]) /\ Spared(Parents) /\ Hooking(t)
      /\ tx[t].pc = "delete_key" /\ Goto(t, "commit")
      /\ recordKey' \in {recordKey, Remove(recordKey, u, t, NoKey)}
  BY IntegrityOf DEF Grown, Parts, DeleteKey, At
<1>2. tx'[t].pc = "commit"
  BY <1>1, GotoOnward DEF Onward
<1>3. tx[t].kind = "delete" /\ d \in RecordDoc /\ u \in Uri
  BY <1>1, DocumentKeys DEF Course, Kinded, Written, Deleting
<1>4. u \notin Parents
  BY <1>1, <1>3 DEF Spared, Deletes
<1>5. CASE recordKey' = recordKey
  BY <1>1, <1>2, <1>5, LocksAlike, AlikeHooks
<1>6. CASE recordKey' = Remove(recordKey, u, t, NoKey)
  <2>1. \A w \in Uri :
            /\ w # u => recordKey'[w].by = recordKey[w].by
                        /\ recordKey'[w].dirty = recordKey[w].dirty
            /\ w = u => recordKey'[w].by = t /\ recordKey'[w].dirty = NoKey
            /\ recordKey'[w].row = recordKey[w].row
    <3>1. recordKey \in [Uri -> CellOf(KeyRow, Tx)]
      BY <1>1, KeyTyped
    <3> QED
      BY <1>3, <1>6, <3>1, RemoveCells
  <2>2. ASSUME NEW w \in Uri, NEW id, Hooked(recordKey, w, id, t)
        PROVE  Hooked(recordKey', w, id, t)
    <3>1. Parent[w] # Root => Parent[w] \in Uri \ {u}
      BY <1>4, ParentKeys
    <3>2. \A v \in Uri \ {u} : Sees(recordKey', v, t) = Sees(recordKey, v, t)
      BY <2>1 DEF Sees
    <3> QED
      BY <2>2, <3>1, <3>2, HookedStays
  <2>3. NoKey.id = NoId
    BY DEF NoKey
  <2>4. \A w \in Uri : (recordKey'[w].by = t /\ recordKey'[w].dirty.id # NoId) =>
            Hooked(recordKey', w, recordKey'[w].dirty.parent, t)
    BY <1>1, <2>1, <2>2, <2>3 DEF Hooking
  <2> QED
    BY <1>2, <2>4 DEF Hooking
<1> QED
  BY <1>1, <1>5, <1>6

\* Whatever a statement does, its transaction's keys stay hooked,
LEMMA StatementHooks ==
    ASSUME Grown, NEW t \in Tx, Statement(t)
    PROVE  Hooking(t)'
<1>1. Integrity /\ Parts /\ TxInv /\ Hooking(t)
  BY PartsOfInductive DEF Grown, Integrity, Parts
<1>2. CASE LockKey(t) \/ Climb(t) \/ Plant(t) \/ Point(t) \/ DeleteKey(t)
  BY <1>2, LockKeyHooks, ClimbHooks, PlantHooks, PointHooks, DeleteKeyHooks
<1>3. CASE Commit(t)
  <2>1. tx'[t] = Ended(t, "ok") /\ "ok" \in Replies
    BY <1>1, <1>3 DEF Commit, Parts, TxInv, Replies
  <2>2. tx'[t].pc \notin {"plant", "point"}
    BY <2>1, EndedPc DEF Replies
  <2> QED
    BY <1>1, <1>3, <2>2, CommitRows, FreeHooks
<1>4. CASE ~(LockKey(t) \/ Climb(t) \/ Plant(t) \/ Point(t) \/ DeleteKey(t) \/ Commit(t))
  <2>1. Gone(t) \/ (SeesAlike(t) /\ tx'[t].pc \notin {"plant", "point"})
    BY <1>1, <1>4, QuietKeys DEF Statement, Create, Delete
  <2> QED
    BY <1>1, <2>1, GoneHooks, AlikeHooks
<1> QED
  BY <1>2, <1>3, <1>4

\* and no other step unhooks anything.
LEMMA NextHooks ==
    ASSUME Grown, [Next]_vars, NEW x \in Tx
    PROVE  Hooking(x)'
<1>1. Integrity /\ Parts /\ tx \in [Tx -> TxState] /\ Hooking(x)
  BY PartsOfInductive DEF Grown, Integrity, Parts, TxInv
<1>2. ASSUME UNCHANGED tables, tx'[x].pc \notin {"plant", "point"}
      PROVE  Hooking(x)'
  BY <1>1, <1>2, LocksAlike, AlikeHooks DEF tables
<1>3. ASSUME NEW p \in Req, x = Main(p), Begin(p)
      PROVE  Hooking(x)'
  <2>1. PICK o \in Menu[p] : tx'[x].pc = FirstStatement(o)
    BY <1>1, <1>3 DEF Begin, Fresh
  <2>2. o.kind \in Kinds
    BY MenuAssumption DEF Operation
  <2>3. tx'[x].pc \notin {"plant", "point"}
    BY <2>1, <2>2 DEF FirstStatement, Kinds
  <2> QED
    BY <1>2, <1>3, <2>3 DEF Begin
<1>4. CASE Starts(x)
  <2>1. PICK p \in Req : /\ x = Ref(p) /\ Distribute(Main(p))
                         /\ tx[x].pc = "idle" /\ tx'[x].pc # "idle"
    BY <1>4 DEF Starts
  <2>2. UNCHANGED tables /\ tx'[x].pc = "insert_commit"
    BY <1>1, <2>1, StartsWith
  <2> QED
    BY <1>2, <2>2
<1> QED
  BY <1>1, <1>3, <1>4, StepCases, StillHooks, StatementHooks, GoneHooks

\* What is committed then hangs on what is there.
LEMMA NextRowsHooked ==
    ASSUME Grown, [Next]_vars
    PROVE  RowsHooked'
<1>1. Integrity /\ Parts /\ Spared(Parents) /\ RowsHooked /\ DOMAIN recordKey = Uri
  BY PartsOfInductive, KeyTyped DEF Grown, Integrity
<1>2. CASE NoRowChanges
  <2>1. \A u \in Uri : recordKey'[u].row = recordKey[u].row
    BY <1>1, <1>2 DEF NoRowChanges, SameRows
  <2> QED
    BY <1>1, <2>1, ParentKeys DEF RowsHooked, Has
<1>3. ASSUME NEW t \in Tx, Commit(t)
      PROVE  RowsHooked'
  <2>1. \A u \in Uri : recordKey'[u].row = Sees(recordKey, u, t)
    BY <1>1, <1>3, CommitRows
  <2>2. Hooking(t)
    BY DEF Grown
  <2>3. ASSUME NEW u \in Uri, Has(u)'
        PROVE  Hooked(recordKey, u, recordKey'[u].row.parent, t)
    <3>1. CASE recordKey[u].by = t
      BY <2>1, <2>2, <2>3, <3>1 DEF Hooking, Sees, Has
    <3>2. CASE recordKey[u].by # t
      BY <2>1, <2>3, <3>2, SeenRowHooked DEF Sees, Has
    <3> QED
      BY <3>1, <3>2
  <2> QED
    BY <2>1, <2>3, ParentKeys DEF Hooked, RowsHooked, Has
<1> QED
  BY <1>1, <1>2, <1>3, OnlyCommits

\* Keys that are planted before the requests arrive hang on planted ones.
LEMMA InitGrown ==
    ASSUME Init
    PROVE  Grown
<1>1. \A u \in Uri :
        /\ recordKey[u].row.id = IF u \in Planted THEN <<u, 1>> ELSE NoId
        /\ u \in Planted => recordKey[u].row.parent =
              IF Parent[u] = Root THEN NoId ELSE <<Parent[u], 1>>
  <2>1. ASSUME NEW u \in Uri
        PROVE  recordKey[u].row = StartKey(u)
    BY DEF Init, Cell
  <2>2. ASSUME NEW u \in Uri
        PROVE  /\ StartKey(u).id = IF u \in Planted THEN <<u, 1>> ELSE NoId
               /\ u \in Planted => StartKey(u).parent =
                     IF Parent[u] = Root THEN NoId ELSE <<Parent[u], 1>>
    BY DEF StartKey, NoKey
  <2> QED
    BY <2>1, <2>2
<1>2. RowsHooked
  <2>1. ASSUME NEW u \in Uri, Has(u)
        PROVE  IF Parent[u] = Root THEN recordKey[u].row.parent = NoId
               ELSE /\ Has(Parent[u])
                    /\ recordKey[u].row.parent = recordKey[Parent[u]].row.id
    <3>1. u \in Planted
      BY <1>1, <2>1 DEF Has
    <3>2. Parent[u] # Root => Parent[u] \in Planted /\ Parent[u] \in Uri
      BY <3>1, StartAssumption
    <3>3. \A v : <<v, 1>> # NoId
      BY DEF NoId
    <3>4. CASE Parent[u] = Root
      BY <1>1, <3>1, <3>4
    <3>5. CASE Parent[u] # Root
      BY <1>1, <3>1, <3>2, <3>3, <3>5 DEF Has
    <3> QED
      BY <3>4, <3>5
  <2> QED
    BY <2>1 DEF RowsHooked
<1>3. ASSUME NEW t \in Tx
      PROVE  Hooking(t)
  <2>1. \A u \in Uri : recordKey[u].by # t
    BY KeysAssumption DEF Init, Cell
  <2>2. tx[t].pc \notin {"plant", "point"}
    BY DEF Init, Fresh
  <2> QED
    BY <2>1, <2>2 DEF Hooking
<1> QED
  BY <1>2, <1>3, InitIntegrity, InitSpared DEF Grown

\* Where no request deletes a key with children, what is committed, what is written and
\* what is about to be written hangs on its parent in every reachable state.
THEOREM GrownAlways ==
    ASSUME ParentsStay
    PROVE  Spec => []Grown
<1>1. Init => Grown
  BY InitGrown
<1>2. Grown /\ [Next]_vars => Grown'
  <2> SUFFICES ASSUME Grown, [Next]_vars
               PROVE  Grown'
    OBVIOUS
  <2>1. Integrity /\ Spared(Parents) /\ Parents \in SUBSET Uri /\ Undeleted(Parents)
    BY KeysAssumption DEF Grown, Parents, ParentsStay
  <2>2. Integrity'
    BY <2>1, NextIntegrity
  <2>3. Spared(Parents)'
    BY <2>1, NextSpared
  <2> QED
    BY <2>2, <2>3, NextHooks, NextRowsHooked DEF Grown
<1> QED
  BY <1>1, <1>2, PTL DEF Spec

\* The parent id of a key is that of the row its parent URI has, however creations that
\* plant the same parents interleave, unless somebody deletes a parent
\* (record.go:112-153, 439-493).
THEOREM AttachedAlways ==
    ASSUME ParentsStay
    PROVE  Spec => []Attached
<1>1. Grown => Attached
  BY DEF Grown, RowsHooked, Attached
<1> QED
  BY <1>1, GrownAlways, PTL

-----------------------------------------------------------------------------
(* References are apart.                                                   *)

\* A statement touches one row of a table.
Touched(T, U, k) == \A j \in DOMAIN T : j # k => U[j] = T[j]

\* It writes it, deletes it, locks it or leaves it alone.
LEMMA Elsewhere ==
    ASSUME NEW K, NEW V, NEW T \in [K -> CellOf(V, Tx)], NEW k, NEW t, NEW v
    PROVE  /\ Touched(T, T, k)
           /\ Touched(T, Write(T, k, t, v), k) /\ Touched(T, Remove(T, k, t, v), k)
           /\ Touched(T, Share(T, k, t), k) /\ Touched(T, ForUpdate(T, k, t), k)
  BY DEF Touched, Write, Remove, Share, ForUpdate, CellOf

\* A request creates a document of a user, whose key is not in N.
LEMMA MainApart ==
    ASSUME NEW N, Reserved(N), OnBehalf, NEW t \in Tx, ~IsRef(t),
           tx[t].pc # "new", tx[t].kind = "create"
    PROVE  /\ tx[t].doc \in UserDoc /\ tx[t].doc \notin RefDoc
           /\ UriOf(tx[t].doc) \notin N
<1>1. PICK p \in Req : t = Main(p)
  BY DEF IsRef, Tx, Main
<1> QED
  BY <1>1, KeysAssumption DEF OnBehalf, Reserved, UriOf

\* A nested CreateRecord creates a reference, whose key is in N.
LEMMA RefApart ==
    ASSUME NEW N, Reserved(N), OnBehalf, NEW t \in Tx, IsRef(t), tx[t].pc # "idle"
    PROVE  /\ tx[t].kind = "create" /\ tx[t].doc \in RefDoc /\ UriOf(tx[t].doc) \in N
<1>1. PICK p \in Req : t = Ref(p)
  BY DEF IsRef, Tx, Ref
<1> QED
  BY <1>1 DEF OnBehalf, Reserved

\* A document whose key is in N is a reference, and the other way round.
LEMMA KeysApart ==
    ASSUME NEW N, Reserved(N), NEW d \in RecordDoc
    PROVE  d \in RefDoc <=> UriOf(d) \in N
  BY KeysAssumption DEF Reserved, RecordDoc, UriOf

\* What a delete deletes is not a reference.
LEMMA DeletesApart ==
    ASSUME NEW N \in SUBSET Uri, Reserved(N), Spared(Around(N)), NEW t \in Tx,
           tx[t].kind = "delete", tx[t].doc \in RecordDoc
    PROVE  tx[t].doc \notin RefDoc /\ UriOf(tx[t].doc) \notin N
<1>1. UriOf(tx[t].doc) \notin Around(N)
  BY DEF Spared, Deletes
<1>2. UriOf(tx[t].doc) \notin N
  BY <1>1, KeysAssumption DEF Around
<1> QED
  BY <1>2, KeysApart

\* Nothing of a reference, and no key in N, is touched.
Outside(N) ==
    /\ \A d \in RefDoc : commitLog'[d] = commitLog[d] /\ record'[d] = record[d]
    /\ \A u \in N : recordKey'[u] = recordKey[u]

\* A request's own transaction touches neither, unless it associates something with a key
\* in N, after which it waits no more.
LEMMA MainOutside ==
    ASSUME NEW N \in SUBSET Uri, Reserved(N), Separate(N), NEW t \in Tx, ~IsRef(t),
           Statement(t), ~Commit(t)
    PROVE  \/ Gone(t)
           \/ Outside(N) /\ (Settled(t) => Settled(t)')
           \/ /\ UNCHANGED <<commitLog, record>> /\ Settled(t)'
              /\ recordKey' = Share(recordKey, tx[t].uri, t)
<1>1. /\ Parts /\ TxInv /\ tx \in [Tx -> TxState] /\ Course(tx[t]) /\ tx[t].pc # "new"
      /\ OnBehalf /\ Spared(Around(N)) /\ Apart(N, t)
  BY IntegrityOf, StatementPc DEF Separate, Parts, TxInv
<1>2. /\ commitLog \in [Doc -> CellOf({"none", "kept", "gc"}, Tx)]
      /\ record \in [RecordDoc -> CellOf(BOOLEAN, Tx)]
      /\ recordKey \in [Uri -> CellOf(KeyRow, Tx)]
      /\ \A d \in RefDoc : d \in Doc /\ d \in RecordDoc
  BY <1>1, TablesTyped DEF Doc, RecordDoc
<1>3. \A pc : Goto(t, pc) => tx'[t].pc = pc /\ tx'[t].kind = tx[t].kind
  BY <1>1, GotoOnward DEF Onward
<1>4. \A r \in Replies \ {"ok"} : Fail(t, r) => Gone(t)
  BY <1>1, FailGone
<1>5. "error" \in Replies \ {"ok"} /\ "unpublished" \in Replies \ {"ok"}
  BY DEF Replies
<1>6. UNCHANGED tables => Outside(N)
  BY DEF tables, Outside
<1>7. tx[t].pc # "publish" => ~Settled(t) \/ Commit(t)
  BY LastStatements DEF Settled
<1>8. CASE InsertCommit(t)
  <2>1. /\ tx[t].pc = "insert_commit" /\ UNCHANGED <<record, recordKey>>
        /\ commitLog' \in {commitLog, Write(commitLog, tx[t].doc, t, "kept")}
    BY <1>8 DEF InsertCommit, At
  <2>2. tx[t].doc \notin RefDoc
    <3>1. tx[t].kind = "create" \/ tx[t].doc \in AssocDoc
      BY <1>1, <2>1 DEF Course, Kinded, Written
    <3> QED
      BY <1>1, <3>1, MainApart, KeysAssumption
  <2>3. Touched(commitLog, commitLog', tx[t].doc)
    BY <1>2, <2>1, Elsewhere
  <2> QED
    BY <1>2, <1>7, <2>1, <2>2, <2>3 DEF Outside, Touched
<1>9. CASE InsertRecord(t)
  <2>1. CASE ~Fail(t, "error")
    <3>1. /\ tx[t].pc = "insert_record" /\ UNCHANGED recordKey
          /\ commitLog' \in {commitLog, Share(commitLog, tx[t].doc, t)}
          /\ record' \in {record, Write(record, tx[t].doc, t, TRUE)}
      BY <1>9, <2>1 DEF InsertRecord, At, tables
    <3>2. tx[t].doc \notin RefDoc
      BY <1>1, <3>1, MainApart DEF Course, Kinded, Creating
    <3>3. Touched(commitLog, commitLog', tx[t].doc)
      BY <1>2, <3>1, Elsewhere
    <3>4. Touched(record, record', tx[t].doc)
      BY <1>2, <3>1, Elsewhere
    <3> QED
      BY <1>2, <1>7, <3>1, <3>2, <3>3, <3>4 DEF Outside, Touched
  <2> QED
    BY <1>4, <1>5, <2>1
<1>10. CASE LockKey(t)
  <2>1. /\ tx[t].pc = "lock_key" /\ UNCHANGED <<commitLog, record>>
        /\ recordKey' \in {recordKey, ForUpdate(recordKey, tx[t].uri, t)}
    BY <1>10 DEF LockKey, Locked, At
  <2>2. tx[t].uri \notin N
    BY <1>1, <2>1, MainApart DEF Course, Kinded, Written, Creating, Listed
  <2>3. Touched(recordKey, recordKey', tx[t].uri)
    BY <1>2, <2>1, Elsewhere
  <2> QED
    BY <1>2, <1>7, <2>1, <2>2, <2>3 DEF Outside, Touched
<1>11. CASE Climb(t) \/ Distribute(t)
  BY <1>6, <1>7, <1>11 DEF Climb, Distribute, At
<1>12. CASE Plant(t)
  <2>1. CASE ~Fail(t, "error")
    <3> DEFINE u == Head(tx[t].path)
               new == Placeholder(u, tx[t].pid)
    <3>1. /\ tx[t].pc = "plant" /\ UNCHANGED <<commitLog, record>>
          /\ recordKey' = Write(recordKey, u, t, new)
      BY <1>12, <2>1 DEF Plant, At
    <3>2. /\ u = tx[t].path[1] /\ Len(tx[t].path) \in Nat /\ Len(tx[t].path) >= 1
      BY <1>1, <3>1, ClimbingState
    <3>3. u \notin N
      <4>1. 1 \in 1 .. Len(tx[t].path)
        BY <3>2
      <4> QED
        BY <1>1, <3>1, <3>2, <4>1 DEF Apart
    <3> HIDE DEF u, new
    <3>4. Touched(recordKey, recordKey', u)
      BY <1>2, <3>1, Elsewhere
    <3> QED
      BY <1>2, <1>7, <3>1, <3>3, <3>4 DEF Outside, Touched
  <2> QED
    BY <1>4, <1>5, <2>1
<1>13. CASE Point(t)
  <2>1. CASE ~Fail(t, "error")
    <3> DEFINE u == tx[t].uri
               new == PointedAt(Sees(recordKey, u, t), t)
    <3>1. /\ tx[t].pc = "point" /\ UNCHANGED commitLog
          /\ recordKey' = Write(recordKey, u, t, new)
          /\ record' = Share(record, tx[t].doc, t)
      BY <1>13, <2>1 DEF Point, At
    <3>2. tx[t].doc \notin RefDoc /\ u \notin N
      BY <1>1, <3>1, MainApart DEF Course, Kinded, Written, Creating, Listed
    <3> HIDE DEF u, new
    <3>3. Touched(recordKey, recordKey', u)
      BY <1>2, <3>1, Elsewhere
    <3>4. Touched(record, record', tx[t].doc)
      BY <1>2, <3>1, Elsewhere
    <3> QED
      BY <1>2, <1>7, <3>1, <3>2, <3>3, <3>4 DEF Outside, Touched
  <2> QED
    BY <1>4, <1>5, <2>1
<1>14. CASE FlagOld(t) \/ DropOld(t)
  <2>1. /\ tx[t].pc \in {"flag_old", "drop_old"} /\ UNCHANGED recordKey
        /\ commitLog' \in {commitLog, Write(commitLog, tx[t].old, t, "gc")}
        /\ record' \in {record, Remove(record, tx[t].old, t, FALSE)}
    BY <1>14 DEF FlagOld, DropOld, At
  <2>2. tx[t].old \notin RefDoc
    <3>1. /\ tx[t].kind = "create" /\ tx[t].uri = UriOf(tx[t].doc)
          /\ tx[t].old \in RecordDoc /\ UriOf(tx[t].old) = tx[t].uri
      BY <1>1, <2>1 DEF Course, Kinded, Written, Replaced, Listed, Pointed
    <3> QED
      BY <1>1, <3>1, MainApart, KeysApart
  <2>3. Touched(commitLog, commitLog', tx[t].old)
    BY <1>2, <2>1, Elsewhere
  <2>4. Touched(record, record', tx[t].old)
    BY <1>2, <2>1, Elsewhere
  <2> QED
    BY <1>2, <1>7, <2>1, <2>2, <2>3, <2>4 DEF Outside, Touched
<1>15. CASE Publish(t)
  BY <1>3, <1>4, <1>5, <1>6, <1>15 DEF Publish, Settled, At
<1>16. CASE Associate(t)
  <2>1. CASE Fail(t, "error")
    BY <1>4, <1>5, <2>1
  <2>2. CASE FindTarget(t) /\ ~Fail(t, "error")
    BY <1>6, <1>7, <2>2 DEF FindTarget, At
  <2>3. CASE InsertAssociation(t) /\ ~Fail(t, "error")
    <3>1. tx[t].pc = "insert_association" /\ Goto(t, "publish")
          /\ UNCHANGED <<commitLog, record>> /\ recordKey' = Share(recordKey, tx[t].uri, t)
      BY <2>3 DEF InsertAssociation, At
    <3>2. tx[t].kind = "associate"
      BY <1>1, <3>1 DEF Course, Kinded
    <3> QED
      BY <1>3, <3>1, <3>2 DEF Settled
  <2> QED
    BY <1>16, <2>1, <2>2, <2>3 DEF Associate
<1>17. CASE Find(t)
  <2>1. UNCHANGED tables /\ tx[t].pc # "publish"
    BY <1>17 DEF Find, FindById, FindKey, FindRecord, FindCommit, Reply, At
  <2> QED
    BY <1>6, <1>7, <2>1
<1>18. CASE Delete(t)
  <2>1. /\ tx[t].pc \in {"delete_commit", "delete_record", "delete_key"}
        /\ \/ UNCHANGED tables
           \/ /\ tx[t].pc = "delete_commit" => tx[t].doc # NoDoc
              /\ commitLog' \in {commitLog, Remove(commitLog, tx[t].doc, t, "none")}
              /\ record' \in {record, Remove(record, tx[t].doc, t, FALSE)}
              /\ recordKey' \in {recordKey, Remove(recordKey, UriOf(tx[t].doc), t, NoKey)}
    BY <1>18 DEF Delete, DeleteCommit, DeleteRecord, DeleteKey, Reply, At
  <2>2. CASE UNCHANGED tables
    BY <1>6, <1>7, <2>1, <2>2
  <2>3. CASE ~UNCHANGED tables
    <3>1. tx[t].kind = "delete" /\ tx[t].doc \in RecordDoc
      BY <1>1, <2>1, <2>3 DEF Course, Kinded, Written, Deleting
    <3>2. tx[t].doc \notin RefDoc /\ UriOf(tx[t].doc) \notin N
      BY <1>1, <3>1, DeletesApart
    <3>3. Touched(commitLog, commitLog', tx[t].doc)
      BY <1>2, <2>1, <2>3, Elsewhere
    <3>4. Touched(record, record', tx[t].doc)
      BY <1>2, <2>1, <2>3, Elsewhere
    <3>5. Touched(recordKey, recordKey', UriOf(tx[t].doc))
      BY <1>2, <2>1, <2>3, Elsewhere
    <3> QED
      BY <1>2, <1>7, <2>1, <3>2, <3>3, <3>4, <3>5 DEF Outside, Touched
  <2> QED
    BY <2>2, <2>3
<1> QED
  BY <1>8, <1>9, <1>10, <1>11, <1>12, <1>13, <1>14, <1>15, <1>16, <1>17, <1>18
     DEF Statement, Create

\* Every transaction sees the keys that were planted and that nobody deletes.
LEMMA StandingSeen ==
    ASSUME NEW N \in SUBSET Uri, Separate(N), NEW u \in Planted \cap Around(N), NEW t \in Tx
    PROVE  Present(u, t)
<1>1. u \in Uri /\ Has(u) /\ Integrity /\ Spared(Around(N))
  BY StartAssumption DEF Separate, Standing
<1>2. recordKey[u].by = t => recordKey[u].dirty.id # NoId
  BY <1>1, SparedNotErased
<1> QED
  BY <1>1, <1>2 DEF Present, Sees, Has

\* The ancestors a creation has to plant are in N for a reference, outside for others.
LEMMA StatementPath ==
    ASSUME NEW N \in SUBSET Uri, Reserved(N), Separate(N), NEW t \in Tx, Statement(t),
           tx'[t].pc \in {"climb", "plant", "point"}
    PROVE  \A i \in 1 .. Len(tx'[t].path) : tx'[t].path[i] \in N <=> IsRef(t)
<1> DEFINE path == tx[t].path
           up == Parent[path[1]]
<1>1. /\ Integrity /\ Parts /\ TxInv /\ tx \in [Tx -> TxState] /\ Course(tx[t])
      /\ tx[t].pc \notin {"new", "idle"} /\ OnBehalf /\ Apart(N, t)
  BY IntegrityOf, StatementPc DEF Separate, Parts, TxInv
<1>2. ASSUME tx[t].pc \in {"climb", "plant", "point"}
      PROVE  /\ path \in Seq(Uri) /\ Len(path) \in Nat /\ Len(path) >= 1
             /\ path[1] \in Uri /\ Head(path) = path[1] /\ path[1] \in N <=> IsRef(t)
             /\ \A i \in 1 .. Len(path) : path[i] \in N <=> IsRef(t)
  <2>1. path \in Seq(Uri) /\ Len(path) \in Nat /\ Len(path) >= 1 /\ Head(path) = path[1]
    BY <1>1, <1>2, ClimbingState
  <2>2. 1 \in 1 .. Len(path)
    BY <2>1
  <2>3. \A i \in 1 .. Len(path) : path[i] \in N <=> IsRef(t)
    BY <1>1, <1>2 DEF Apart
  <2> QED
    BY <1>1, <1>2, <2>1, <2>2, <2>3, ClimbingState
<1>3. CASE LockKey(t)
  <2>1. tx[t].pc = "lock_key" /\ tx'[t].path = <<tx[t].uri>>
    BY <1>1, <1>3 DEF LockKey, At, TxState
  <2>2. tx[t].kind = "create" /\ tx[t].uri = UriOf(tx[t].doc)
    BY <1>1, <2>1 DEF Course, Kinded, Written, Creating, Listed
  <2>3. tx[t].uri \in N <=> IsRef(t)
    BY <1>1, <2>2, MainApart, RefApart
  <2> QED
    BY <2>1, <2>3
<1>4. CASE Climb(t)
  <2>1. tx[t].pc = "climb"
    BY <1>4 DEF Climb, At
  <2>2. ASSUME NEW id, Found(t, id)
        PROVE  tx'[t].path = path
    BY <1>1, <2>2 DEF Found, TxState
  <2>3. CASE \E id : Found(t, id)
    BY <1>2, <2>1, <2>2, <2>3
  <2>4. CASE up # Root /\ ~Present(up, t) /\ Missing(t, up)
    <3>1. tx'[t].path = <<up>> \o path
      BY <1>1, <2>4 DEF Missing, TxState
    <3>2. up \in N <=> IsRef(t)
      <4>1. CASE up \in N
        BY <1>2, <2>1, <4>1 DEF Reserved
      <4>2. CASE up \notin N /\ IsRef(t)
        <5>1. path[1] \in N /\ up \in Planted
          BY <1>2, <2>1, <2>4, <4>2 DEF Reserved
        <5>2. up \in Around(N)
          BY <2>4, <5>1 DEF Around
        <5> QED
          BY <2>4, <5>1, <5>2, StandingSeen
      <4> QED
        BY <4>1, <4>2
    <3>3. path \in Seq(Uri) /\ Len(path) \in Nat
      BY <1>2, <2>1
    <3>4. ASSUME NEW i \in 1 .. Len(<<up>> \o path)
          PROVE  (<<up>> \o path)[i] = up \/ \E j \in 1 .. Len(path) : (<<up>> \o path)[i] = path[j]
      <4>1. CASE i = 1
        BY <3>3, <4>1
      <4>2. CASE i # 1
        <5>1. i - 1 \in 1 .. Len(path) /\ (<<up>> \o path)[i] = path[i - 1]
          BY <3>3, <4>2
        <5> QED
          BY <5>1
      <4> QED
        BY <4>1, <4>2
    <3> HIDE DEF path, up
    <3>5. \A i \in 1 .. Len(path) : path[i] \in N <=> IsRef(t)
      BY <1>2, <2>1
    <3> QED
      BY <3>1, <3>2, <3>4, <3>5
  <2> QED
    BY <1>2, <1>4, <2>1, <2>3, <2>4 DEF Climb
<1>5. CASE Plant(t)
  <2>1. CASE Fail(t, "error")
    <3>1. tx'[t] = Ended(t, "error") /\ "error" \in Replies
      BY <1>1, <2>1 DEF Fail, Replies
    <3> QED
      BY <3>1, EndedPc DEF Replies
  <2>2. CASE ~Fail(t, "error")
    <3>1. tx[t].pc = "plant" /\ tx'[t].path = Tail(path)
      BY <1>1, <1>5, <2>2 DEF Plant, At, TxState
    <3>2. path \in Seq(Uri) /\ Len(path) \in Nat /\ Len(path) >= 1
      BY <1>2, <3>1
    <3>3. \A i \in 1 .. Len(Tail(path)) : i + 1 \in 1 .. Len(path) /\ Tail(path)[i] = path[i + 1]
      BY <3>2
    <3>4. \A i \in 1 .. Len(path) : path[i] \in N <=> IsRef(t)
      BY <1>2, <3>1
    <3> HIDE DEF path
    <3> QED
      BY <3>1, <3>3, <3>4
  <2> QED
    BY <2>1, <2>2
<1>6. CASE Point(t) \/ DeleteKey(t)
  <2>1. ASSUME NEW pc, Goto(t, pc)
        PROVE  tx'[t].pc = pc
    BY <1>1, <2>1, GotoOnward DEF Onward
  <2>2. ~Fail(t, "error")
    <3>1. Fail(t, "error") => tx'[t] = Ended(t, "error") /\ "error" \in Replies
      BY <1>1 DEF Fail, Replies
    <3> QED
      BY <3>1, EndedPc DEF Replies
  <2> QED
    BY <1>6, <2>1, <2>2 DEF Point, DeleteKey
<1>7. CASE Commit(t)
  <2>1. tx'[t] = Ended(t, "ok") /\ "ok" \in Replies
    BY <1>1, <1>7 DEF Commit, Replies
  <2> QED
    BY <2>1, EndedPc DEF Replies
<1>8. ASSUME Gone(t)
      PROVE  tx'[t].pc \notin {"climb", "plant", "point"}
  BY <1>8, EndedPc DEF Gone, AtRest, Replies, Reading
<1> QED
  BY <1>1, <1>3, <1>4, <1>5, <1>6, <1>7, <1>8, QuietKeys DEF Statement, Create, Delete

\* A reference is a document like any other.
TablesHaveReferences == \A d \in RefDoc : d \in Doc /\ d \in RecordDoc

\* Who holds nothing of the references, and plants nothing, is apart from them.
LEMMA FreeApart ==
    ASSUME NEW N \in SUBSET Uri, NEW x \in Tx, Free(x)', TablesHaveReferences,
           tx'[x].pc \notin {"climb", "plant", "point"}
    PROVE  Apart(N, x)'
  BY DEF Free, Apart, TablesHaveReferences

\* Whatever happens, a transaction stays apart.
LEMMA NextApart ==
    ASSUME NEW N \in SUBSET Uri, Reserved(N), Separate(N), [Next]_vars, NEW x \in Tx
    PROVE  Apart(N, x)'
<1>1. /\ Integrity /\ Parts /\ TxInv /\ tx \in [Tx -> TxState] /\ Apart(N, x)
      /\ TablesHaveReferences
  BY PartsOfInductive DEF Separate, Integrity, Parts, TxInv, TablesHaveReferences,
     Doc, RecordDoc
<1>2. CASE Still(x)
  <2>1. /\ DOMAIN commitLog = Doc /\ DOMAIN record = RecordDoc /\ DOMAIN recordKey = Uri
    BY <1>1, TablesTyped
  <2>2. /\ \A d \in Doc : x \in Lockers(commitLog'[d]) => x \in Lockers(commitLog[d])
        /\ \A d \in RecordDoc : x \in Lockers(record'[d]) => x \in Lockers(record[d])
        /\ \A u \in Uri : x \in Lockers(recordKey'[u]) => x \in Lockers(recordKey[u])
    BY <1>2, <2>1 DEF Still, KeptAll, Kept, Own, Lockers
  <2>3. tx'[x] = tx[x]
    BY <1>2 DEF Still
  <2> QED
    BY <1>1, <2>2, <2>3 DEF Apart, Settled, TablesHaveReferences
<1>3. ASSUME UNCHANGED tables, tx'[x].pc \notin {"climb", "plant", "point"},
             ~IsRef(x) => tx[x].pc = "new"
      PROVE  Apart(N, x)'
  BY <1>1, <1>3 DEF Apart, Settled, tables
<1>4. ASSUME NEW p \in Req, x = Main(p), Begin(p)
      PROVE  Apart(N, x)'
  <2>1. PICK o \in Menu[p] : tx'[x].pc = FirstStatement(o)
    BY <1>1, <1>4 DEF Begin, Fresh
  <2>2. o.kind \in Kinds
    BY MenuAssumption DEF Operation
  <2>3. tx'[x].pc \notin {"climb", "plant", "point"}
    BY <2>1, <2>2 DEF FirstStatement, Kinds
  <2> QED
    BY <1>3, <1>4, <2>3 DEF Begin
<1>5. CASE Starts(x)
  <2>1. PICK p \in Req : /\ x = Ref(p) /\ Distribute(Main(p))
                         /\ tx[x].pc = "idle" /\ tx'[x].pc # "idle"
    BY <1>5 DEF Starts
  <2>2. UNCHANGED tables /\ tx'[x].pc = "insert_commit"
    BY <1>1, <2>1, StartsWith
  <2> QED
    BY <1>3, <2>1, <2>2 DEF IsRef, Ref
<1>6. CASE Gone(x)
  <2>1. tx'[x].pc \notin {"climb", "plant", "point"}
    BY <1>6, EndedPc DEF Gone, AtRest, Replies, Reading
  <2> QED
    BY <1>1, <1>6, <2>1, FreeApart DEF Gone
<1>7. CASE Statement(x)
  <2>1. tx'[x].pc \in {"climb", "plant", "point"} =>
            \A i \in 1 .. Len(tx'[x].path) : tx'[x].path[i] \in N <=> IsRef(x)
    BY <1>7, StatementPath
  <2>2. CASE IsRef(x)
    BY <2>1, <2>2 DEF Apart
  <2>3. CASE Commit(x)
    <3>1. Free(x)'
      BY <1>1, <2>3, TablesTyped, CommittedFree DEF Commit, Free
    <3>2. tx'[x] = Ended(x, "ok") /\ "ok" \in Replies
      BY <1>1, <2>3 DEF Commit, Replies
    <3>3. tx'[x].pc \notin {"climb", "plant", "point"}
      BY <3>2, EndedPc DEF Replies
    <3> QED
      BY <1>1, <3>1, <3>3, FreeApart
  <2>4. CASE Outside(N) /\ (Settled(x) => Settled(x)')
    BY <1>1, <2>1, <2>4 DEF Outside, Apart
  <2>5. CASE UNCHANGED <<commitLog, record>> /\ Settled(x)'
    BY <1>1, <2>1, <2>5 DEF Apart
  <2> QED
    BY <1>6, <1>7, <2>2, <2>3, <2>4, <2>5, MainOutside
<1> QED
  BY <1>1, <1>2, <1>4, <1>5, <1>6, <1>7, StepCases

\* Nothing is locked at the start, and what is planted is there.
LEMMA InitSeparate ==
    ASSUME Init, NEW N \in SUBSET Uri
    PROVE  Separate(N)
<1>1. OnBehalf
  BY DEF Init, OnBehalf, Main, Ref, Tx, Fresh
<1>2. Standing(N)
  <2>1. ASSUME NEW u \in Planted
        PROVE  recordKey[u].row.id = <<u, 1>>
    <3>1. u \in Uri
      BY StartAssumption
    <3>2. StartKey(u).id = <<u, 1>>
      BY DEF StartKey
    <3> QED
      BY <3>1, <3>2 DEF Init, Cell
  <2> QED
    BY <2>1 DEF Standing, Has, NoId
<1>3. ASSUME NEW t \in Tx
      PROVE  Apart(N, t)
  <2>1. /\ \A d \in Doc : t \notin Lockers(commitLog[d])
        /\ \A d \in RecordDoc : t \notin Lockers(record[d])
        /\ \A u \in Uri : t \notin Lockers(recordKey[u])
    BY DEF Init, Cell, Lockers
  <2>2. tx[t].pc \notin {"climb", "plant", "point"}
    BY DEF Init, Fresh
  <2> QED
    BY <2>1, <2>2 DEF Apart, Doc, RecordDoc
<1> QED
  BY <1>1, <1>2, <1>3, InitIntegrity, InitSpared DEF Separate

\* References stay apart.
LEMMA NextSeparate ==
    ASSUME NEW N \in SUBSET Uri, Reserved(N), Separate(N), [Next]_vars
    PROVE  Separate(N)'
<1>1. Integrity /\ OnBehalf /\ Spared(Around(N)) /\ Standing(N)
  BY DEF Separate
<1>2. Around(N) \in SUBSET Uri /\ Undeleted(Around(N))
  BY KeysAssumption DEF Around, Reserved
<1>3. Standing(N)'
  <2>1. \A u \in Planted \cap Around(N) : recordKey'[u].row.id = recordKey[u].row.id
    BY <1>1, <1>2, SparedKeepsId DEF Standing
  <2> QED
    BY <1>1, <2>1 DEF Standing, Has
<1>4. Spared(Around(N))'
  BY <1>1, <1>2, NextSpared
<1>5. Integrity' /\ OnBehalf'
  BY <1>1, NextIntegrity, NextOnBehalf
<1> QED
  BY <1>3, <1>4, <1>5, NextApart DEF Separate

\* Where references have a part of the tree to themselves, nobody else holds anything of
\* theirs, but for associations that wait for nothing, in every reachable state.
THEOREM SeparateAlways ==
    ASSUME NEW N \in SUBSET Uri, Reserved(N)
    PROVE  Spec => []Separate(N)
<1>1. Init => Separate(N)
  BY InitSeparate
<1>2. Separate(N) /\ [Next]_vars => Separate(N)'
  BY NextSeparate
<1> QED
  BY <1>1, <1>2, PTL DEF Spec

\* A nested CreateRecord waits for such transactions only.
LEMMA RefBlockers ==
    ASSUME NEW N \in SUBSET Uri, Reserved(N), Separate(N), NEW t \in Tx, IsRef(t),
           NEW b \in Blockers(t)
    PROVE  b \in Tx /\ (IsRef(b) \/ Settled(b))
<1> DEFINE s == tx[t]
<1>1. /\ Parts /\ TxInv /\ Course(s) /\ OnBehalf /\ \A x \in Tx : Apart(N, x)
  BY IntegrityOf DEF Separate, Parts
<1>2. /\ commitLog \in [Doc -> CellOf({"none", "kept", "gc"}, Tx)]
      /\ record \in [RecordDoc -> CellOf(BOOLEAN, Tx)]
      /\ recordKey \in [Uri -> CellOf(KeyRow, Tx)]
      /\ \A d \in RefDoc : d \in Doc /\ d \in RecordDoc
  BY <1>1, TablesTyped DEF Doc, RecordDoc
<1>3. s.pc # "idle"
  BY NeverWaits
<1>4. s.kind = "create" /\ s.doc \in RefDoc /\ UriOf(s.doc) \in N
  BY <1>1, <1>3, RefApart
<1>5. ASSUME NEW d \in RefDoc, b \in Lockers(commitLog[d]) \/ b \in Lockers(record[d])
      PROVE  b \in Tx /\ IsRef(b)
  <2>1. b \in Tx
    BY <1>2, <1>5 DEF Lockers, CellOf
  <2> QED
    BY <1>1, <1>5, <2>1 DEF Apart
<1>6. ASSUME NEW u \in N, b \in Lockers(recordKey[u])
      PROVE  b \in Tx /\ (IsRef(b) \/ Settled(b))
  <2>1. b \in Tx
    BY <1>2, <1>6 DEF Lockers, CellOf
  <2> QED
    BY <1>1, <1>6, <2>1 DEF Apart
<1>7. \A T, k : /\ Writer(T, k, t) \subseteq Lockers(T[k])
                /\ Remover(T, k, t) \subseteq Lockers(T[k])
                /\ Holder(T, k, t) \subseteq Lockers(T[k])
                /\ Users(T, k, t) \subseteq Lockers(T[k])
  BY DEF Writer, Remover, Holder, Users, Lockers
<1>8. s.pc \notin {"insert_association", "delete_commit", "delete_record", "delete_key"}
  BY <1>1, <1>4 DEF Course, Kinded
<1>9. CASE s.pc = "insert_commit"
  BY <1>4, <1>5, <1>7, <1>9 DEF Blockers
<1>10. CASE s.pc = "insert_record"
  BY <1>4, <1>5, <1>7, <1>10 DEF Blockers
<1>11. CASE s.pc = "lock_key"
  <2>1. s.uri \in N
    BY <1>1, <1>4, <1>11 DEF Course, Written, Listed
  <2> QED
    BY <1>6, <1>7, <1>11, <2>1 DEF Blockers
<1>12. CASE s.pc = "plant"
  <2>1. /\ Head(s.path) = s.path[1] /\ Len(s.path) \in Nat /\ Len(s.path) >= 1
    BY <1>1, <1>12, ClimbingState
  <2>2. 1 \in 1 .. Len(s.path)
    BY <2>1
  <2>3. Head(s.path) \in N
    BY <1>1, <1>12, <2>1, <2>2 DEF Apart
  <2> QED
    BY <1>6, <1>7, <1>12, <2>3 DEF Blockers
<1>13. CASE s.pc = "point"
  <2>1. s.uri \in N
    BY <1>1, <1>4, <1>13 DEF Course, Written, Listed
  <2> QED
    BY <1>4, <1>5, <1>6, <1>7, <1>13, <2>1 DEF Blockers
<1>14. CASE s.pc \in {"flag_old", "drop_old"}
  <2>1. s.old \in RefDoc
    BY <1>1, <1>4, <1>14, KeysApart DEF Course, Written, Replaced, Listed, Pointed
  <2> QED
    BY <1>5, <1>7, <1>14, <2>1 DEF Blockers
<1>15. CASE s.pc \notin {"insert_commit", "insert_record", "lock_key", "plant", "point",
                         "flag_old", "drop_old"}
  BY <1>8, <1>15 DEF Blockers
<1> QED
  BY <1>9, <1>10, <1>11, <1>12, <1>13, <1>14, <1>15

\* A transaction that waits for itself through its caller waits for itself through locks:
\* nested CreateRecords wait for each other and for nobody who waits.
LEMMA NothingHidden ==
    ASSUME NEW N \in SUBSET Uri, Reserved(N), Separate(N)
    PROVE  NoHiddenDeadlock
<1> DEFINE Z == {x \in Tx : IsRef(x) \/ Settled(x)}
<1>1. \A x \in Z : Blockers(x) \subseteq Z
  <2>1. \A x \in Tx : IsRef(x) => Blockers(x) \subseteq Z
    BY RefBlockers
  <2>2. \A x \in Tx : Settled(x) => Blockers(x) = {}
    BY NeverWaits DEF Settled
  <2> QED
    BY <2>1, <2>2
<1>2. \A x \in Z : WaitsFor(x) = Blockers(x)
  BY DEF WaitsFor, IsRef, Settled
<1>3. \A x \in Tx : WaitsFor(x) \subseteq Blockers(x) \cup Z
  <2>1. ASSUME NEW x \in Tx
        PROVE  Ref(x[1]) \in Z
    BY DEF Ref, Tx, IsRef
  <2> QED
    BY <2>1 DEF WaitsFor
<1>4. \A x \in Tx : Blockers(x) \subseteq WaitsFor(x)
  BY DEF WaitsFor
<1>5. ASSUME NEW t \in Tx,
             \A S \in SUBSET Tx :
                (WaitsFor(t) \subseteq S /\ \A x \in S : WaitsFor(x) \subseteq S) => t \in S
      PROVE  Blockers(t) # {} /\ InWaitCycle(t)
  <2> HIDE DEF Z
  <2>1. Z \in SUBSET Tx
    BY DEF Z
  <2>2. ASSUME NEW S \in SUBSET Tx, Blockers(t) \subseteq S, \A x \in S : Blockers(x) \subseteq S
        PROVE  t \in S
    <3>1. CASE t \in Z
      <4>1. S \cap Z \in SUBSET Tx /\ WaitsFor(t) \subseteq S \cap Z
            /\ \A x \in S \cap Z : WaitsFor(x) \subseteq S \cap Z
        BY <1>1, <1>2, <2>1, <2>2, <3>1
      <4> QED
        BY <1>5, <4>1
    <3>2. CASE t \notin Z
      <4>1. S \cup Z \in SUBSET Tx /\ WaitsFor(t) \subseteq S \cup Z
            /\ \A x \in S \cup Z : WaitsFor(x) \subseteq S \cup Z
        BY <1>1, <1>2, <1>3, <2>1, <2>2
      <4> QED
        BY <1>5, <3>2, <4>1
    <3> QED
      BY <3>1, <3>2
  <2>3. InWaitCycle(t)
    BY <2>2 DEF InWaitCycle
  <2>4. Blockers(t) # {}
    <3>1. {} \in SUBSET Tx
      OBVIOUS
    <3> QED
      BY <2>2, <3>1
  <2> QED
    BY <2>3, <2>4
<1> QED
  BY <1>5 DEF NoHiddenDeadlock

\* A request that waits for its own nested CreateRecord is never in a cycle PostgreSQL
\* cannot see, where references have a part of the tree to themselves
\* (record.go:169-208: CreateRecord runs on r.db while tx keeps its locks).
THEOREM NoHiddenDeadlockAlways ==
    ASSUME CollectionsApart
    PROVE  Spec => []NoHiddenDeadlock
<1>1. PICK N \in SUBSET Uri : Reserved(N)
  BY DEF CollectionsApart
<1>2. Separate(N) => NoHiddenDeadlock
  BY <1>1, NothingHidden
<1>3. Spec => []Separate(N)
  BY <1>1, SeparateAlways
<1> QED
  BY <1>2, <1>3, PTL

-----------------------------------------------------------------------------
(* References get into their collections.                                  *)

\* What every step of the proof starts from.
LEMMA GatheredOf ==
    ASSUME CollectionsStand, Gathered
    PROVE  /\ Items \in SUBSET Uri /\ Reserved(Items) /\ Separate(Items)
           /\ Integrity /\ OnBehalf /\ Spared(Around(Items)) /\ Nested /\ RowsResolve
           /\ Parts /\ TxInv /\ KeysInv /\ tx \in [Tx -> TxState]
           /\ commitLog \in [Doc -> CellOf({"none", "kept", "gc"}, Tx)]
           /\ record \in [RecordDoc -> CellOf(BOOLEAN, Tx)]
           /\ recordKey \in [Uri -> CellOf(KeyRow, Tx)]
           /\ NoTx \notin Tx
           /\ \A d \in RefDoc : /\ d \in Doc /\ d \in RecordDoc /\ d # NoDoc
                                /\ d \notin AssocDoc /\ d \notin UserDoc
                                /\ UriOf(d) \in Items
<1>1. Separate(Items) /\ Integrity /\ OnBehalf /\ Spared(Around(Items)) /\ Reserved(Items)
  BY DEF Gathered, Separate, CollectionsStand
<1>2. Parts /\ Nested /\ RowsResolve
  BY <1>1, PartsOfInductive DEF Integrity
<1>3. Items \in SUBSET Uri
  BY DocumentKeys DEF Items, RecordDoc
<1>4. \A d \in RefDoc : /\ d \in Doc /\ d \in RecordDoc /\ d # NoDoc
                        /\ d \notin AssocDoc /\ d \notin UserDoc /\ UriOf(d) \in Items
  BY KeysAssumption DEF Items, RecordDoc, Doc
<1> QED
  BY <1>1, <1>2, <1>3, <1>4, TablesTyped, KeysAssumption DEF Parts, TxInv

\* A nested CreateRecord writes a reference that is in no table yet.
LEMMA RefFacts ==
    ASSUME CollectionsStand, Gathered, NEW t \in Tx, IsRef(t), tx[t].pc # "idle"
    PROVE  LET s == tx[t]  d == s.doc IN
           /\ t[1] \in Req /\ t = Ref(t[1]) /\ Main(t[1]) \in Tx
           /\ s.kind = "create" /\ d \in RefDoc /\ d.by = t[1] /\ s.todo = {}
           /\ tx[Main(t[1])].kind = "create" /\ tx[Main(t[1])].pc = "distribute"
           /\ d.of = tx[Main(t[1])].doc
           /\ ~Made(d) /\ commitLog[d].row = "none" /\ ~record[d].row
           /\ s.pc \in {"insert_commit", "insert_record"} \cup Listed =>
                 s.uri = UriOf(d) /\ s.uri \in Items
           /\ s.pc \notin Reading \cup {"find_target", "insert_association",
                                        "delete_record", "delete_key"}
           /\ Tended(t) /\ Apart(Items, t) /\ Course(s) /\ Grip(t) /\ WellDirected(s)
<1> DEFINE s == tx[t]
           d == s.doc
           p == t[1]
<1>1. p \in Req /\ t = Ref(p) /\ Main(p) \in Tx
  BY DEF IsRef, Tx, Ref, Main
<1>2. /\ Integrity /\ OnBehalf /\ Nested /\ RowsResolve /\ UnmadeIsNowhere
      /\ Tended(t) /\ Apart(Items, t)
  BY GatheredOf DEF Gathered, Separate
<1>3. s.kind = "create" /\ d \in RefDoc /\ d.by = p /\ d.of = tx[Main(p)].doc
  BY <1>1, <1>2 DEF OnBehalf
<1>4. WellDirected(s) /\ Course(s) /\ Course(tx[Main(p)]) /\ Grip(t)
  BY <1>1, <1>2, IntegrityOf
<1>5. tx[Main(p)].pc = "distribute" /\ tx[Main(p)].kind = "create"
  BY <1>1, <1>2, <1>4 DEF Nested, Course, Kinded
<1>6. d \notin UserDoc /\ d \in RecordDoc /\ UriOf(d) \in Items
  BY <1>3, GatheredOf
<1>7. s.todo = {}
  BY <1>4, <1>6 DEF WellDirected
<1>8. ~Made(d)
  BY <1>1, <1>3 DEF Made, Active
<1>9. commitLog[d].row = "none" /\ ~record[d].row
  BY <1>2, <1>3, <1>6, <1>8 DEF UnmadeIsNowhere, RowsResolve
<1>10. s.pc \in {"insert_commit", "insert_record"} \cup Listed => s.uri = UriOf(d)
  BY <1>3, <1>4 DEF Course, Written
<1>11. s.pc \notin Reading \cup {"find_target", "insert_association",
                                 "delete_record", "delete_key"}
  BY <1>3, <1>4 DEF Course, Kinded, Reading
<1> QED
  BY <1>1, <1>2, <1>3, <1>4, <1>5, <1>6, <1>7, <1>8, <1>9, <1>10, <1>11

\* Who writes a reference, or holds its record, is a nested CreateRecord under way.
LEMMA RefHolder ==
    ASSUME CollectionsStand, Gathered, NEW d \in RefDoc, NEW b \in Tx,
           commitLog[d].by = b \/ b \in Lockers(record[d])
    PROVE  IsRef(b) /\ tx[b].pc # "idle" /\ Tended(b)
<1>1. IsRef(b) /\ Tended(b) /\ RowsTended(b)
  <2>1. Tended(b) /\ RowsTended(b) /\ Apart(Items, b) /\ b # NoTx
    BY GatheredOf DEF Gathered, Separate, Tended
  <2> QED
    BY <2>1 DEF Apart, Lockers
<1>2. Integrity /\ Grip(b) /\ d \in RecordDoc
  BY GatheredOf, IntegrityOf
<1>3. /\ commitLog[d].excl # b
      /\ record[d].excl = b => record[d].by = b
      /\ b \in record[d].share => tx[b].pc \in Pointed
      /\ commitLog[d].by = b => tx[b].pc # "idle"
  BY <1>1 DEF RowsTended, Pointed, Listed
<1>4. record[d].by = b => tx[b].pc # "idle"
  BY <1>2 DEF Grip, RecordInserted, RecordDeleted, Listed, Pointed
<1> QED
  BY <1>1, <1>3, <1>4 DEF Lockers, Pointed

\* Who writes the commit of a reference that is there replaces it, and has its key locked.
LEMMA CommitWriter ==
    ASSUME CollectionsStand, Gathered, NEW d \in RefDoc, NEW b \in Tx,
           commitLog[d].by = b, commitLog[d].row # "none"
    PROVE  IsRef(b) /\ tx[b].old = d /\ tx[b].pc \in Pointed /\ recordKey[UriOf(d)].excl = b
<1>1. IsRef(b) /\ tx[b].pc # "idle" /\ Tended(b)
  BY RefHolder
<1>2. tx[b].doc # d /\ tx[b].kind = "create"
  BY <1>1, RefFacts
<1>3. tx[b].old = d /\ tx[b].pc \in Pointed
  BY <1>1, <1>2 DEF Tended, RowsTended
<1>4. d # NoDoc /\ tx[b].pc \in Listed \ {"lock_key"} /\ UriOf(d) = tx[b].uri
  BY <1>1, <1>2, <1>3, GatheredOf, RefFacts DEF Course, Replaced, Listed, Pointed
<1>5. UriOf(d) \in Items
  BY GatheredOf
<1> QED
  BY <1>1, <1>2, <1>3, <1>4, <1>5 DEF Tended, Tending

\* So does who writes the record of a reference that is there.
LEMMA RecordWriter ==
    ASSUME CollectionsStand, Gathered, NEW d \in RefDoc, NEW b \in Tx,
           record[d].by = b, record[d].row
    PROVE  recordKey[UriOf(d)].excl = b
<1>1. IsRef(b) /\ tx[b].pc # "idle" /\ Tended(b)
  BY RefHolder, KeysAssumption DEF Lockers
<1>2. tx[b].doc # d /\ tx[b].kind = "create" /\ Grip(b) /\ Course(tx[b])
  BY <1>1, RefFacts
<1>3. d \in RecordDoc /\ d # NoDoc /\ UriOf(d) \in Items
  BY GatheredOf
<1>4. tx[b].old = d /\ tx[b].pc \in Listed \ {"lock_key"}
  BY <1>2, <1>3 DEF Grip, RecordInserted, RecordDeleted, Listed, Pointed
<1>5. UriOf(d) = tx[b].uri
  BY <1>2, <1>3, <1>4 DEF Course, Replaced
<1> QED
  BY <1>1, <1>2, <1>3, <1>4, <1>5 DEF Tended, Tending

\* A nested CreateRecord waits for a key only;
LEMMA RefFree ==
    ASSUME CollectionsStand, Gathered, NEW t \in Tx, IsRef(t),
           tx[t].pc \notin {"lock_key", "point"}
    PROVE  Blockers(t) = {}
<1> DEFINE s == tx[t]
           d == s.doc
<1>1. CASE s.pc = "idle"
  BY <1>1, NeverWaits
<1>2. CASE s.pc # "idle"
  <2>1. /\ s.kind = "create" /\ d \in RefDoc /\ d.by = t[1] /\ t = Ref(t[1])
        /\ commitLog[d].row = "none" /\ ~record[d].row
        /\ s.pc \notin Reading \cup {"find_target", "insert_association",
                                     "delete_record", "delete_key"}
        /\ Tended(t) /\ Course(s)
        /\ s.pc \in {"insert_commit", "insert_record"} \cup Listed => s.uri \in Items
    BY <1>2, RefFacts
  <2>2. \A e \in RefDoc : \A b \in Tx : commitLog[e].excl # b
    BY DEF Gathered, Tended, RowsTended
  <2>3. /\ \A e \in RefDoc : commitLog[e].by \in Tx \cup {NoTx}
        /\ \A e \in RefDoc : commitLog[e].excl \in Tx \cup {NoTx}
        /\ \A e \in RefDoc : record[e].by \in Tx \cup {NoTx}
        /\ \A e \in RefDoc : record[e].excl \in Tx \cup {NoTx}
        /\ \A e \in RefDoc : record[e].share \in SUBSET Tx
    BY GatheredOf DEF CellOf
  <2>4. CASE s.pc = "insert_commit"
    <3>1. ASSUME NEW b \in Tx \ {t}, commitLog[d].by = b
          PROVE  FALSE
      <4>1. IsRef(b) /\ tx[b].pc # "idle" /\ Tended(b)
        BY <2>1, <3>1, RefHolder
      <4>2. tx[b].doc # d
        BY <2>1, <3>1, <4>1, RefFacts
      <4>3. tx[b].old = d /\ tx[b].pc \in Pointed
        BY <2>1, <3>1, <4>1, <4>2 DEF Tended, RowsTended
      <4>4. tx[b].kind = "create" /\ tx[b].uri \in Items
        BY <4>1, <4>3, RefFacts DEF Listed
      <4>5. commitLog[d].row # "none"
        BY <2>1, <4>1, <4>3, <4>4, GatheredOf DEF Tended, Tending, Listed, Pointed
      <4> QED
        BY <2>1, <4>5
    <3> QED
      BY <2>1, <2>3, <2>4, <3>1 DEF Blockers, Writer
  <2>5. CASE s.pc = "insert_record"
    <3>1. ASSUME NEW b \in Tx \ {t}, record[d].by = b
          PROVE  FALSE
      <4>1. IsRef(b) /\ tx[b].pc # "idle"
        BY <2>1, <3>1, RefHolder, KeysAssumption DEF Lockers
      <4>2. tx[b].doc # d /\ Grip(b)
        BY <2>1, <3>1, <4>1, RefFacts
      <4> QED
        BY <2>1, <3>1, <4>2, GatheredOf DEF Grip, RecordInserted, RecordDeleted
    <3>2. Writer(record, d, t) = {}
      BY <2>1, <2>3, <3>1 DEF Writer
    <3>3. Remover(commitLog, d, t) = {}
      BY <2>1, <2>2, <2>3 DEF Remover
    <3> QED
      BY <2>5, <3>2, <3>3 DEF Blockers
  <2>6. CASE s.pc = "plant"
    BY <2>1, <2>6 DEF Tended, Tending, Listed
  <2>7. CASE s.pc \in {"flag_old", "drop_old"}
    <3> DEFINE old == s.old
    <3>1. /\ old # NoDoc /\ old # d /\ old \in RecordDoc /\ UriOf(old) = s.uri
          /\ s.uri \in Items
      BY <2>1, <2>7 DEF Course, Replaced, Listed, Pointed
    <3>2. recordKey[s.uri].excl = t
      BY <2>1, <2>7, <3>1 DEF Tended, Tending, Listed, Pointed
    <3>3. old \in RefDoc
      BY <3>1, KeysApart, GatheredOf
    <3>4. CASE s.pc = "flag_old" /\ commitLog[old].row # "none"
      <4>1. \A b \in Tx : commitLog[old].by = b => b = t
        BY <3>1, <3>2, <3>3, <3>4, CommitWriter
      <4>2. Holder(commitLog, old, t) = {}
        BY <2>2, <2>3, <3>3, <4>1 DEF Holder
      <4> QED
        BY <3>4, <4>2 DEF Blockers
    <3>5. CASE s.pc = "drop_old" /\ record[old].row
      <4>1. \A b \in Tx : record[old].by = b => b = t
        BY <3>1, <3>2, <3>3, <3>5, RecordWriter
      <4>2. \A b \in Tx : record[old].excl = b => b = t
        BY <3>3, <4>1 DEF Gathered, Tended, RowsTended
      <4>3. ASSUME NEW b \in Tx, b \in record[old].share
            PROVE  FALSE
        <5>1. IsRef(b) /\ tx[b].pc # "idle" /\ Tended(b)
          BY <3>3, <4>3, GatheredOf, RefHolder DEF Lockers
        <5>2. tx[b].doc = old
          BY <3>3, <4>3, <5>1 DEF Tended, RowsTended
        <5> QED
          BY <3>5, <5>1, <5>2, RefFacts
      <4>4. Users(record, old, t) = {}
        BY <2>3, <3>3, <4>1, <4>2, <4>3 DEF Users
      <4> QED
        BY <3>5, <4>4 DEF Blockers
    <3>6. CASE ~(s.pc = "flag_old" /\ commitLog[old].row # "none")
               /\ ~(s.pc = "drop_old" /\ record[old].row)
      BY <2>7, <3>6 DEF Blockers
    <3> QED
      BY <3>4, <3>5, <3>6
  <2>8. CASE s.pc \notin {"insert_commit", "insert_record", "plant", "flag_old", "drop_old"}
    BY <2>1, <2>8 DEF Blockers, Reading
  <2> QED
    BY <2>4, <2>5, <2>6, <2>7, <2>8
<1> QED
  BY <1>1, <1>2

\* and not for the one it has locked.
LEMMA PointFree ==
    ASSUME CollectionsStand, Gathered, NEW t \in Tx, IsRef(t), tx[t].pc = "point",
           recordKey[tx[t].uri].excl = t
    PROVE  Blockers(t) = {}
<1> DEFINE s == tx[t]
<1>1. s.kind = "create" /\ s.doc \in RefDoc /\ s.uri \in Items /\ Tended(t)
  BY RefFacts DEF Listed
<1>2. record[s.doc].by = t
  BY <1>1 DEF Tended, Tending, Listed
<1>3. ASSUME NEW b \in Tx, record[s.doc].excl = b
      PROVE  b = t
  BY <1>1, <1>2, <1>3 DEF Gathered, Tended, RowsTended
<1>4. /\ record[s.doc].excl \in Tx \cup {NoTx} /\ recordKey[s.uri].by \in Tx \cup {NoTx}
      /\ t # NoTx
  BY <1>1, GatheredOf DEF CellOf
<1>5. recordKey[s.uri].by \in {NoTx, t}
  BY <1>1, <1>4 DEF Gathered, OneHolder
<1> QED
  BY <1>3, <1>4, <1>5 DEF Blockers, Holder, Remover

\* Who holds the key of a reference waits for nobody,
LEMMA KeyHeld ==
    ASSUME CollectionsStand, Gathered, NEW u \in Items, NEW b \in Tx,
           b \in Lockers(recordKey[u])
    PROVE  Blockers(b) = {}
<1>1. /\ IsRef(b) \/ Settled(b)
      /\ KeysTended(b) /\ Grip(b) /\ u \in Uri
  BY GatheredOf, IntegrityOf DEF Gathered, Separate, Apart, Tended
<1>2. CASE Settled(b)
  BY <1>2, NeverWaits DEF Settled
<1>3. CASE IsRef(b) /\ recordKey[u].by = b
  <2>1. tx[b].pc \in Pointed
    BY <1>1, <1>3 DEF KeysTended, Grip, KeyPointed
  <2> QED
    BY <1>3, <2>1, RefFree DEF Pointed
<1>4. CASE IsRef(b) /\ recordKey[u].excl = b
  <2>1. tx[b].pc # "lock_key" /\ tx[b].uri = u
    BY <1>1, <1>4 DEF KeysTended
  <2> QED
    BY <1>4, <2>1, RefFree, PointFree
<1>5. b \in recordKey[u].share => Settled(b)
  BY <1>1 DEF KeysTended
<1> QED
  BY <1>1, <1>2, <1>3, <1>4, <1>5 DEF Lockers

\* so that PostgreSQL never aborts a nested CreateRecord.
LEMMA RefNeverAborted ==
    ASSUME CollectionsStand, Gathered, NEW t \in Tx, IsRef(t)
    PROVE  ~DeadlockAbort(t) /\ ~CommitFails(t)
<1> DEFINE s == tx[t]
<1>1. SUFFICES ASSUME Blockers(t) # {}, InWaitCycle(t)
               PROVE  FALSE
  BY DEF DeadlockAbort, CommitFails, CollectionsStand
<1>2. s.pc \in {"lock_key", "point"}
  BY <1>1, RefFree
<1>3. s.kind = "create" /\ s.doc \in RefDoc /\ s.uri \in Items /\ Tended(t)
  BY <1>2, RefFacts DEF Listed
<1>4. Blockers(t) \subseteq Lockers(recordKey[s.uri]) \ {t}
  <2>1. CASE s.pc = "lock_key"
    BY <2>1 DEF Blockers, Users, Lockers
  <2>2. CASE s.pc = "point"
    <3>1. record[s.doc].by = t
      BY <1>3, <2>2 DEF Tended, Tending, Listed
    <3>2. ASSUME NEW b \in Tx, record[s.doc].excl = b
          PROVE  b = t
      BY <1>3, <3>1, <3>2 DEF Gathered, Tended, RowsTended
    <3>3. record[s.doc].excl \in Tx \cup {NoTx}
      BY <1>3, GatheredOf DEF CellOf
    <3>4. Remover(record, s.doc, t) = {}
      BY <3>2, <3>3 DEF Remover
    <3> QED
      BY <2>2, <3>4 DEF Blockers, Holder, Lockers
  <2> QED
    BY <1>2, <2>1, <2>2
<1>5. Lockers(recordKey[s.uri]) \subseteq Tx
  BY <1>3, GatheredOf DEF Lockers, CellOf
<1>6. Blockers(t) \in SUBSET Tx /\ t \notin Blockers(t)
  BY <1>4, <1>5
<1>7. \A x \in Blockers(t) : Blockers(x) = {}
  BY <1>3, <1>4, <1>5, KeyHeld
<1> QED
  BY <1>1, <1>6, <1>7 DEF InWaitCycle

\* Nothing deletes the commit of a reference.
LEMMA RefCommitStays ==
    ASSUME CollectionsStand, Gathered, [Next]_vars, NEW d \in RefDoc,
           commitLog[d].row # "none"
    PROVE  commitLog'[d].row # "none"
<1>1. Integrity /\ Parts /\ d \in Doc /\ d \in RecordDoc /\ DOMAIN commitLog = Doc
  BY GatheredOf
<1>2. CASE NoRowChanges
  BY <1>1, <1>2 DEF NoRowChanges, SameRows
<1>3. ASSUME NEW t \in Tx, Commit(t)
      PROVE  commitLog'[d].row # "none"
  <2>1. commitLog'[d].row = Sees(commitLog, d, t)
    BY <1>1, <1>3, CommitRows
  <2>2. ASSUME commitLog[d].by = t, commitLog[d].dirty = "none"
        PROVE  FALSE
    <3>1. tx[t].kind = "delete" /\ tx[t].doc = d
      BY <1>1, <2>2, IntegrityOf DEF Grip, CommitHeld
    <3> QED
      BY <1>1, <3>1, GatheredOf, DeletesApart
  <2> QED
    BY <2>1, <2>2 DEF Sees
<1> QED
  BY <1>1, <1>2, <1>3, OnlyCommits

\* Who holds nothing and is at none of the phases of a creation has nothing to tend.
LEMMA FreeTended ==
    ASSUME CollectionsStand, Gathered, NEW x \in Tx, Free(x)',
           tx'[x].pc \notin {"insert_record", "plant"} \cup Listed
    PROVE  Tended(x)'
<1>1. /\ \A d \in RefDoc : d \in Doc /\ d \in RecordDoc
      /\ Items \in SUBSET Uri /\ x # NoTx
  BY GatheredOf
<1>2. RowsTended(x)'
  BY <1>1 DEF Free, Lockers, RowsTended
<1>3. KeysTended(x)'
  BY <1>1 DEF Free, Lockers, KeysTended
<1>4. Tending(x)'
  BY DEF Tending, Listed
<1> QED
  BY <1>2, <1>3, <1>4 DEF Tended

\* Such is one that was rolled back,
LEMMA GoneTended ==
    ASSUME CollectionsStand, Gathered, NEW x \in Tx, Gone(x)
    PROVE  Tended(x)'
<1>1. tx'[x].pc \in AtRest
  BY EndedPc DEF Gone, AtRest
<1>2. tx'[x].pc \notin {"insert_record", "plant"} \cup Listed
  BY <1>1 DEF AtRest, Replies, Reading, Listed, Pointed
<1> QED
  BY <1>2, FreeTended DEF Gone

\* and one that has committed.
LEMMA CommitTended ==
    ASSUME CollectionsStand, Gathered, NEW x \in Tx, Commit(x)
    PROVE  Tended(x)'
<1>1. Parts /\ tx \in [Tx -> TxState]
  BY GatheredOf
<1>2. Free(x)'
  BY <1>1, TablesTyped, CommittedFree DEF Commit, Free
<1>3. tx'[x] = Ended(x, "ok") /\ "ok" \in Replies
  BY <1>1 DEF Commit, Replies
<1>4. tx'[x].pc \notin {"insert_record", "plant"} \cup Listed
  BY <1>3, EndedPc DEF Replies, Listed, Pointed
<1> QED
  BY <1>2, <1>4, FreeTended

\* One that does not move keeps what it tends.
LEMMA StillTended ==
    ASSUME CollectionsStand, Gathered, [Next]_vars, NEW x \in Tx, Still(x)
    PROVE  Tended(x)'
<1> DEFINE s == tx[x]
<1>1. /\ Tended(x) /\ tx'[x] = tx[x] /\ Course(s)
      /\ \A d \in RefDoc : d \in Doc /\ d \in RecordDoc
      /\ Items \in SUBSET Uri /\ x # NoTx
      /\ DOMAIN commitLog = Doc /\ DOMAIN record = RecordDoc /\ DOMAIN recordKey = Uri
  BY GatheredOf, IntegrityOf DEF Gathered, Still
<1>2. /\ \A d \in RefDoc : /\ commitLog'[d].by = x <=> commitLog[d].by = x
                           /\ commitLog'[d].excl = x <=> commitLog[d].excl = x
      /\ \A d \in RefDoc : /\ record'[d].by = x <=> record[d].by = x
                           /\ record[d].by = x => record'[d].dirty = record[d].dirty
                           /\ record'[d].excl = x <=> record[d].excl = x
                           /\ x \in record'[d].share <=> x \in record[d].share
      /\ \A u \in Items : /\ recordKey'[u].by = x <=> recordKey[u].by = x
                          /\ recordKey[u].by = x => recordKey'[u].dirty = recordKey[u].dirty
                          /\ recordKey'[u].excl = x <=> recordKey[u].excl = x
                          /\ x \in recordKey'[u].share <=> x \in recordKey[u].share
  BY <1>1 DEF Still, KeptAll, Kept, Own
<1>3. RowsTended(x)'
  BY <1>1, <1>2 DEF Tended, RowsTended
<1>4. KeysTended(x)'
  BY <1>1, <1>2 DEF Tended, KeysTended, Settled
<1>5. Tending(x)'
  <2>1. SUFFICES ASSUME s.kind = "create", s.uri \in Items
                 PROVE  Tending(x)'
    BY <1>1 DEF Tending
  <2>2. Tending(x)
    BY <1>1 DEF Tended
  <2>3. s.pc \in {"insert_record"} \cup Listed => s.doc \in RefDoc
    <3>1. s.pc \in {"insert_record"} \cup Listed => s.doc \in RecordDoc /\ s.uri = UriOf(s.doc)
      BY <1>1, <2>1 DEF Course, Written
    <3> QED
      BY <2>1, <3>1, KeysApart, GatheredOf
  <2>4. (s.pc \in Listed \ {"lock_key"} /\ s.old # NoDoc) => s.old \in RefDoc
    <3>1. (s.pc \in Listed \ {"lock_key"} /\ s.old # NoDoc) =>
              s.old \in RecordDoc /\ UriOf(s.old) = s.uri
      BY <1>1, <2>1 DEF Course, Replaced
    <3> QED
      BY <2>1, <3>1, KeysApart, GatheredOf
  <2>5. (s.pc \in Listed \ {"lock_key"} /\ s.old # NoDoc) =>
            recordKey'[s.uri].excl = x /\ commitLog'[s.old].row # "none"
    BY <1>2, <2>1, <2>2, <2>4, RefCommitStays DEF Tending
  <2>6. s.pc \in {"insert_record"} \cup Listed => commitLog'[s.doc].by = x
    BY <1>2, <2>1, <2>2, <2>3 DEF Tending
  <2>7. s.pc \in Listed => record'[s.doc].by = x /\ record'[s.doc].dirty
    BY <1>2, <2>1, <2>2, <2>3 DEF Tending
  <2>8. s.pc # "plant" /\ (s.pc \in {"climb", "point"} => s.path = <<s.uri>>)
    BY <2>1, <2>2 DEF Tending
  <2> QED
    BY <1>1, <2>5, <2>6, <2>7, <2>8 DEF Tending
<1> QED
  BY <1>3, <1>4, <1>5 DEF Tended

\* A request's own transaction creates no reference,
LEMMA MainTending ==
    ASSUME CollectionsStand, Gathered, [Next]_vars, NEW x \in Tx, ~IsRef(x)
    PROVE  RowsTended(x)' /\ Tending(x)'
<1>1. Separate(Items)'
  BY GatheredOf, NextSeparate
<1>2. /\ Integrity' /\ OnBehalf' /\ Apart(Items, x)' /\ x # NoTx
      /\ \A d \in RefDoc : d \in Doc /\ d \in RecordDoc
  BY <1>1, GatheredOf DEF Separate
<1>3. RowsTended(x)'
  BY <1>2 DEF Apart, Lockers, RowsTended
<1>4. Tending(x)'
  <2>1. SUFFICES ASSUME tx'[x].kind = "create", tx'[x].uri \in Items,
                        tx'[x].pc \in {"insert_record", "plant"} \cup Listed
                 PROVE  FALSE
    BY DEF Tending, Listed
  <2>2. PICK p \in Req : x = Main(p)
    BY DEF IsRef, Tx, Main
  <2>3. tx'[x].doc \in UserDoc
    BY <1>2, <2>1, <2>2 DEF OnBehalf, Listed, Pointed
  <2>4. tx'[x].uri = UriOf(tx'[x].doc)
    BY <1>2, <2>1 DEF Integrity, Course, Written, Listed
  <2> QED
    BY <2>1, <2>3, <2>4, GatheredOf DEF Reserved, UriOf
<1> QED
  BY <1>3, <1>4

\* and writes no key of one.
LEMMA MainTended ==
    ASSUME CollectionsStand, Gathered, [Next]_vars, NEW x \in Tx, ~IsRef(x)
    PROVE  Tended(x)'
<1> DEFINE s == tx[x]
<1>1. /\ Integrity /\ Parts /\ OnBehalf /\ Tended(x) /\ Course(s) /\ Apart(Items, x)
      /\ Reserved(Items) /\ Separate(Items) /\ Items \in SUBSET Uri /\ x # NoTx
      /\ recordKey \in [Uri -> CellOf(KeyRow, Tx)]
  BY GatheredOf, IntegrityOf DEF Gathered, Separate
<1>2. \A u \in Items : recordKey[u].excl # x
  <2>1. SUFFICES ASSUME NEW u \in Items, recordKey[u].excl = x
                 PROVE  FALSE
    OBVIOUS
  <2>2. s.kind = "create" /\ s.pc \in Listed /\ s.uri = u
    BY <1>1, <2>1 DEF Tended, KeysTended
  <2>3. s.uri = UriOf(s.doc) /\ s.pc # "new"
    BY <1>1, <2>2 DEF Course, Written, Listed, Pointed
  <2> QED
    BY <1>1, <2>2, <2>3, MainApart
<1>3. RowsTended(x)' /\ Tending(x)'
  BY MainTending
<1>4. CASE Still(x)
  BY <1>4, StillTended
<1>5. CASE Gone(x)
  BY <1>5, GoneTended
<1>6. ASSUME NEW p \in Req, x = Main(p), Begin(p)
      PROVE  Tended(x)'
  <2>1. UNCHANGED recordKey /\ s.pc = "new"
    BY <1>6 DEF Begin, tables
  <2>2. ~Settled(x)
    BY <2>1 DEF Settled
  <2>3. KeysTended(x)'
    BY <1>1, <1>2, <2>1, <2>2 DEF Tended, KeysTended
  <2> QED
    BY <1>3, <2>3 DEF Tended
<1>7. ~Starts(x)
  BY DEF Starts, IsRef, Ref
<1>8. CASE Statement(x)
  <2>1. CASE Commit(x)
    BY <2>1, CommitTended
  <2>2. CASE Outside(Items) /\ (Settled(x) => Settled(x)')
    <3>1. KeysTended(x)'
      BY <1>1, <1>2, <2>2 DEF Outside, Tended, KeysTended
    <3> QED
      BY <1>3, <3>1 DEF Tended
  <2>3. CASE recordKey' = Share(recordKey, s.uri, x) /\ Settled(x)'
    <3>1. \A u \in Items : /\ recordKey'[u].by = recordKey[u].by
                           /\ recordKey'[u].dirty = recordKey[u].dirty
                           /\ recordKey'[u].excl = recordKey[u].excl
      BY <1>1, <2>3 DEF Share, CellOf
    <3>2. KeysTended(x)'
      BY <1>1, <1>2, <2>3, <3>1 DEF Tended, KeysTended
    <3> QED
      BY <1>3, <3>2 DEF Tended
  <2> QED
    BY <1>1, <1>5, <1>8, <2>1, <2>2, <2>3, MainOutside
<1> QED
  BY <1>1, <1>4, <1>5, <1>6, <1>7, <1>8, StepCases

\* A nested CreateRecord goes on with its reference.
Continues(t) == tx'[t].pc # "idle" /\ tx'[t].doc = tx[t].doc

\* It inserts the commit, which is not there,
LEMMA RefInsertCommit ==
    ASSUME CollectionsStand, Gathered, NEW t \in Tx, IsRef(t), InsertCommit(t)
    PROVE  Tended(t)' /\ Continues(t) /\ UNCHANGED recordKey
<1> DEFINE s == tx[t]
           d == s.doc
<1>1. s.pc = "insert_commit"
  BY DEF InsertCommit, At
<1>2. /\ d \in RefDoc /\ commitLog[d].row = "none" /\ Tended(t) /\ TxInv
      /\ s.kind = "create" /\ d \notin AssocDoc /\ \A e \in RefDoc : e \in Doc
      /\ commitLog \in [Doc -> CellOf({"none", "kept", "gc"}, Tx)]
  BY <1>1, RefFacts, GatheredOf
<1>3. /\ commitLog' = Write(commitLog, d, t, "kept") /\ UNCHANGED <<record, recordKey>>
      /\ Goto(t, "insert_record")
  BY <1>2 DEF InsertCommit
<1>4. /\ tx'[t].pc = "insert_record" /\ tx'[t].kind = "create" /\ tx'[t].doc = d
      /\ tx'[t].uri = s.uri /\ tx'[t].old = s.old
  BY <1>2, <1>3, GotoOnward DEF Onward
<1>5. \A e \in RefDoc : /\ commitLog'[e].excl = commitLog[e].excl
                        /\ e # d => commitLog'[e].by = commitLog[e].by
                        /\ e = d => commitLog'[e].by = t
  BY <1>2, <1>3, WriteCells
<1>6. RowsTended(t)'
  BY <1>1, <1>2, <1>3, <1>4, <1>5 DEF Tended, RowsTended, Listed, Pointed
<1>7. KeysTended(t)'
  BY <1>1, <1>2, <1>3 DEF Tended, KeysTended, Settled, Listed, Pointed
<1>8. Tending(t)'
  BY <1>2, <1>4, <1>5 DEF Tending, Listed, Pointed
<1> QED
  BY <1>3, <1>4, <1>6, <1>7, <1>8 DEF Tended, Continues

\* and its record, whose commit it has inserted;
LEMMA RefInsertRecord ==
    ASSUME CollectionsStand, Gathered, NEW t \in Tx, IsRef(t), InsertRecord(t)
    PROVE  Tended(t)' /\ Continues(t) /\ UNCHANGED recordKey
<1> DEFINE s == tx[t]
           d == s.doc
<1>1. s.pc = "insert_record"
  BY DEF InsertRecord, At
<1>2. /\ d \in RefDoc /\ ~record[d].row /\ Tended(t) /\ TxInv
      /\ s.kind = "create" /\ Grip(t) /\ \A e \in RefDoc : e \in Doc /\ e \in RecordDoc
      /\ commitLog \in [Doc -> CellOf({"none", "kept", "gc"}, Tx)]
      /\ record \in [RecordDoc -> CellOf(BOOLEAN, Tx)] /\ s.uri \in Items
  BY <1>1, RefFacts, GatheredOf
<1>3. commitLog[d].by = t /\ commitLog[d].dirty # "none"
  BY <1>1, <1>2 DEF Tended, Tending, Grip, CommitHeld
<1>4. /\ commitLog' = Share(commitLog, d, t) /\ record' = Write(record, d, t, TRUE)
      /\ UNCHANGED recordKey /\ Goto(t, "lock_key")
  BY <1>2, <1>3 DEF InsertRecord, Sees
<1>5. /\ tx'[t].pc = "lock_key" /\ tx'[t].kind = "create" /\ tx'[t].doc = d
      /\ tx'[t].uri = s.uri /\ tx'[t].old = s.old
  BY <1>2, <1>4, GotoOnward DEF Onward
<1>6. \A e \in RefDoc : /\ commitLog'[e].excl = commitLog[e].excl
                        /\ commitLog'[e].by = commitLog[e].by
  BY <1>2, <1>4, ShareCells
<1>7. \A e \in RefDoc : /\ record'[e].excl = record[e].excl
                        /\ record'[e].share = record[e].share
                        /\ e # d => record'[e].by = record[e].by
                        /\ e = d => record'[e].by = t /\ record'[e].dirty = TRUE
  BY <1>2, <1>4 DEF Write, CellOf
<1>8. RowsTended(t)'
  BY <1>1, <1>2, <1>5, <1>6, <1>7 DEF Tended, RowsTended, Listed, Pointed
<1>9. KeysTended(t)'
  BY <1>1, <1>2, <1>4 DEF Tended, KeysTended, Settled, Listed, Pointed
<1>10. Tending(t)'
  BY <1>2, <1>3, <1>5, <1>6, <1>7 DEF Tending, Listed, Pointed
<1> QED
  BY <1>4, <1>5, <1>8, <1>9, <1>10 DEF Tended, Continues

\* it locks the key, if it is there, and with it the record it is going to replace;
LEMMA RefLockKey ==
    ASSUME CollectionsStand, Gathered, NEW t \in Tx, IsRef(t), LockKey(t)
    PROVE  Tended(t)' /\ Continues(t)
<1> DEFINE s == tx[t]
           d == s.doc
           u == s.uri
           old == Sees(recordKey, u, t).rec
<1>1. s.pc = "lock_key"
  BY DEF LockKey, At
<1>2. /\ d \in RefDoc /\ Tended(t) /\ s.kind = "create" /\ Grip(t)
      /\ \A e \in RefDoc : e \in Doc /\ e \in RecordDoc
      /\ u \in Items /\ Items \in SUBSET Uri /\ tx \in [Tx -> TxState]
      /\ recordKey \in [Uri -> CellOf(KeyRow, Tx)] /\ KeysInv /\ RowsResolve
  BY <1>1, RefFacts, GatheredOf DEF Listed
<1>3. UNCHANGED <<commitLog, record>> /\ recordKey' = Locked(u, t)
  BY DEF LockKey
<1>4. /\ tx'[t].pc = "climb" /\ tx'[t].kind = "create" /\ tx'[t].doc = d
      /\ tx'[t].uri = u /\ tx'[t].old = old /\ tx'[t].path = <<u>>
  BY <1>2 DEF LockKey, TxState
<1>5. /\ \A v \in Items : /\ recordKey'[v].by = recordKey[v].by
                          /\ recordKey'[v].dirty = recordKey[v].dirty
                          /\ recordKey'[v].share = recordKey[v].share
                          /\ v # u => recordKey'[v].excl = recordKey[v].excl
      /\ recordKey'[u].excl = IF Present(u, t) THEN t ELSE recordKey[u].excl
  <2>1. CASE Present(u, t)
    <3>1. recordKey' = ForUpdate(recordKey, u, t)
      BY <1>3, <2>1 DEF Locked
    <3> QED
      BY <1>2, <2>1, <3>1, LockCells
  <2>2. CASE ~Present(u, t)
    BY <1>3, <2>2 DEF Locked
  <2> QED
    BY <2>1, <2>2
<1>6. recordKey[u].by # t
  BY <1>1, <1>2 DEF Tended, KeysTended, Grip, KeyPointed, Pointed
<1>7. old # NoDoc => Present(u, t) /\ commitLog[old].row # "none"
  <2>1. old = recordKey[u].row.rec /\ Sees(recordKey, u, t) = recordKey[u].row
    BY <1>6 DEF Sees
  <2>2. KeyBelongs(u, recordKey[u].row)
    BY <1>2 DEF KeysInv
  <2>3. old # NoDoc => recordKey[u].row.id # NoId /\ old \in RecordDoc
    BY <2>1, <2>2 DEF KeyBelongs, NoKey
  <2>4. u \in Uri
    BY <1>2
  <2> QED
    BY <1>2, <2>1, <2>3, <2>4 DEF Present, RowsResolve, Live
<1>8. RowsTended(t)'
  BY <1>1, <1>2, <1>3, <1>4 DEF Tended, RowsTended, Listed, Pointed
<1>9. KeysTended(t)'
  BY <1>1, <1>2, <1>4, <1>5 DEF Tended, KeysTended, Settled, Listed, Pointed
<1>10. Tending(t)'
  BY <1>1, <1>2, <1>3, <1>4, <1>5, <1>7 DEF Tended, Tending, Listed, Pointed
<1> QED
  BY <1>4, <1>8, <1>9, <1>10 DEF Tended, Continues

\* its collection is there, so that it plants nothing;
LEMMA RefClimb ==
    ASSUME CollectionsStand, Gathered, NEW t \in Tx, IsRef(t), Climb(t)
    PROVE  Tended(t)' /\ Continues(t) /\ UNCHANGED recordKey
<1> DEFINE s == tx[t]
           d == s.doc
           u == s.uri
<1>1. s.pc = "climb"
  BY DEF Climb, At
<1>2. /\ d \in RefDoc /\ Tended(t) /\ s.kind = "create" /\ u = UriOf(d)
      /\ u \in Items /\ tx \in [Tx -> TxState] /\ Separate(Items)
  BY <1>1, RefFacts, GatheredOf DEF Listed
<1>3. s.path = <<u>>
  BY <1>1, <1>2 DEF Tended, Tending
<1>4. Parent[u] = d.in /\ d.in \in Planted
  BY <1>2, KeysAssumption DEF CollectionsStand
<1>5. Parent[u] # Root => Present(Parent[u], t)
  <2>1. SUFFICES ASSUME Parent[u] # Root
                 PROVE  Parent[u] \in Planted \cap Around(Items)
    BY <1>2, StandingSeen, GatheredOf
  <2> QED
    BY <1>2, <1>4, <2>1 DEF Around
<1>6. Descend(s.path) = "point" /\ Parent[Head(s.path)] = Parent[u]
  BY <1>3 DEF Descend
<1>7. (\E id : Found(t, id)) /\ UNCHANGED tables
  BY <1>5, <1>6 DEF Climb
<1>8. /\ tx'[t].pc = "point" /\ tx'[t].kind = "create" /\ tx'[t].doc = d
      /\ tx'[t].uri = u /\ tx'[t].old = s.old /\ tx'[t].path = <<u>>
  BY <1>2, <1>3, <1>6, <1>7 DEF Found, TxState
<1>9. UNCHANGED <<commitLog, record, recordKey>>
  BY <1>7 DEF tables
<1>10. RowsTended(t)'
  BY <1>1, <1>2, <1>8, <1>9 DEF Tended, RowsTended, Listed, Pointed
<1>11. KeysTended(t)'
  BY <1>1, <1>2, <1>8, <1>9 DEF Tended, KeysTended, Settled, Listed, Pointed
<1>12. Tending(t)'
  BY <1>1, <1>2, <1>8, <1>9 DEF Tended, Tending, Listed, Pointed
<1> QED
  BY <1>8, <1>9, <1>10, <1>11, <1>12 DEF Tended, Continues

\* it points the key at its record, which it sees;
LEMMA RefPoint ==
    ASSUME CollectionsStand, Gathered, NEW t \in Tx, IsRef(t), Point(t)
    PROVE  Tended(t)' /\ Continues(t)
<1> DEFINE s == tx[t]
           d == s.doc
           u == s.uri
           new == PointedAt(Sees(recordKey, u, t), t)
<1>1. s.pc = "point"
  BY DEF Point, At
<1>2. /\ d \in RefDoc /\ Tended(t) /\ s.kind = "create" /\ TxInv
      /\ \A e \in RefDoc : e \in Doc /\ e \in RecordDoc
      /\ u \in Items /\ Items \in SUBSET Uri /\ d # NoDoc
      /\ record \in [RecordDoc -> CellOf(BOOLEAN, Tx)]
      /\ recordKey \in [Uri -> CellOf(KeyRow, Tx)]
      /\ Sees(recordKey, u, t) \in KeyRow
  <2>1. u \in Items /\ KeysInv
    BY <1>1, RefFacts, GatheredOf DEF Listed
  <2>2. Sees(recordKey, u, t) \in KeyRow
    BY <2>1, SeenKey, GatheredOf
  <2> QED
    BY <1>1, <2>1, <2>2, RefFacts, GatheredOf
<1>3. Sees(record, d, t)
  BY <1>1, <1>2 DEF Tended, Tending, Sees, Listed
<1>4. /\ recordKey' = Write(recordKey, u, t, new) /\ record' = Share(record, d, t)
      /\ UNCHANGED commitLog
      /\ \E pc \in {"flag_old", "distribute"} : Goto(t, pc)
  BY <1>3 DEF Point
<1>5. /\ tx'[t].pc \in {"flag_old", "distribute"} /\ tx'[t].kind = "create" /\ tx'[t].doc = d
      /\ tx'[t].uri = u /\ tx'[t].old = s.old
  BY <1>2, <1>4, GotoOnward DEF Onward
<1>6. new.rec = d
  BY <1>2 DEF PointedAt, KeyRow
<1> HIDE DEF new
<1>7. \A v \in Items : /\ recordKey'[v].excl = recordKey[v].excl
                       /\ recordKey'[v].share = recordKey[v].share
                       /\ v # u => /\ recordKey'[v].by = recordKey[v].by
                                   /\ recordKey'[v].dirty = recordKey[v].dirty
                       /\ v = u => recordKey'[v].dirty = new
  BY <1>2, <1>4, WriteCells
<1>8. \A e \in RefDoc : /\ record'[e].excl = record[e].excl
                        /\ record'[e].by = record[e].by
                        /\ record'[e].dirty = record[e].dirty
                        /\ e # d => record'[e].share = record[e].share
  BY <1>2, <1>4, ShareCells
<1>9. RowsTended(t)'
  BY <1>1, <1>2, <1>4, <1>5, <1>8 DEF Tended, RowsTended, Listed, Pointed
<1>10. KeysTended(t)'
  BY <1>1, <1>2, <1>5, <1>6, <1>7 DEF Tended, KeysTended, Settled, Listed, Pointed
<1>11. Tending(t)'
  BY <1>1, <1>2, <1>4, <1>5, <1>7, <1>8 DEF Tended, Tending, Listed, Pointed
<1> QED
  BY <1>5, <1>9, <1>10, <1>11 DEF Tended, Continues

\* it flags the commit of what it has replaced,
LEMMA RefFlagOld ==
    ASSUME CollectionsStand, Gathered, NEW t \in Tx, IsRef(t), FlagOld(t)
    PROVE  Tended(t)' /\ Continues(t) /\ UNCHANGED recordKey
<1> DEFINE s == tx[t]
           d == s.doc
           old == s.old
<1>1. s.pc = "flag_old"
  BY DEF FlagOld, At
<1>2. /\ d \in RefDoc /\ Tended(t) /\ s.kind = "create" /\ TxInv /\ Course(s)
      /\ \A e \in RefDoc : e \in Doc /\ e \in RecordDoc
      /\ s.uri \in Items
      /\ commitLog \in [Doc -> CellOf({"none", "kept", "gc"}, Tx)]
  BY <1>1, RefFacts, GatheredOf DEF Listed, Pointed
<1>3. old # NoDoc /\ old \in Doc
  BY <1>1, <1>2, GatheredOf, DocumentKeys DEF Course, Replaced, Listed, Pointed
<1>4. commitLog[old].row # "none"
  BY <1>1, <1>2, <1>3 DEF Tended, Tending, Listed, Pointed
<1>5. /\ commitLog' = Write(commitLog, old, t, "gc") /\ UNCHANGED <<record, recordKey>>
      /\ Goto(t, "drop_old")
  BY <1>4 DEF FlagOld
<1>6. /\ tx'[t].pc = "drop_old" /\ tx'[t].kind = "create" /\ tx'[t].doc = d
      /\ tx'[t].uri = s.uri /\ tx'[t].old = old
  BY <1>2, <1>5, GotoOnward DEF Onward
<1>7. \A e \in Doc : /\ commitLog'[e].excl = commitLog[e].excl
                     /\ commitLog'[e].row = commitLog[e].row
                     /\ e # old => commitLog'[e].by = commitLog[e].by
                     /\ e = old => commitLog'[e].by = t
  BY <1>2, <1>3, <1>5, WriteCells
<1>8. RowsTended(t)'
  BY <1>1, <1>2, <1>5, <1>6, <1>7 DEF Tended, RowsTended, Listed, Pointed
<1>9. KeysTended(t)'
  BY <1>1, <1>2, <1>5, <1>6 DEF Tended, KeysTended, Settled, Listed, Pointed
<1>10. Tending(t)'
  BY <1>1, <1>2, <1>3, <1>5, <1>6, <1>7 DEF Tended, Tending, Listed, Pointed
<1> QED
  BY <1>5, <1>6, <1>8, <1>9, <1>10 DEF Tended, Continues

\* and deletes its record;
LEMMA RefDropOld ==
    ASSUME CollectionsStand, Gathered, NEW t \in Tx, IsRef(t), DropOld(t)
    PROVE  Tended(t)' /\ Continues(t) /\ UNCHANGED recordKey
<1> DEFINE s == tx[t]
           d == s.doc
           old == s.old
<1>1. s.pc = "drop_old"
  BY DEF DropOld, At
<1>2. /\ d \in RefDoc /\ Tended(t) /\ s.kind = "create" /\ TxInv /\ Course(s)
      /\ \A e \in RefDoc : e \in Doc /\ e \in RecordDoc
      /\ s.uri \in Items
      /\ record \in [RecordDoc -> CellOf(BOOLEAN, Tx)]
  BY <1>1, RefFacts, GatheredOf DEF Listed, Pointed
<1>3. old # NoDoc /\ old \in RecordDoc /\ old # d
  BY <1>1, <1>2, GatheredOf DEF Course, Replaced, Listed, Pointed
<1>4. /\ record' \in {record, Remove(record, old, t, FALSE)}
      /\ UNCHANGED <<commitLog, recordKey>> /\ Goto(t, "distribute")
  BY DEF DropOld
<1>5. /\ tx'[t].pc = "distribute" /\ tx'[t].kind = "create" /\ tx'[t].doc = d
      /\ tx'[t].uri = s.uri /\ tx'[t].old = old
  BY <1>2, <1>4, GotoOnward DEF Onward
<1>6. \A e \in RefDoc : /\ record'[e].share = record[e].share
                        /\ e # old => record'[e] = record[e]
                        /\ \/ record'[e].by = record[e].by /\ record'[e].excl = record[e].excl
                           \/ record'[e].by = t
  BY <1>2, <1>3, <1>4 DEF Remove, CellOf
<1>7. RowsTended(t)'
  BY <1>1, <1>2, <1>4, <1>5, <1>6 DEF Tended, RowsTended, Listed, Pointed
<1>8. KeysTended(t)'
  BY <1>1, <1>2, <1>4, <1>5 DEF Tended, KeysTended, Settled, Listed, Pointed
<1>9. Tending(t)'
  BY <1>1, <1>2, <1>3, <1>4, <1>5, <1>6 DEF Tended, Tending, Listed, Pointed
<1> QED
  BY <1>4, <1>5, <1>7, <1>8, <1>9 DEF Tended, Continues

\* it has no collections of its own, and its event is sent.
LEMMA RefPublish ==
    ASSUME CollectionsStand, Gathered, NEW t \in Tx, IsRef(t), Distribute(t) \/ Publish(t)
    PROVE  Tended(t)' /\ Continues(t) /\ UNCHANGED recordKey
<1> DEFINE s == tx[t]
           d == s.doc
<1>1. s.pc \in {"distribute", "publish"}
  BY DEF Distribute, Publish, At
<1>2. /\ d \in RefDoc /\ Tended(t) /\ s.kind = "create" /\ TxInv /\ s.todo = {}
      /\ s.uri \in Items
  BY <1>1, RefFacts, GatheredOf DEF Listed, Pointed
<1>3. "publish" \notin Faults
  BY DEF CollectionsStand
<1>4. UNCHANGED tables /\ \E pc \in {"publish", "commit"} : Goto(t, pc)
  BY <1>2, <1>3 DEF Distribute, Publish
<1>5. /\ tx'[t].pc \in {"publish", "commit"} /\ tx'[t].kind = "create" /\ tx'[t].doc = d
      /\ tx'[t].uri = s.uri /\ tx'[t].old = s.old
  BY <1>2, <1>4, GotoOnward DEF Onward
<1>6. UNCHANGED <<commitLog, record, recordKey>>
  BY <1>4 DEF tables
<1>7. RowsTended(t)'
  BY <1>1, <1>2, <1>5, <1>6 DEF Tended, RowsTended, Listed, Pointed
<1>8. KeysTended(t)'
  BY <1>1, <1>2, <1>5, <1>6 DEF Tended, KeysTended, Settled, Listed, Pointed
<1>9. Tending(t)'
  BY <1>1, <1>2, <1>5, <1>6 DEF Tended, Tending, Listed, Pointed
<1> QED
  BY <1>5, <1>6, <1>7, <1>8, <1>9 DEF Tended, Continues

\* Every statement of it keeps what it tends, and none but its COMMIT is its last.
LEMMA RefStatement ==
    ASSUME CollectionsStand, Gathered, NEW t \in Tx, IsRef(t), Statement(t)
    PROVE  /\ Tended(t)'
           /\ Commit(t) \/ Continues(t)
           /\ Commit(t) \/ UNCHANGED recordKey \/ LockKey(t) \/ Point(t)
<1> DEFINE s == tx[t]
<1>1. s.pc # "idle"
  BY StatementPc
<1>2. s.pc \notin Reading \cup {"find_target", "insert_association",
                                "delete_record", "delete_key"}
  BY <1>1, RefFacts
<1>3. ~Associate(t) /\ ~Find(t) /\ ~Delete(t)
  BY <1>2 DEF Associate, FindTarget, InsertAssociation, Find, FindById, FindKey, FindRecord,
     FindCommit, Delete, DeleteCommit, DeleteRecord, DeleteKey, At, Reading
<1>4. ~Plant(t)
  <2>1. SUFFICES ASSUME s.pc = "plant"
                 PROVE  FALSE
    BY DEF Plant, At
  <2>2. Course(s) /\ WellDirected(s) /\ s.doc \in RefDoc /\ Tended(t) /\ s.kind = "create"
    BY <1>1, RefFacts
  <2>3. s.uri = UriOf(s.doc)
    BY <2>1, <2>2 DEF Course, Written, Listed
  <2> QED
    BY <2>1, <2>2, <2>3, GatheredOf DEF Tended, Tending
<1>5. CASE Commit(t)
  BY <1>5, CommitTended
<1>6. CASE ~Commit(t)
  BY <1>3, <1>4, <1>6, RefInsertCommit, RefInsertRecord, RefLockKey, RefClimb, RefPoint,
     RefFlagOld, RefDropOld, RefPublish DEF Statement, Create
<1> QED
  BY <1>5, <1>6

\* One that is begun has nothing to tend yet.
LEMMA StartsTended ==
    ASSUME CollectionsStand, Gathered, NEW x \in Tx, Starts(x)
    PROVE  Tended(x)'
<1>1. PICK p \in Req : /\ x = Ref(p) /\ Distribute(Main(p))
                       /\ tx[x].pc = "idle" /\ tx'[x].pc # "idle"
  BY DEF Starts
<1>2. /\ UNCHANGED <<commitLog, record, recordKey>> /\ tx'[x].pc = "insert_commit"
      /\ tx'[x].kind = "create"
  BY <1>1, StartsWith, GatheredOf DEF tables
<1>3. Tended(x)
  BY DEF Gathered
<1>4. RowsTended(x)'
  BY <1>1, <1>2, <1>3 DEF Tended, RowsTended, Listed, Pointed
<1>5. KeysTended(x)'
  BY <1>1, <1>2, <1>3 DEF Tended, KeysTended, Settled, Listed, Pointed
<1>6. Tending(x)'
  BY <1>2 DEF Tending, Listed, Pointed
<1> QED
  BY <1>4, <1>5, <1>6 DEF Tended

\* Whatever happens, every transaction tends what it has.
LEMMA NextTended ==
    ASSUME CollectionsStand, Gathered, [Next]_vars, NEW x \in Tx
    PROVE  Tended(x)'
<1>1. CASE ~IsRef(x)
  BY <1>1, MainTended
<1>2. CASE IsRef(x)
  <2>1. \A p \in Req : x # Main(p)
    BY <1>2 DEF IsRef, Main
  <2>2. Statement(x) => Tended(x)'
    BY <1>2, RefStatement
  <2>3. Integrity
    BY GatheredOf
  <2>4. \/ Still(x) \/ Statement(x) \/ Starts(x) \/ Gone(x)
    BY <2>1, <2>3, StepCases
  <2> QED
    BY <2>2, <2>4, StillTended, StartsTended, GoneTended
<1> QED
  BY <1>1, <1>2

\* A nested CreateRecord goes on until it commits, unless its request is over.
LEMMA RefEnds ==
    ASSUME CollectionsStand, Gathered, [Next]_vars, NEW p \in Req, Active(p)
    PROVE  \/ Active(p)' /\ tx'[Ref(p)].doc = tx[Ref(p)].doc
           \/ Commit(Ref(p))
           \/ ~Active(p)' /\ tx'[Main(p)].pc \in Replies \ {"ok"}
<1> DEFINE t == Ref(p)
<1>1. /\ t \in Tx /\ IsRef(t) /\ t[1] = p /\ Main(p) \in Tx /\ Main(p) # t
      /\ tx[t].pc # "idle" /\ tx \in [Tx -> TxState] /\ Parts
  BY GatheredOf DEF Active, Ref, Main, Tx, IsRef
<1>2. tx[Main(p)].pc = "distribute"
  BY <1>1, RefFacts
<1>3. CASE tx'[t] = tx[t]
  BY <1>1, <1>3 DEF Active
<1>4. CASE Statement(t)
  BY <1>1, <1>4, RefStatement DEF Continues, Active
<1>5. ASSUME NEW q \in Req, Cancel(q)
      PROVE  tx'[t] = tx[t] \/ (~Active(p)' /\ tx'[Main(p)].pc \in Replies \ {"ok"})
  <2>1. CASE q = p
    <3>1. tx'[t] = Ended(t, "cancelled") /\ tx'[Main(p)] = Ended(Main(p), "cancelled")
      BY <1>1, <1>5, <2>1 DEF Cancel, Over, Main, Ref
    <3> QED
      BY <3>1 DEF Ended, Fresh, Active, Main, Ref, Replies
  <2>2. CASE q # p
    BY <1>1, <1>5, <2>2 DEF Cancel, Over
  <2> QED
    BY <2>1, <2>2
<1>6. CASE Crash
  <2>1. InFlight(p)
    BY <1>2 DEF InFlight, Replies
  <2>2. tx'[t] = Ended(t, "crashed") /\ tx'[Main(p)] = Ended(Main(p), "crashed")
    BY <1>1, <1>6, <2>1 DEF Crash, Over, Main, Ref
  <2> QED
    BY <2>2 DEF Ended, Fresh, Active, Main, Ref, Replies
<1>7. ASSUME NEW x \in Tx, DeadlockAbort(x) \/ CommitFails(x)
      PROVE  tx'[t] = tx[t]
  <2>1. x # t
    BY <1>1, <1>7, RefNeverAborted
  <2> QED
    BY <1>1, <1>7, <2>1 DEF DeadlockAbort, CommitFails, Fail
<1>8. ASSUME NEW x \in Tx, x # t, Statement(x)
      PROVE  tx'[t] = tx[t]
  <2>1. CASE Distribute(x) /\ t = Ref(x[1])
    <3>1. x[1] = p /\ x = Main(p)
      BY <1>1, <1>8, <2>1 DEF Ref, Main, Tx
    <3>2. Goto(x, "publish")
      BY <1>1, <2>1, <3>1 DEF Distribute
    <3> QED
      BY <1>1, <1>8, <3>2 DEF Goto
  <2>2. CASE ~(Distribute(x) /\ t = Ref(x[1]))
    BY <1>1, <1>8, <2>2, StatementOfOne
  <2> QED
    BY <2>1, <2>2
<1>9. ASSUME NEW q \in Req, Begin(q)
      PROVE  tx'[t] = tx[t]
  BY <1>1, <1>9 DEF Begin, Main, Ref
<1>10. UNCHANGED vars => tx'[t] = tx[t]
  BY DEF vars
<1> QED
  BY <1>3, <1>4, <1>5, <1>6, <1>7, <1>8, <1>9, <1>10 DEF Next, Quiet

\* Who has written the key of a reference found nobody else holding it,
LEMMA KeyTaken ==
    ASSUME CollectionsStand, Gathered, [Next]_vars, NEW u \in Items, NEW z \in Tx,
           recordKey'[u].by = z, recordKey[u].by # z
    PROVE  Holder(recordKey, u, z) = {} /\ recordKey'[u].excl = recordKey[u].excl
<1>1. /\ Integrity /\ Parts /\ Reserved(Items) /\ Separate(Items) /\ Items \in SUBSET Uri
      /\ recordKey \in [Uri -> CellOf(KeyRow, Tx)] /\ z # NoTx /\ u \in Uri
      /\ tx \in [Tx -> TxState]
  BY GatheredOf
<1>2. ~Still(z)
  BY <1>1 DEF Still, KeptAll, Kept, Own
<1>3. ~UNCHANGED recordKey
  OBVIOUS
<1>4. ~Free(z)'
  BY <1>1 DEF Free, Lockers
<1>5. ~Gone(z) /\ ~Commit(z)
  <2>1. Commit(z) => Free(z)'
    BY <1>1, TablesTyped, CommittedFree DEF Commit, Free
  <2> QED
    BY <1>4, <2>1 DEF Gone
<1>6. \A p \in Req : ~Begin(p)
  BY <1>3 DEF Begin, tables
<1>7. ~Starts(z)
  BY <1>1, <1>3, StartsWith DEF Starts, tables
<1>8. Statement(z)
  BY <1>1, <1>2, <1>5, <1>6, <1>7, StepCases
<1>9. IsRef(z)
  <2>1. SUFFICES ASSUME ~IsRef(z)
                 PROVE  FALSE
    OBVIOUS
  <2>2. ~Outside(Items)
    BY DEF Outside
  <2>3. recordKey' # Share(recordKey, tx[z].uri, z)
    BY <1>1 DEF Share, CellOf
  <2> QED
    BY <1>1, <1>5, <1>8, <2>1, <2>2, <2>3, MainOutside
<1>10. ~LockKey(z)
  BY <1>1 DEF LockKey, Locked, ForUpdate, CellOf
<1>11. Point(z) /\ Continues(z)
  BY <1>3, <1>5, <1>8, <1>9, <1>10, RefStatement
<1>12. ~Fail(z, "error")
  BY <1>1, <1>5, FailGone DEF Replies
<1>13. /\ \E v : recordKey' = Write(recordKey, tx[z].uri, z, v)
       /\ Holder(recordKey, tx[z].uri, z) = {}
  BY <1>11, <1>12 DEF Point, At, Blockers
<1>14. u = tx[z].uri /\ recordKey'[u].excl = recordKey[u].excl
  BY <1>1, <1>13 DEF Write, CellOf
<1> QED
  BY <1>13, <1>14

\* and who has it locked, nobody else writing it.
LEMMA KeyLockedAlone ==
    ASSUME CollectionsStand, Gathered, [Next]_vars, NEW u \in Items, NEW y \in Tx,
           recordKey'[u].excl = y, recordKey[u].excl # y
    PROVE  recordKey[u].by \in {NoTx, y} /\ recordKey'[u].by = recordKey[u].by
<1>1. /\ Integrity /\ Parts /\ Reserved(Items) /\ Separate(Items) /\ Items \in SUBSET Uri
      /\ recordKey \in [Uri -> CellOf(KeyRow, Tx)] /\ y # NoTx /\ u \in Uri
      /\ tx \in [Tx -> TxState]
  BY GatheredOf
<1>2. ~Still(y)
  BY <1>1 DEF Still, KeptAll, Kept
<1>3. ~UNCHANGED recordKey
  OBVIOUS
<1>4. ~Free(y)'
  BY <1>1 DEF Free, Lockers
<1>5. ~Gone(y) /\ ~Commit(y)
  <2>1. Commit(y) => Free(y)'
    BY <1>1, TablesTyped, CommittedFree DEF Commit, Free
  <2> QED
    BY <1>4, <2>1 DEF Gone
<1>6. \A p \in Req : ~Begin(p)
  BY <1>3 DEF Begin, tables
<1>7. ~Starts(y)
  BY <1>1, <1>3, StartsWith DEF Starts, tables
<1>8. Statement(y)
  BY <1>1, <1>2, <1>5, <1>6, <1>7, StepCases
<1>9. IsRef(y)
  <2>1. SUFFICES ASSUME ~IsRef(y)
                 PROVE  FALSE
    OBVIOUS
  <2>2. ~Outside(Items)
    BY DEF Outside
  <2>3. recordKey' # Share(recordKey, tx[y].uri, y)
    BY <1>1 DEF Share, CellOf
  <2> QED
    BY <1>1, <1>5, <1>8, <2>1, <2>2, <2>3, MainOutside
<1>10. ~Point(y)
  <2>1. ~Fail(y, "error")
    BY <1>1, <1>5, FailGone DEF Replies
  <2>2. \A v : recordKey' # Write(recordKey, tx[y].uri, y, v)
    BY <1>1 DEF Write, CellOf
  <2> QED
    BY <2>1, <2>2 DEF Point
<1>11. LockKey(y)
  BY <1>3, <1>5, <1>8, <1>9, <1>10, RefStatement
<1>12. /\ recordKey' = Locked(tx[y].uri, y)
       /\ Present(tx[y].uri, y) => Users(recordKey, tx[y].uri, y) = {}
  BY <1>11 DEF LockKey, At, Blockers
<1>13. Present(tx[y].uri, y) /\ recordKey' = ForUpdate(recordKey, tx[y].uri, y)
  BY <1>3, <1>12 DEF Locked
<1>14. u = tx[y].uri /\ recordKey'[u].by = recordKey[u].by
  BY <1>1, <1>13 DEF ForUpdate, CellOf
<1> QED
  BY <1>12, <1>13, <1>14 DEF Users

\* Whatever happens, the key of a reference has one holder.
LEMMA NextOneHolder ==
    ASSUME CollectionsStand, Gathered, [Next]_vars
    PROVE  OneHolder'
<1>1. recordKey' \in [Uri -> CellOf(KeyRow, Tx)] /\ Items \in SUBSET Uri
  <2>1. KeysInductive'
    BY GatheredOf, NextIntegrity DEF Integrity
  <2> QED
    BY <2>1, GatheredOf DEF KeysInductive, TypeOK
<1>2. ASSUME NEW u \in Items, NEW z \in Tx, NEW y \in Tx \ {z},
             recordKey'[u].by = z, recordKey'[u].excl = y
      PROVE  FALSE
  <2>1. recordKey[u].by = z
    BY <1>2, KeyTaken, KeysAssumption, SMTT(30) DEF Holder
  <2>2. recordKey[u].excl = y
    BY <1>2, <2>1, KeyLockedAlone, KeysAssumption
  <2> QED
    BY <1>2, <2>1, <2>2, KeysAssumption DEF Gathered, OneHolder
<1> QED
  BY <1>1, <1>2 DEF OneHolder, CellOf

\* The statements of a creation before it is distributed, and its loop over memberOf.
Preparing == {"insert_commit", "flag_old", "drop_old"} \cup Creating

Distributes(p) ==
    LET s == tx[Main(p)]  n == tx'[Main(p)] IN
    \/ /\ s.todo = {} /\ n.todo = {} /\ n.pc = "publish" /\ tx[Ref(p)].pc = "idle"
    \/ \E c \in s.todo :
          /\ n.todo = s.todo \ {c} /\ n.pc = "distribute"
          /\ tx[Ref(p)].pc = "idle"
          /\ tx'[Ref(p)].pc # "idle" /\ tx'[Ref(p)].doc = [of |-> s.doc, in |-> c, by |-> p]

\* The course of a creation by a request's own transaction.
LEMMA MainCreates ==
    ASSUME Integrity, OnBehalf, [Next]_vars, NEW p \in Req,
           tx[Main(p)].kind = "create", tx[Main(p)].pc # "new"
    PROVE  LET s == tx[Main(p)]  n == tx'[Main(p)] IN
           /\ n.kind = "create" /\ n.doc = s.doc /\ n.pc # "new"
           /\ \/ n = s
              \/ n.todo = {} /\ n.pc \in Replies \ {"ok"}
              \/ n.todo = {} /\ n.pc = "ok" /\ s.pc = "commit"
              \/ s.pc = "distribute" /\ Distributes(p)
              \/ n.todo = s.todo /\ s.pc \in Preparing /\ n.pc \in Preparing \cup {"distribute"}
              \/ n.todo = s.todo /\ s.pc = "publish" /\ n.pc = "commit"
<1> DEFINE m == Main(p)
           s == tx[m]
           n == tx'[m]
<1>1. /\ m \in Tx /\ m[1] = p /\ m[2] = "main" /\ Ref(p) \in Tx /\ Ref(p) # m
      /\ Parts /\ TxInv /\ tx \in [Tx -> TxState] /\ Course(s) /\ WellDirected(s)
  <2>1. m \in Tx /\ m[1] = p /\ m[2] = "main" /\ Ref(p) \in Tx /\ Ref(p) # m
    BY DEF Main, Ref, Tx
  <2> QED
    BY <2>1, IntegrityOf DEF Parts, TxInv
<1>2. s.doc \in UserDoc /\ s.doc \notin AssocDoc
  BY KeysAssumption DEF OnBehalf
<1>3. ASSUME NEW r \in Replies, n = Ended(m, r)
      PROVE  n.kind = "create" /\ n.doc = s.doc /\ n.todo = {} /\ n.pc = r /\ r # "new"
  BY <1>1, <1>3 DEF Ended, Fresh, Replies
<1>4. ASSUME NEW pc \in Pcs \ {"new"}, Goto(m, pc)
      PROVE  n.kind = "create" /\ n.doc = s.doc /\ n.todo = s.todo /\ n.pc = pc /\ pc # "new"
  BY <1>1, <1>4 DEF Goto, TxState
<1>5. \A r \in Replies : Fail(m, r) => n = Ended(m, r)
  BY <1>1 DEF Fail
<1>6. "error" \in Replies \ {"ok"} /\ "unpublished" \in Replies \ {"ok"} /\ "ok" \in Replies
  BY DEF Replies
<1>7. CASE Still(m)
  BY <1>7 DEF Still
<1>8. CASE Gone(m)
  BY <1>3, <1>8 DEF Gone
<1>9. ~Starts(m)
  BY DEF Starts, Main, Ref
<1>10. \A q \in Req : ~(m = Main(q) /\ Begin(q))
  BY DEF Begin
<1>11. CASE Statement(m)
  <2>1. ~Associate(m) /\ ~Find(m) /\ ~Delete(m)
    BY <1>1 DEF Course, Kinded, Associate, FindTarget, InsertAssociation, Find, FindById,
       FindKey, FindRecord, FindCommit, Delete, DeleteCommit, DeleteRecord, DeleteKey, At
  <2>2. CASE InsertCommit(m)
    <3>1. s.pc = "insert_commit" /\ Goto(m, "insert_record")
      BY <1>2, <2>2 DEF InsertCommit, At
    <3> QED
      BY <1>4, <3>1 DEF Preparing, Creating, Pcs
  <2>3. CASE InsertRecord(m)
    <3>1. s.pc = "insert_record" /\ (Goto(m, "lock_key") \/ Fail(m, "error"))
      BY <2>3 DEF InsertRecord, At
    <3> QED
      BY <1>3, <1>4, <1>5, <1>6, <3>1 DEF Preparing, Creating, Pcs
  <2>4. CASE LockKey(m)
    <3>1. /\ s.pc = "lock_key" /\ n.pc = "climb" /\ n.kind = s.kind /\ n.doc = s.doc
          /\ n.todo = s.todo
      BY <1>1, <2>4 DEF LockKey, At, TxState
    <3> QED
      BY <3>1 DEF Preparing, Creating
  <2>5. CASE Climb(m)
    <3>1. s.pc = "climb" /\ ((\E id : Found(m, id)) \/ \E up : Missing(m, up))
      BY <2>5 DEF Climb, At
    <3>2. ASSUME NEW id, Found(m, id)
          PROVE  /\ n.pc = Descend(s.path) /\ n.kind = s.kind /\ n.doc = s.doc
                 /\ n.todo = s.todo
      BY <1>1, <3>2 DEF Found, TxState
    <3>3. ASSUME NEW up, Missing(m, up)
          PROVE  n.pc = s.pc /\ n.kind = s.kind /\ n.doc = s.doc /\ n.todo = s.todo
      BY <1>1, <3>3 DEF Missing, TxState
    <3>4. Descend(s.path) \in {"point", "plant"}
      BY DEF Descend
    <3>5. /\ n.pc \in {"climb", "point", "plant"} /\ n.kind = s.kind /\ n.doc = s.doc
          /\ n.todo = s.todo
      BY <3>1, <3>2, <3>3, <3>4
    <3> QED
      BY <3>1, <3>5 DEF Preparing, Creating
  <2>6. CASE Plant(m)
    <3>1. CASE Fail(m, "error")
      BY <1>3, <1>5, <1>6, <3>1
    <3>2. CASE ~Fail(m, "error")
      <4>1. Descend(Tail(s.path)) \in {"point", "plant"}
        BY DEF Descend
      <4>2. /\ s.pc = "plant" /\ n.pc \in {"point", "plant"} /\ n.kind = s.kind
            /\ n.doc = s.doc /\ n.todo = s.todo
        BY <1>1, <2>6, <3>2, <4>1 DEF Plant, At, TxState
      <4> QED
        BY <4>2 DEF Preparing, Creating
    <3> QED
      BY <3>1, <3>2
  <2>7. CASE Point(m)
    <3>1. /\ s.pc = "point"
          /\ Goto(m, "flag_old") \/ Goto(m, "distribute") \/ Fail(m, "error")
      BY <2>7 DEF Point, At
    <3> QED
      BY <1>3, <1>4, <1>5, <1>6, <3>1 DEF Preparing, Creating, Pcs
  <2>8. CASE FlagOld(m) \/ DropOld(m)
    <3>1. /\ s.pc \in {"flag_old", "drop_old"}
          /\ Goto(m, "drop_old") \/ Goto(m, "distribute")
      BY <2>8 DEF FlagOld, DropOld, At
    <3> QED
      BY <1>4, <3>1 DEF Preparing, Pcs
  <2>9. CASE Distribute(m)
    <3>1. s.pc = "distribute"
      BY <2>9 DEF Distribute, At
    <3>2. CASE Goto(m, "publish")
      <4>1. s.todo = {} /\ tx[Ref(p)].pc = "idle"
        <5>1. SUFFICES ASSUME NEW c \in s.todo,
                              tx' = [tx EXCEPT
                                  ![m].todo = Remaining(@, c),
                                  ![Ref(p)] = [Fresh("insert_commit") EXCEPT
                                      !.doc = [of |-> s.doc, in |-> c, by |-> p],
                                      !.uri = RefUri(m, c)]]
                       PROVE  FALSE
          BY <1>1, <2>9 DEF Distribute
        <5>2. n.pc = "distribute"
          BY <1>1, <3>1, <5>1 DEF TxState
        <5> QED
          BY <1>4, <3>2, <5>2 DEF Pcs
      <4> QED
        BY <1>4, <3>1, <3>2, <4>1 DEF Distributes, Pcs
    <3>3. CASE ~Goto(m, "publish")
      <4>1. PICK c \in s.todo :
                /\ tx[Ref(p)].pc = "idle"
                /\ tx' = [tx EXCEPT
                       ![m].todo = Remaining(@, c),
                       ![Ref(p)] = [Fresh("insert_commit") EXCEPT
                           !.doc = [of |-> s.doc, in |-> c, by |-> p],
                           !.uri = RefUri(m, c)]]
        BY <1>1, <2>9, <3>3 DEF Distribute
      <4>2. /\ n = [s EXCEPT !.todo = Remaining(@, c)]
            /\ tx'[Ref(p)].pc = "insert_commit"
            /\ tx'[Ref(p)].doc = [of |-> s.doc, in |-> c, by |-> p]
        BY <1>1, <4>1 DEF Fresh
      <4>3. /\ n.kind = s.kind /\ n.doc = s.doc /\ n.pc = "distribute"
            /\ n.todo = s.todo \ {c}
        BY <1>1, <3>1, <4>2 DEF TxState, Remaining
      <4> QED
        BY <3>1, <4>1, <4>2, <4>3 DEF Distributes
    <3> QED
      BY <3>2, <3>3
  <2>10. CASE Publish(m)
    <3>1. s.pc = "publish" /\ (Goto(m, "commit") \/ Fail(m, "unpublished"))
      BY <2>10 DEF Publish, At
    <3> QED
      BY <1>3, <1>4, <1>5, <1>6, <3>1 DEF Pcs
  <2>11. CASE Commit(m)
    <3>1. s.pc = "commit" /\ n = Ended(m, "ok")
      BY <1>1, <2>11 DEF Commit, At
    <3> QED
      BY <1>3, <1>6, <3>1
  <2> QED
    BY <1>11, <2>1, <2>2, <2>3, <2>4, <2>5, <2>6, <2>7, <2>8, <2>9, <2>10, <2>11
       DEF Statement, Create
<1> QED
  BY <1>1, <1>7, <1>8, <1>9, <1>10, <1>11, StepCases

\* A nested CreateRecord begins with one of the collections its caller has left.
LEMMA RefBegins ==
    ASSUME CollectionsStand, Gathered, [Next]_vars, NEW p \in Req, ~Active(p), Active(p)'
    PROVE  /\ tx[Main(p)].pc = "distribute"
           /\ \E c \in tx[Main(p)].todo :
                 /\ tx'[Main(p)].todo = tx[Main(p)].todo \ {c}
                 /\ tx'[Ref(p)].doc = [of |-> tx[Main(p)].doc, in |-> c, by |-> p]
<1> DEFINE t == Ref(p)
<1>1. /\ t \in Tx /\ Main(p) \in Tx /\ t[1] = p /\ t[2] = "ref"
      /\ Integrity /\ tx \in [Tx -> TxState] /\ tx[t].pc = "idle" /\ tx'[t].pc # "idle"
  BY GatheredOf DEF Ref, Main, Tx, Active
<1>2. ~Still(t) /\ ~Statement(t)
  BY <1>1, StatementPc DEF Still
<1>3. \A q \in Req : t # Main(q)
  BY DEF Ref, Main
<1>4. ~Gone(t)
  BY <1>1 DEF Gone, Ended, Fresh
<1>5. Starts(t)
  BY <1>1, <1>2, <1>3, <1>4, StepCases
<1>6. Distribute(Main(p))
  BY <1>5 DEF Starts, Ref
<1>7. PICK c \in tx[Main(p)].todo :
          /\ tx'[Main(p)] = [tx[Main(p)] EXCEPT !.todo = Remaining(@, c)]
          /\ tx'[t].doc = [of |-> tx[Main(p)].doc, in |-> c, by |-> p]
  BY <1>1, <1>6, StartsWith, ZenonT(40)
<1>8. tx'[Main(p)].todo = tx[Main(p)].todo \ {c}
  BY <1>1, <1>7 DEF TxState, Remaining
<1>9. tx[Main(p)].pc = "distribute"
  BY <1>6 DEF Distribute, At
<1> QED
  BY <1>7, <1>8, <1>9

\* A reference is made once and for all.
LEMMA MadeStays ==
    ASSUME CollectionsStand, Gathered, [Next]_vars, NEW d \in RefDoc, Made(d)
    PROVE  Made(d)'
<1> DEFINE p == d.by
           s == tx[Main(p)]
           n == tx'[Main(p)]
<1>1. p \in Req /\ Integrity /\ OnBehalf /\ Ref(p) \in Tx /\ tx \in [Tx -> TxState]
  BY GatheredOf DEF RefDoc, Ref, Tx
<1>2. /\ s.kind = "create" /\ s.pc # "new" /\ s.doc = d.of /\ d.in \notin s.todo
      /\ ~(Active(p) /\ tx[Ref(p)].doc = d)
  BY DEF Made
<1>3. /\ n.kind = "create" /\ n.doc = s.doc /\ n.pc # "new"
      /\ n.todo \subseteq s.todo
  BY <1>1, <1>2, MainCreates DEF Distributes
<1>4. ASSUME Active(p)', tx'[Ref(p)].doc = d
      PROVE  FALSE
  <2>1. CASE Active(p)
    <3>1. Commit(Ref(p)) => ~Active(p)'
      BY <1>1 DEF Commit, Ended, Fresh, Active, Ref
    <3> QED
      BY <1>1, <1>2, <1>4, <2>1, <3>1, RefEnds
  <2>2. CASE ~Active(p)
    <3>1. PICK c \in s.todo : tx'[Ref(p)].doc = [of |-> s.doc, in |-> c, by |-> p]
      BY <1>1, <1>4, <2>2, RefBegins
    <3> QED
      BY <1>2, <1>4, <3>1
  <2> QED
    BY <2>1, <2>2
<1> QED
  BY <1>2, <1>3, <1>4 DEF Made

\* Whatever happens, a reference that is not made is in no table.
LEMMA NextUnmade ==
    ASSUME CollectionsStand, Gathered, [Next]_vars
    PROVE  UnmadeIsNowhere'
<1>1. SUFFICES ASSUME NEW d \in RefDoc, ~Made(d)', commitLog'[d].row # "none"
               PROVE  FALSE
  BY DEF UnmadeIsNowhere
<1>2. Integrity /\ Parts /\ d \in Doc /\ DOMAIN commitLog = Doc /\ tx \in [Tx -> TxState]
  BY GatheredOf
<1>3. commitLog[d].row = "none"
  BY <1>1, MadeStays DEF Gathered, UnmadeIsNowhere
<1>4. PICK t \in Tx : Commit(t)
  BY <1>1, <1>2, <1>3, OnlyCommits DEF NoRowChanges, SameRows
<1>5. commitLog[d].by = t
  BY <1>1, <1>2, <1>3, <1>4, CommitRows DEF Sees
<1>6. IsRef(t) /\ tx[t].pc # "idle" /\ Tended(t)
  BY <1>5, RefHolder
<1>7. /\ t[1] \in Req /\ t = Ref(t[1]) /\ Main(t[1]) \in Tx /\ tx[t].kind = "create"
      /\ tx[t].doc.by = t[1]
      /\ tx[Main(t[1])].kind = "create" /\ tx[Main(t[1])].pc = "distribute"
      /\ tx[t].doc.of = tx[Main(t[1])].doc
      /\ tx[t].pc \in Listed => tx[t].uri \in Items
  BY <1>6, RefFacts
<1>8. tx[t].doc = d
  <2>1. SUFFICES ASSUME tx[t].old = d, tx[t].pc \in Pointed
                 PROVE  FALSE
    BY <1>5, <1>6 DEF Tended, RowsTended
  <2>2. tx[t].pc \in Listed \ {"lock_key"} /\ d # NoDoc
    BY <2>1, GatheredOf DEF Listed, Pointed
  <2> QED
    BY <1>3, <1>6, <1>7, <2>1, <2>2 DEF Tended, Tending
<1>9. d.in \notin tx[Main(t[1])].todo
  BY <1>6, <1>7, <1>8 DEF Gathered, Accruing, Active
<1>10. tx'[Main(t[1])] = tx[Main(t[1])] /\ tx'[t].pc = "idle"
  <2>1. Main(t[1]) # t /\ t[2] = "ref"
    BY <1>6 DEF IsRef, Main
  <2> QED
    BY <1>2, <1>4, <1>7, <2>1 DEF Commit, Ended, Fresh
<1> QED
  BY <1>1, <1>7, <1>8, <1>9, <1>10 DEF Made, Active

\* What is in a collection stays there.
LEMMA InCollectionStays ==
    ASSUME CollectionsStand, Gathered, [Next]_vars, NEW p \in Req,
           NEW d \in UserDoc, NEW c \in MemberOf[d], InCollection(c, d)
    PROVE  InCollection(c, d)'
<1> DEFINE u == Item[<<c, d>>]
           r == Live(u)
<1>1. /\ Integrity /\ Parts /\ KeysInv /\ Reserved(Items) /\ DOMAIN recordKey = Uri
      /\ recordKey \in [Uri -> CellOf(KeyRow, Tx)]
  BY GatheredOf
<1>2. u \in Uri /\ u \in Items
  <2> DEFINE e == [of |-> d, in |-> c, by |-> p]
  <2>1. e \in RefDoc /\ e \notin UserDoc
    BY KeysAssumption DEF RefDoc
  <2>2. UriOf(e) = u
    BY <2>1 DEF UriOf
  <2> QED
    BY <2>1, <2>2, KeysAssumption DEF Items
<1>3. r \in RefDoc /\ r.of = d
  BY DEF InCollection
<1>4. UriOf(r) = u
  <2>1. KeyBelongs(u, recordKey[u].row) /\ r # NoDoc
    BY <1>1, <1>2, <1>3, GatheredOf DEF KeysInv
  <2> QED
    BY <2>1 DEF KeyBelongs, NoKey, Live
<1>5. CASE NoRowChanges
  <2>1. recordKey'[u].row = recordKey[u].row
    BY <1>1, <1>2, <1>5 DEF NoRowChanges, SameRows
  <2> QED
    BY <1>3, <2>1 DEF InCollection, Live
<1>6. ASSUME NEW t \in Tx, Commit(t)
      PROVE  InCollection(c, d)'
  <2>1. recordKey'[u].row = Sees(recordKey, u, t)
    BY <1>1, <1>2, <1>6, CommitRows
  <2>2. CASE recordKey[u].by # t
    BY <1>3, <2>1, <2>2 DEF InCollection, Live, Sees
  <2>3. CASE recordKey[u].by = t
    <3> DEFINE k == recordKey[u].dirty
    <3>1. KeyBelongs(u, k) /\ k.rec # NoDoc
      BY <1>1, <1>2, <2>3 DEF KeysInv, Gathered, Tended, KeysTended
    <3>2. k.rec \in RecordDoc /\ UriOf(k.rec) = u
      BY <3>1 DEF KeyBelongs, NoKey
    <3>3. k.rec \in RefDoc
      BY <1>1, <1>2, <3>2, KeysApart
    <3>4. k.rec.of = r.of
      BY <1>3, <1>4, <3>2, <3>3 DEF CollectionsStand
    <3> QED
      BY <1>3, <2>1, <2>3, <3>3, <3>4 DEF InCollection, Live, Sees
  <2> QED
    BY <2>2, <2>3
<1> QED
  BY <1>1, <1>5, <1>6, OnlyCommits

\* The commit of a nested CreateRecord puts its caller's document in a collection.
LEMMA RefCommitCollects ==
    ASSUME CollectionsStand, Gathered, NEW p \in Req, Active(p), Commit(Ref(p)),
           NEW c, NEW m, c = tx[Ref(p)].doc.in, m = tx[Main(p)].doc
    PROVE  InCollection(c, m)' /\ ~Active(p)'
<1> DEFINE t == Ref(p)
           s == tx[t]
           d == s.doc
<1>1. /\ t \in Tx /\ IsRef(t) /\ t[1] = p /\ s.pc = "commit" /\ s.pc # "idle"
      /\ Integrity /\ tx \in [Tx -> TxState] /\ Items \in SUBSET Uri
  BY GatheredOf DEF Commit, At, Ref, Tx, IsRef
<1>2. /\ d \in RefDoc /\ d \notin UserDoc /\ d.of = tx[Main(p)].doc /\ s.kind = "create"
      /\ s.uri = UriOf(d) /\ s.uri \in Items /\ Grip(t)
  BY <1>1, RefFacts, GatheredOf DEF Listed, Pointed
<1>3. recordKey[s.uri].by = t /\ recordKey[s.uri].dirty.rec = d
  BY <1>1, <1>2 DEF Grip, KeyPointed, Pointed
<1>4. recordKey'[s.uri].row = Sees(recordKey, s.uri, t)
  BY <1>1, <1>2, CommitRows
<1>5. recordKey'[s.uri].row.rec = d
  BY <1>3, <1>4 DEF Sees
<1>6. s.uri = Item[<<c, m>>]
  BY <1>2 DEF UriOf
<1>7. ~Active(p)'
  BY <1>1 DEF Commit, Ended, Fresh, Active, Ref
<1>8. recordKey'[Item[<<c, m>>]].row.rec \in RefDoc /\ recordKey'[Item[<<c, m>>]].row.rec.of = m
  BY <1>2, <1>5, <1>6
<1> QED
  BY <1>7, <1>8 DEF InCollection, Live

\* What there is to show of a creation after a step.
LEMMA AccruesAgain ==
    ASSUME NEW p \in Req, NEW m, tx'[Main(p)].doc = m,
           tx'[Main(p)].pc \in {"distribute", "publish", "commit", "ok"} =>
               \A c \in MemberOf[m] :
                   \/ c \in tx'[Main(p)].todo
                   \/ Active(p)' /\ tx'[Ref(p)].doc.in = c
                   \/ InCollection(c, m)',
           tx'[Main(p)].pc \in Preparing => tx'[Main(p)].todo = MemberOf[m],
           tx'[Main(p)].pc \in {"publish", "commit", "ok"} => tx'[Main(p)].todo = {},
           Active(p)' => tx'[Ref(p)].doc.in \notin tx'[Main(p)].todo
    PROVE  Accruing(p)'
  BY DEF Accruing, InCollection, Live, Preparing

\* A collection that a reference is in, or is being put in, is not forgotten.
LEMMA Accrued ==
    ASSUME CollectionsStand, Gathered, [Next]_vars, NEW p \in Req, NEW m \in UserDoc,
           m = tx[Main(p)].doc, NEW c \in MemberOf[m],
           \/ Active(p) /\ tx[Ref(p)].doc.in = c
           \/ InCollection(c, m)
    PROVE  \/ Active(p)' /\ tx'[Ref(p)].doc.in = c
           \/ InCollection(c, m)'
           \/ tx'[Main(p)].pc \in Replies \ {"ok"}
<1>1. CASE InCollection(c, m)
  BY <1>1, InCollectionStays
<1>2. CASE Active(p) /\ tx[Ref(p)].doc.in = c
  <2>1. Commit(Ref(p)) => InCollection(c, m)'
    BY <1>2, RefCommitCollects
  <2> QED
    BY <1>2, <2>1, RefEnds
<1> QED
  BY <1>1, <1>2

\* A request's creation under way goes on gathering.
LEMMA CreationAccrues ==
    ASSUME CollectionsStand, Gathered, [Next]_vars, NEW p \in Req,
           tx[Main(p)].kind = "create", tx[Main(p)].pc # "new"
    PROVE  Accruing(p)'
<1> DEFINE s == tx[Main(p)]
           n == tx'[Main(p)]
<1>1. Integrity /\ OnBehalf /\ Nested /\ Accruing(p) /\ tx \in [Tx -> TxState]
  BY GatheredOf DEF Gathered
<1>2. PICK m \in UserDoc : m = s.doc
  BY <1>1 DEF OnBehalf
<1>3. n.doc = m
  BY <1>1, <1>2, MainCreates
<1>4. /\ s.pc \in {"distribute", "publish", "commit", "ok"} =>
            \A c \in MemberOf[m] :
                c \in s.todo \/ (Active(p) /\ tx[Ref(p)].doc.in = c) \/ InCollection(c, m)
      /\ s.pc \in Preparing => s.todo = MemberOf[m]
      /\ s.pc \in {"publish", "commit", "ok"} => s.todo = {}
      /\ Active(p) => tx[Ref(p)].doc.in \notin s.todo
  BY <1>1, <1>2 DEF Accruing, Preparing, InCollection, Live
<1>5. Active(p) => s.pc = "distribute"
  BY <1>1 DEF Nested, Active
\* Its reference goes on as well, is over, or begins with a collection taken out of todo.
<1>6. \/ Active(p)' /\ Active(p) /\ tx'[Ref(p)].doc = tx[Ref(p)].doc
      \/ ~Active(p)'
      \/ /\ ~Active(p) /\ Active(p)' /\ s.pc = "distribute"
         /\ \E c \in s.todo : n.todo = s.todo \ {c} /\ tx'[Ref(p)].doc.in = c
  <2>1. CASE Active(p)
    <3>1. ASSUME Commit(Ref(p))
          PROVE  ~Active(p)'
      BY <1>1, <3>1 DEF Commit, Ended, Fresh, Active, Ref, Tx
    <3> QED
      BY <2>1, <3>1, RefEnds
  <2>2. CASE ~Active(p) /\ Active(p)'
    <3>1. PICK c \in s.todo : /\ n.todo = s.todo \ {c}
                             /\ tx'[Ref(p)].doc = [of |-> s.doc, in |-> c, by |-> p]
      BY <2>2, RefBegins
    <3>2. tx'[Ref(p)].doc.in = c /\ s.pc = "distribute"
      BY <2>2, <3>1, RefBegins
    <3> QED
      BY <2>2, <3>1, <3>2
  <2> QED
    BY <2>1, <2>2
<1>7. Active(p)' => tx'[Ref(p)].doc.in \notin n.todo
  <2>1. n.todo \subseteq s.todo
    BY <1>1, MainCreates DEF Distributes
  <2> QED
    BY <1>4, <1>6, <2>1
<1>8. n.pc \in {"publish", "commit", "ok"} => n.todo = {}
  <2>1. \/ n = s \/ n.todo = {} \/ n.pc = "distribute" \/ n.pc \in Preparing
        \/ n.todo = s.todo /\ s.pc = "publish"
    BY <1>1, MainCreates DEF Distributes
  <2> QED
    BY <1>4, <2>1 DEF Preparing, Creating
<1>9. n.pc \in Preparing => n.todo = MemberOf[m]
  <2>1. \/ n = s \/ n.pc \in Replies \cup {"publish", "distribute", "commit"}
        \/ n.todo = s.todo /\ s.pc \in Preparing
    BY <1>1, MainCreates DEF Distributes, Replies
  <2> QED
    BY <1>4, <2>1 DEF Preparing, Creating, Replies
<1>10. ASSUME n.pc \in {"distribute", "publish", "commit", "ok"}, NEW c \in MemberOf[m]
       PROVE  \/ c \in n.todo
              \/ Active(p)' /\ tx'[Ref(p)].doc.in = c
              \/ InCollection(c, m)'
  <2>1. n.pc \notin Replies \ {"ok"}
    BY <1>10 DEF Replies
  <2>2. CASE s.pc \in Preparing
    <3>1. n.todo = s.todo
      BY <1>1, <2>1, <2>2, MainCreates DEF Preparing, Creating
    <3> QED
      BY <1>4, <2>2, <3>1
  <2>3. CASE s.pc \in {"distribute", "publish", "commit", "ok"}
    <3>1. CASE c \in s.todo
      <4>1. s.pc = "distribute"
        BY <1>4, <2>3, <3>1
      <4>2. n = s \/ Distributes(p)
        BY <1>1, <2>1, <4>1, MainCreates DEF Preparing, Creating
      <4>3. ASSUME Distributes(p)
            PROVE  c \in n.todo \/ (Active(p)' /\ tx'[Ref(p)].doc.in = c)
        <5>1. PICK b \in s.todo : /\ n.todo = s.todo \ {b} /\ tx'[Ref(p)].pc # "idle"
                                 /\ tx'[Ref(p)].doc = [of |-> s.doc, in |-> b, by |-> p]
          BY <3>1, <4>3 DEF Distributes
        <5>2. Active(p)' /\ tx'[Ref(p)].doc.in = b
          BY <5>1 DEF Active
        <5> QED
          BY <3>1, <5>1, <5>2
      <4> QED
        BY <3>1, <4>2, <4>3
    <3>2. CASE c \notin s.todo
      <4>1. (Active(p) /\ tx[Ref(p)].doc.in = c) \/ InCollection(c, m)
        BY <1>4, <2>3, <3>2
      <4> QED
        BY <1>2, <2>1, <4>1, Accrued
    <3> QED
      BY <3>1, <3>2
  <2>4. CASE s.pc \notin Preparing \cup {"distribute", "publish", "commit", "ok"}
    <3>1. n = s
      BY <1>1, <2>1, <2>4, MainCreates
    <3> QED
      BY <1>10, <2>4, <3>1
  <2> QED
    BY <2>2, <2>3, <2>4
<1> QED
  BY <1>3, <1>7, <1>8, <1>9, <1>10, AccruesAgain

\* One that begins has everything to do.
LEMMA NextAccruing ==
    ASSUME CollectionsStand, Gathered, [Next]_vars, NEW p \in Req
    PROVE  Accruing(p)'
<1> DEFINE s == tx[Main(p)]
           n == tx'[Main(p)]
<1>1. Integrity /\ tx \in [Tx -> TxState] /\ Main(p) \in Tx /\ Ref(p) \in Tx
  BY GatheredOf DEF Main, Ref, Tx
<1>2. Nested'
  BY <1>1, NextIntegrity DEF Integrity
<1>3. Active(p)' => n.pc = "distribute"
  BY <1>2 DEF Nested, Active
<1>4. CASE s.kind = "create" /\ s.pc # "new"
  BY <1>4, CreationAccrues
<1>5. CASE Begin(p)
  <2>1. PICK o \in Menu[p] :
            /\ n.kind = o.kind /\ n.doc = o.doc /\ n.pc = FirstStatement(o)
            /\ n.todo = IF o.kind = "create" THEN MemberOf[o.doc] ELSE {}
    BY <1>1, <1>5 DEF Begin, Fresh
  <2>2. CASE n.kind = "create"
    <3>1. n.pc = "insert_commit" /\ n.todo = MemberOf[n.doc]
      BY <2>1, <2>2 DEF FirstStatement
    <3> QED
      BY <1>3, <3>1 DEF Accruing
  <2>3. CASE n.kind # "create"
    BY <2>3 DEF Accruing
  <2> QED
    BY <2>2, <2>3
<1>6. CASE n = s /\ s.pc = "new"
  BY <1>3, <1>6 DEF Accruing, Creating
<1>7. CASE n.kind # "create"
  BY <1>7 DEF Accruing
<1> QED
  BY <1>1, <1>4, <1>5, <1>6, <1>7, MainSubject

\* At the start there are no references.
LEMMA InitGathered ==
    ASSUME CollectionsStand, Init
    PROVE  Gathered
<1>1. Separate(Items)
  <2>1. Items \in SUBSET Uri
    BY DocumentKeys DEF Items, RecordDoc
  <2> QED
    BY <2>1, InitSeparate
<1>2. UnmadeIsNowhere
  <2>1. \A d \in RefDoc : d \in Doc /\ d \notin Stored
    BY KeysAssumption, StartAssumption DEF Doc, RecordDoc
  <2> QED
    BY <2>1 DEF Init, UnmadeIsNowhere, Cell
<1>3. OneHolder
  BY <1>1, DocumentKeys DEF Init, OneHolder, Cell, Items, RecordDoc
<1>4. ASSUME NEW t \in Tx
      PROVE  Tended(t)
  <2>1. tx[t].pc \in {"new", "idle"} /\ t # NoTx
    BY KeysAssumption DEF Init, Fresh
  <2>2. RowsTended(t)
    BY <2>1 DEF Init, Cell, RowsTended, Doc, RecordDoc
  <2>3. KeysTended(t)
    BY <2>1, DocumentKeys DEF Init, Cell, KeysTended, Items, RecordDoc
  <2>4. Tending(t)
    BY <2>1 DEF Tending, Listed, Pointed
  <2> QED
    BY <2>2, <2>3, <2>4 DEF Tended
<1>5. ASSUME NEW p \in Req
      PROVE  Accruing(p)
  <2>1. tx[Main(p)].pc = "new" /\ tx[Ref(p)].pc = "idle"
    BY DEF Init, Fresh, Main, Ref, Tx
  <2> QED
    BY <2>1 DEF Accruing, Active, Creating
<1> QED
  BY <1>1, <1>2, <1>3, <1>4, <1>5 DEF Gathered

\* What is gathered stays gathered.
LEMMA NextGathered ==
    ASSUME CollectionsStand, Gathered, [Next]_vars
    PROVE  Gathered'
<1>1. Separate(Items)'
  BY GatheredOf, NextSeparate
<1> QED
  BY <1>1, NextUnmade, NextOneHolder, NextTended, NextAccruing DEF Gathered

\* Where the collections stand, a reference is made once, found nowhere before it is, and
\* held by nobody but its creator, in every reachable state.
THEOREM GatheredAlways ==
    ASSUME CollectionsStand
    PROVE  Spec => []Gathered
<1>1. Init => Gathered
  BY InitGathered
<1>2. Gathered /\ [Next]_vars => Gathered'
  BY NextGathered
<1> QED
  BY <1>1, <1>2, PTL DEF Spec

\* There, a record whose creation was answered ok is in every collection of its memberOf
\* (record.go:187-209), for any number of requests, documents and collections.
THEOREM DistributedAlways ==
    ASSUME CollectionsStand
    PROVE  Spec => []Distributed
<1>1. ASSUME Gathered
      PROVE  Distributed
  <2>1. SUFFICES ASSUME NEW p \in Req, tx[Main(p)].pc = "ok", tx[Main(p)].kind = "create",
                        NEW c \in MemberOf[tx[Main(p)].doc]
                 PROVE  InCollection(c, tx[Main(p)].doc)
    BY DEF Distributed, InCollection
  <2>2. ~Active(p)
    BY <1>1, <2>1, GatheredOf DEF Nested, Active
  <2>3. Accruing(p)
    BY <1>1 DEF Gathered
  <2> QED
    BY <2>1, <2>2, <2>3 DEF Accruing
<1>2. Gathered => Distributed
  BY <1>1
<1>3. Spec => []Gathered
  BY GatheredAlways
<1> QED
  BY <1>2, <1>3, PTL
=============================================================================
