------------------------------ MODULE Postgres ------------------------------
(***************************************************************************)
(* Rows of a PostgreSQL table as the repositories under                    *)
(* internal/infra/repository use them, at READ COMMITTED (GORM's default). *)
(*                                                                         *)
(* A table is a function from unique keys to cells.  A cell holds the      *)
(* committed row, the row as its one in-progress writer sees it, that      *)
(* writer, and the two kinds of row lock that matter here:                 *)
(*   share  transactions holding FOR KEY SHARE (taken by foreign key       *)
(*          checks on the referenced row);                                 *)
(*   excl   the transaction holding FOR UPDATE, which is also what a       *)
(*          DELETE takes.                                                  *)
(* An UPDATE that changes no key column conflicts with writers and with    *)
(* excl but not with share.  A statement is one atomic step, taken once    *)
(* the rows it touches are free; the operators below name who it waits     *)
(* for.                                                                    *)
(***************************************************************************)
CONSTANT NoTx

Cell(v) == [row |-> v, dirty |-> v, by |-> NoTx, share |-> {}, excl |-> NoTx]

CellOf(V, Tx) == [row: V, dirty: V, by: Tx \cup {NoTx},
                  share: SUBSET Tx, excl: Tx \cup {NoTx}]

\* What a statement of transaction t sees: its own writes, else what is committed.
Sees(T, k, t) == IF T[k].by = t THEN T[k].dirty ELSE T[k].row

(***************************************************************************)
(* Whom t waits for: to insert (INSERT waits for any other writer of the   *)
(* key to end), to update, to delete or lock FOR UPDATE, to pass a foreign *)
(* key check.                                                              *)
(***************************************************************************)
Writer(T, k, t)  == {T[k].by} \ {NoTx, t}
Holder(T, k, t)  == {T[k].by, T[k].excl} \ {NoTx, t}
Users(T, k, t)   == ({T[k].by, T[k].excl} \cup T[k].share) \ {NoTx, t}
Remover(T, k, t) == {T[k].excl} \ {NoTx, t}

Write(T, k, t, v)  == [T EXCEPT ![k].dirty = v, ![k].by = t]
Remove(T, k, t, v) == [T EXCEPT ![k].dirty = v, ![k].by = t, ![k].excl = t]
Share(T, k, t)     == [T EXCEPT ![k].share = @ \cup {t}]
ForUpdate(T, k, t) == [T EXCEPT ![k].excl = t]

\* The cell once the transactions of S are over.
Release(c, S) ==
    [row |-> c.row, dirty |-> c.row,
     by    |-> NoTx,
     share |-> c.share \ S,
     excl  |-> IF c.excl \in S THEN NoTx ELSE c.excl]

Committed(T, t) ==
    [k \in DOMAIN T |->
        IF T[k].by = t THEN Release([T[k] EXCEPT !.row = T[k].dirty], {t})
        ELSE [T[k] EXCEPT !.share = @ \ {t}, !.excl = IF @ = t THEN NoTx ELSE @]]

RolledBack(T, S) ==
    [k \in DOMAIN T |->
        IF T[k].by \in S THEN Release(T[k], S)
        ELSE [T[k] EXCEPT !.share = @ \ S, !.excl = IF @ \in S THEN NoTx ELSE @]]
=============================================================================
