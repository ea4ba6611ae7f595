------------------------------- MODULE Query -------------------------------
(***************************************************************************)
(* GET /query (handleQuery and RecordRepository.Query): the documents      *)
(* whose URI begins with a prefix, by date, up to a limit.  One statement  *)
(* finds the keys, a second one loads their records and a third one the    *)
(* commits of those; what happens to the store in between is one of the    *)
(* steps of DocumentStore.                                                 *)
(***************************************************************************)
EXTENDS Integers, FiniteSets

CONSTANTS
    Uri, RecordDoc, NoDoc, UriOf(_),   \* as in DocumentStore
    Date,                              \* dates of records
    Match,                             \* the URIs a prefix matches
    SchemaOf,                          \* the schema of each document
    Asked,                             \* the queries that are made
    DefaultLimit, MaxLimit,            \* 10 and 100
    None,                              \* a parameter that is left out
    MaxWrites                          \* bound: commits and deletes

ASSUME QueryAssumption ==
    /\ Date \subseteq Int
    /\ DefaultLimit \in Nat /\ MaxLimit \in Nat /\ MaxWrites \in Nat
    /\ NoDoc \notin RecordDoc
    /\ IsFiniteSet(RecordDoc)
    /\ \A d \in RecordDoc : UriOf(d) \in Uri
    /\ \A ask \in Asked : ask.limit \in Int \cup {None}
    /\ None \notin Int

VARIABLES
    live, stored, retired, listed,   \* the document store
    date,    \* the c_date of each record
    writes,  \* how many commits and deletes there were
    reader   \* the query that is being made

store == <<live, stored, retired, listed>>
vars  == <<live, stored, retired, listed, date, writes, reader>>

Store == INSTANCE DocumentStore WITH AssocDoc <- {}

\* The moments of a query are the states of the store since it was asked, and gone are
\* the documents whose records were deleted since; only the properties read them.
Idle == [pc |-> "idle", ask |-> None, rows |-> {}, records |-> {},
         moments |-> {}, gone |-> {}]

Init ==
    /\ Store!Init
    /\ date \in [RecordDoc -> Date]
    /\ writes = 0
    /\ reader = Idle
-----------------------------------------------------------------------------
Underway == reader.pc \in {"keys", "records", "documents"}

Moment == [live |-> live, date |-> date]

(***************************************************************************)
(* A commit or a delete.  A create takes its date before its transaction   *)
(* begins, so that dates do not come in the order of the commits; a record *)
(* that is there already keeps the date it has.                            *)
(***************************************************************************)
Write ==
    /\ writes < MaxWrites
    /\ writes' = writes + 1
    /\ Store!Next
    /\ \E t \in Date :
          date' = [d \in RecordDoc |-> IF d \in listed' \ listed THEN t ELSE date[d]]
    /\ reader' = IF Underway
                 THEN [reader EXCEPT !.moments = @ \cup {Moment'},
                                     !.gone = @ \cup (listed \ listed')]
                 ELSE reader
-----------------------------------------------------------------------------
(***************************************************************************)
(* handleQuery: the default and the most a limit may be.  GORM leaves out  *)
(* the LIMIT of a negative number.                                         *)
(***************************************************************************)
Limit(ask) ==
    LET n == IF ask.limit = None THEN DefaultLimit ELSE ask.limit
    IN IF n > MaxLimit THEN MaxLimit ELSE n

Ask(ask) ==
    /\ ~Underway
    /\ reader' = [Idle EXCEPT !.pc = "keys", !.ask = ask, !.moments = {Moment}]
    /\ UNCHANGED <<store, date, writes>>

Within(t, ask) == (ask.since = None \/ ask.since <= t) /\ (ask.until = None \/ t <= ask.until)

\* The keys joined with their records, each named by the document it resolves to.
Selected(ask) ==
    {d \in listed :
        /\ live[UriOf(d)] = d
        /\ UriOf(d) \in Match[ask.prefix]
        /\ ask.schema \in {None, SchemaOf[d]}
        /\ Within(date[d], ask)}

Precedes(s, t, order) == IF order = "desc" THEN s > t ELSE s < t

\* What ORDER BY c_date ... LIMIT n may leave of the rows S.
TopOf(S, n, order) ==
    {T \in SUBSET S :
        /\ IF n < 0 THEN T = S
           ELSE Cardinality(T) <= n /\ (T # S => Cardinality(T) = n)
        /\ \A d \in T, e \in S \ T : ~Precedes(date[e], date[d], order)}

FindKeys ==
    /\ reader.pc = "keys"
    /\ \E T \in TopOf(Selected(reader.ask), Limit(reader.ask), reader.ask.order) :
        reader' = [reader EXCEPT !.pc = "records", !.rows = T]
    /\ UNCHANGED <<store, date, writes>>

\* Preload("Record.Document"): the records the keys named, then the commits of those.
LoadRecords ==
    /\ reader.pc = "records"
    /\ reader' = [reader EXCEPT !.pc = "documents",
                                !.records = reader.rows \cap listed]
    /\ UNCHANGED <<store, date, writes>>

\* Mutants: a row without its document is left out; no row is an error, too.
ReplyFound(loaded)  == "ok"
ReplyAny(loaded)    == IF loaded = reader.rows /\ loaded # {} THEN "ok" ELSE "error"
\* A key whose record or commit was not found has an empty document, which is no JSON: the
\* first of them fails the query.
Reply(loaded)       == IF loaded = reader.rows THEN "ok" ELSE "error"

LoadDocuments ==
    /\ reader.pc = "documents"
    /\ LET loaded == reader.records \cap stored
       IN reader' = [reader EXCEPT !.pc = Reply(loaded), !.records = loaded]
    /\ UNCHANGED <<store, date, writes>>

Next ==
    \/ Write
    \/ \E ask \in Asked : Ask(ask)
    \/ FindKeys
    \/ LoadRecords
    \/ LoadDocuments

Spec == Init /\ [][Next]_vars
-----------------------------------------------------------------------------
TypeOK ==
    /\ live \in [Uri -> RecordDoc \cup {NoDoc}]
    /\ stored \subseteq RecordDoc /\ retired \subseteq RecordDoc /\ listed \subseteq RecordDoc
    /\ date \in [RecordDoc -> Date]
    /\ writes \in 0 .. MaxWrites
    /\ reader \in [pc: {"idle", "keys", "records", "documents", "ok", "error"},
                   ask: Asked \cup {None},
                   rows: SUBSET RecordDoc, records: SUBSET RecordDoc,
                   moments: SUBSET [live: [Uri -> RecordDoc \cup {NoDoc}],
                                    date: [RecordDoc -> Date]],
                   gone: SUBSET RecordDoc]

(***************************************************************************)
(* What a query of one statement, made at moment m, would have answered:   *)
(* of the documents asked for, as many as the request may have, and none   *)
(* of them with that many before it.  How many that is is said of the      *)
(* request, not of what handleQuery makes of it: ten if it does not say, a *)
(* hundred at most, but all there are when it asks for less than none.     *)
(***************************************************************************)
Expected(m, ask) ==
    {d \in RecordDoc :
        /\ m.live[UriOf(d)] = d
        /\ UriOf(d) \in Match[ask.prefix]
        /\ ask.schema # None => SchemaOf[d] = ask.schema
        /\ ask.since # None => ask.since <= m.date[d]
        /\ ask.until # None => m.date[d] <= ask.until}

MayHave(ask, n) ==
    \/ ask.limit # None /\ ask.limit < 0
    \/ n <= MaxLimit /\ n <= (IF ask.limit = None THEN DefaultLimit ELSE ask.limit)

Answers(R, m, ask) ==
    LET S == Expected(m, ask)
        n == Cardinality(R)
    IN /\ R \subseteq S
       /\ MayHave(ask, n)
       /\ R # S => ~MayHave(ask, n + 1)
       /\ \A d \in R :
             Cardinality({e \in S : Precedes(m.date[e], m.date[d], ask.order)}) < n

(***************************************************************************)
(* Three statements answer as one would have: whatever is committed or     *)
(* deleted between them, an answer is that of one moment of the query,     *)
(* with nothing missing from it (record.go:660-718).                       *)
(***************************************************************************)
AnswersOfOneMoment ==
    reader.pc = "ok" => \E m \in reader.moments : Answers(reader.records, m, reader.ask)

(***************************************************************************)
(* A query fails only when the record of a document it had found was       *)
(* replaced or deleted before the last statement (record.go:704-712): in a *)
(* store at rest every key leads to a document.                            *)
(***************************************************************************)
FailsOnlyOnChange == reader.pc = "error" => reader.rows \cap reader.gone # {}
=============================================================================
