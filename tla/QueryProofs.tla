---------------------------- MODULE QueryProofs ----------------------------
(***************************************************************************)
(* Proofs about Query, for any documents, dates, queries and limits, and   *)
(* whatever is committed and deleted between the statements of a query.    *)
(***************************************************************************)
EXTENDS Query, FiniteSetTheorems, TLAPS

\* Of the store: what a URI resolves to was written for it and has its record and commit.
StoreSound ==
    /\ listed \subseteq stored
    /\ \A u \in Uri : live[u] # NoDoc => UriOf(live[u]) = u /\ live[u] \in listed

(***************************************************************************)
(* Of a query under way: the present is one of its moments; what it found  *)
(* answers it at one of them; and what of that has been lost on the way is *)
(* gone.                                                                   *)
(***************************************************************************)
AnsweredOnce == \E m \in reader.moments : Answers(reader.rows, m, reader.ask)

ReaderSound ==
    /\ Underway => Moment \in reader.moments /\ reader.ask \in Asked
    /\ reader.pc \in {"records", "documents"} =>
           AnsweredOnce /\ reader.rows \subseteq listed \cup reader.gone
    /\ reader.pc = "documents" =>
           /\ reader.records \subseteq reader.rows
           /\ reader.rows \subseteq reader.records \cup reader.gone

Inductive ==
    TypeOK /\ StoreSound /\ ReaderSound /\ AnswersOfOneMoment /\ FailsOnlyOnChange

-----------------------------------------------------------------------------
(* What the first statement finds.                                          *)

\* It is what the query asks for at this moment.
LEMMA SelectedExpected ==
    ASSUME TypeOK, StoreSound, NEW ask \in Asked
    PROVE  Selected(ask) = Expected(Moment, ask)
  <1>1. \A d \in RecordDoc : live[UriOf(d)] = d => d \in listed
    BY QueryAssumption DEF StoreSound
  <1>2. listed \subseteq RecordDoc
    BY DEF TypeOK
  <1>3. Moment.live = live /\ Moment.date = date
    BY DEF Moment
  <1> QED BY <1>1, <1>2, <1>3 DEF Selected, Expected, Within

\* Of the rows T that ORDER BY and LIMIT leave, none has the limit's number before it.
LEMMA FewBefore ==
    ASSUME NEW S, NEW T \in SUBSET S, IsFiniteSet(T), NEW order,
           S \subseteq RecordDoc, date \in [RecordDoc -> Int],
           \A d \in T, e \in S \ T : ~Precedes(date[e], date[d], order),
           NEW d \in T
    PROVE  Cardinality({e \in S : Precedes(date[e], date[d], order)}) < Cardinality(T)
  <1> DEFINE before == {e \in S : Precedes(date[e], date[d], order)}
  <1>1. ~Precedes(date[d], date[d], order)
    <2>1. date[d] \in Int
      OBVIOUS
    <2> QED BY <2>1 DEF Precedes
  <1>2. before \subseteq T \ {d}
    BY <1>1
  <1>3. IsFiniteSet(T \ {d}) /\ Cardinality(T \ {d}) = Cardinality(T) - 1
    BY FS_RemoveElement
  <1>4. Cardinality(before) <= Cardinality(T \ {d})
    BY <1>2, <1>3, FS_Subset
  <1>5. Cardinality(before) \in Nat /\ Cardinality(T) \in Nat
    BY <1>2, <1>3, FS_Subset, FS_CardinalityType
  <1> QED BY <1>3, <1>4, <1>5

\* A limit is a number.
LEMMA LimitType == ASSUME NEW ask \in Asked PROVE Limit(ask) \in Int
  BY QueryAssumption DEF Limit

\* It is what the request may have.
LEMMA LimitKept ==
    ASSUME NEW ask \in Asked, NEW n \in Nat
    PROVE  MayHave(ask, n) <=> Limit(ask) < 0 \/ n <= Limit(ask)
  BY QueryAssumption DEF Limit, MayHave

\* The first of it are an answer to the query at this moment.
LEMMA TopAnswers ==
    ASSUME TypeOK, StoreSound, NEW ask \in Asked,
           NEW T \in TopOf(Selected(ask), Limit(ask), ask.order)
    PROVE  Answers(T, Moment, ask)
  <1> DEFINE S == Expected(Moment, ask)
             n == Limit(ask)
  <1>1. S \subseteq RecordDoc /\ IsFiniteSet(S) /\ Cardinality(S) \in Nat
    BY QueryAssumption, FS_Subset, FS_CardinalityType DEF Expected
  <1>2. /\ T \in SUBSET S
        /\ IF n < 0 THEN T = S ELSE Cardinality(T) <= n /\ (T # S => Cardinality(T) = n)
        /\ \A d \in T, e \in S \ T : ~Precedes(date[e], date[d], ask.order)
    BY SelectedExpected DEF TopOf
  <1>3. IsFiniteSet(T) /\ Cardinality(T) \in Nat /\ Cardinality(T) <= Cardinality(S)
        /\ (Cardinality(T) = Cardinality(S) => T = S)
    BY <1>1, <1>2, FS_Subset, FS_CardinalityType
  <1>4. date \in [RecordDoc -> Int] /\ Moment.date = date
    BY QueryAssumption DEF TypeOK, Moment
  <1>5. n \in Int
    BY LimitType
  <1> HIDE DEF S, n
  <1>6. \A d \in T :
            Cardinality({e \in S : Precedes(date[e], date[d], ask.order)}) < Cardinality(T)
    BY <1>1, <1>2, <1>3, <1>4, FewBefore
  <1>7. MayHave(ask, Cardinality(T))
    BY <1>2, <1>3, <1>5, LimitKept DEF n
  <1>8. T # S => ~MayHave(ask, Cardinality(T) + 1)
    BY <1>2, <1>3, <1>5, LimitKept DEF n
  <1> QED BY <1>2, <1>4, <1>6, <1>7, <1>8 DEF Answers, S

-----------------------------------------------------------------------------
(* The steps.                                                               *)

\* It holds at first.
LEMMA InitInductive == Init => Inductive
  <1> SUFFICES ASSUME Init PROVE Inductive
    OBVIOUS
  <1>1. /\ stored \subseteq RecordDoc /\ listed = stored /\ retired = {}
        /\ live = [u \in Uri |->
                      IF \E d \in stored : UriOf(d) = u
                      THEN CHOOSE d \in stored : UriOf(d) = u ELSE NoDoc]
    BY DEF Init, Store!Init
  <1>2. \A u \in Uri : \/ live[u] = NoDoc
                       \/ live[u] \in stored /\ UriOf(live[u]) = u
    BY <1>1
  <1>3. reader = Idle /\ writes = 0 /\ date \in [RecordDoc -> Date]
    BY DEF Init
  <1>4. TypeOK
    BY <1>1, <1>2, <1>3, QueryAssumption DEF TypeOK, Idle
  <1>5. StoreSound
    BY <1>1, <1>2 DEF StoreSound
  <1> QED BY <1>3, <1>4, <1>5
        DEF Inductive, ReaderSound, AnswersOfOneMoment, FailsOnlyOnChange, Underway, Idle

\* A step of the store keeps it sound.
LEMMA StoreStep ==
    ASSUME TypeOK, StoreSound, Store!Next
    PROVE  /\ StoreSound'
           /\ live' \in [Uri -> RecordDoc \cup {NoDoc}]
           /\ stored' \subseteq RecordDoc /\ retired' \subseteq RecordDoc
           /\ listed' \subseteq RecordDoc
  <1> USE QueryAssumption DEF TypeOK, StoreSound
  <1>1. ASSUME NEW d \in RecordDoc, Store!Put(d)
        PROVE  /\ StoreSound'
               /\ live' \in [Uri -> RecordDoc \cup {NoDoc}]
               /\ stored' \subseteq RecordDoc /\ retired' \subseteq RecordDoc
               /\ listed' \subseteq RecordDoc
    <2> DEFINE replaced == {live[UriOf(d)]} \ {NoDoc, d}
    <2>1. /\ stored' = stored \cup {d}
          /\ live' = [live EXCEPT ![UriOf(d)] = d]
          /\ retired' = retired \cup replaced
          /\ listed' = (listed \ replaced) \cup {d}
      BY <1>1 DEF Store!Put
    <2>2. replaced \subseteq RecordDoc /\ \A e \in replaced : e = live[UriOf(d)]
      OBVIOUS
    <2>3. \A u \in Uri : live'[u] # NoDoc => UriOf(live'[u]) = u /\ live'[u] \in listed'
      <3>1. SUFFICES ASSUME NEW u \in Uri, live'[u] # NoDoc
                     PROVE  UriOf(live'[u]) = u /\ live'[u] \in listed'
        OBVIOUS
      <3>2. CASE u = UriOf(d)
        BY <2>1, <3>2
      <3>3. CASE u # UriOf(d)
        <4>1. live'[u] = live[u] /\ UriOf(live[u]) = u /\ live[u] \in listed
          BY <2>1, <3>1, <3>3
        <4>2. live[u] \notin replaced
          BY <4>1, <3>3
        <4> QED BY <2>1, <4>1, <4>2
      <3> QED BY <3>2, <3>3
    <2> QED BY <2>1, <2>2, <2>3
  <1>2. ASSUME NEW d \in RecordDoc, Store!Erase(d)
        PROVE  /\ StoreSound'
               /\ live' \in [Uri -> RecordDoc \cup {NoDoc}]
               /\ stored' \subseteq RecordDoc /\ retired' \subseteq RecordDoc
               /\ listed' \subseteq RecordDoc
    <2>1. /\ stored' = stored \ {d} /\ retired' = retired \ {d} /\ listed' = listed \ {d}
          /\ live' = [u \in Uri |-> IF live[u] = d THEN NoDoc ELSE live[u]]
      BY <1>2 DEF Store!Erase
    <2> QED BY <2>1
  <1> QED BY <1>1, <1>2 DEF Store!Next

\* Nothing is said of a query without its reply, nor anew of one that has it.
LEMMA NoReplyYet ==
    ASSUME reader'.pc \notin {"ok", "error"}
    PROVE  AnswersOfOneMoment' /\ FailsOnlyOnChange'
  BY DEF AnswersOfOneMoment, FailsOnlyOnChange

\* One moment at which the rows answer is enough.
LEMMA OneMoment ==
    ASSUME NEW m \in reader'.moments, Answers(reader'.rows, m, reader'.ask)
    PROVE  AnsweredOnce'
  BY DEF AnsweredOnce, Answers, Expected

\* Rows that answered at some moment still do.
LEMMA OnceKept ==
    ASSUME AnsweredOnce, reader.moments \subseteq reader'.moments,
           reader'.rows = reader.rows, reader'.ask = reader.ask
    PROVE  AnsweredOnce'
  <1>1. PICK m \in reader.moments : Answers(reader.rows, m, reader.ask)
    BY DEF AnsweredOnce
  <1>2. m \in reader'.moments /\ Answers(reader'.rows, m, reader'.ask)
    BY <1>1
  <1> QED BY <1>2, OneMoment

\* A reply stays as it was given.
LEMMA ReplyKept ==
    ASSUME UNCHANGED reader, AnswersOfOneMoment, FailsOnlyOnChange
    PROVE  AnswersOfOneMoment' /\ FailsOnlyOnChange'
  <1>1. FailsOnlyOnChange'
    BY DEF FailsOnlyOnChange
  <1>2. CASE reader.pc = "ok"
    <2>1. PICK m \in reader.moments : Answers(reader.records, m, reader.ask)
      BY <1>2 DEF AnswersOfOneMoment
    <2>2. m \in reader'.moments /\ Answers(reader'.records, m, reader'.ask)
      BY <2>1
    <2>3. AnswersOfOneMoment'
      BY <2>2 DEF AnswersOfOneMoment, Answers, Expected
    <2> QED BY <1>1, <2>3
  <1>3. CASE reader.pc # "ok"
    BY <1>1, <1>3 DEF AnswersOfOneMoment
  <1> QED BY <1>2, <1>3

\* A writer commits.
LEMMA WriteInductive == ASSUME Inductive, Write PROVE Inductive'
  <1>1. TypeOK /\ StoreSound /\ ReaderSound
    BY DEF Inductive
  <1>2. /\ StoreSound'
        /\ live' \in [Uri -> RecordDoc \cup {NoDoc}]
        /\ stored' \subseteq RecordDoc /\ retired' \subseteq RecordDoc
        /\ listed' \subseteq RecordDoc
    BY <1>1, StoreStep DEF Write
  <1>3. date' \in [RecordDoc -> Date]
    <2>1. PICK t \in Date :
              date' = [d \in RecordDoc |-> IF d \in listed' \ listed THEN t ELSE date[d]]
      BY DEF Write
    <2> QED BY <1>1, <2>1 DEF TypeOK
  <1>4. writes' \in 0 .. MaxWrites
    BY <1>1, QueryAssumption DEF Write, TypeOK
  <1>5. CASE Underway
    <2>1. /\ reader'.pc = reader.pc /\ reader'.ask = reader.ask
          /\ reader'.rows = reader.rows /\ reader'.records = reader.records
          /\ reader'.moments = reader.moments \cup {Moment'}
          /\ reader'.gone = reader.gone \cup (listed \ listed')
      BY <1>1, <1>5 DEF Write, TypeOK
    <2>2. Moment' \in [live: [Uri -> RecordDoc \cup {NoDoc}], date: [RecordDoc -> Date]]
      BY <1>2, <1>3 DEF Moment
    <2>3. TypeOK'
      BY <1>1, <1>2, <1>3, <1>4, <1>5, <2>2 DEF Write, TypeOK
    <2>4. AnsweredOnce => AnsweredOnce'
      BY <2>1, OnceKept
    <2>5. ReaderSound'
      BY <1>1, <1>5, <2>1, <2>4 DEF ReaderSound, Underway
    <2>6. AnswersOfOneMoment' /\ FailsOnlyOnChange'
      BY <1>5, <2>1, NoReplyYet DEF Underway
    <2> QED BY <1>2, <2>3, <2>5, <2>6 DEF Inductive
  <1>6. CASE ~Underway
    <2>1. reader' = reader
      BY <1>6 DEF Write
    <2>2. TypeOK'
      BY <1>1, <1>2, <1>3, <1>4, <2>1 DEF TypeOK
    <2>3. ReaderSound'
      BY <1>6, <2>1 DEF ReaderSound, Underway
    <2>4. AnswersOfOneMoment' /\ FailsOnlyOnChange'
      BY <2>1, ReplyKept DEF Inductive
    <2> QED BY <1>2, <2>2, <2>3, <2>4 DEF Inductive
  <1> QED BY <1>5, <1>6

\* The steps of a query leave the store alone.
LEMMA StoreKept ==
    ASSUME StoreSound, UNCHANGED <<store, date>>
    PROVE  StoreSound' /\ Moment' = Moment
  BY DEF StoreSound, Moment, store

\* A query is asked.
LEMMA AskInductive == ASSUME Inductive, NEW ask \in Asked, Ask(ask) PROVE Inductive'
  <1>1. reader' = [Idle EXCEPT !.pc = "keys", !.ask = ask, !.moments = {Moment}]
    BY DEF Ask
  <1>2. reader'.pc = "keys" /\ reader'.ask = ask /\ reader'.moments = {Moment}
    BY <1>1 DEF Idle
  <1>3. StoreSound' /\ Moment' = Moment
    BY StoreKept DEF Ask, Inductive
  <1>4. Moment \in [live: [Uri -> RecordDoc \cup {NoDoc}], date: [RecordDoc -> Date]]
    BY DEF Inductive, TypeOK, Moment
  <1>5. TypeOK'
    <2>1. reader' = [pc |-> "keys", ask |-> ask, rows |-> {}, records |-> {},
                     moments |-> {Moment}, gone |-> {}]
      BY <1>1 DEF Idle
    <2>2. UNCHANGED <<live, stored, retired, listed, date, writes>>
      BY DEF Ask, store
    <2>3. TypeOK
      BY DEF Inductive
    <2> QED BY <2>1, <2>2, <2>3, <1>4 DEF TypeOK
  <1>6. ReaderSound'
    BY <1>2, <1>3 DEF ReaderSound, Underway
  <1> QED BY <1>2, <1>3, <1>5, <1>6, NoReplyYet DEF Inductive

\* The first statement finds the keys.
LEMMA FindKeysInductive == ASSUME Inductive, FindKeys PROVE Inductive'
  <1>1. reader.pc = "keys" /\ Underway /\ UNCHANGED <<store, date, writes>>
    BY DEF FindKeys, Underway
  <1>2. TypeOK /\ StoreSound /\ reader.ask \in Asked /\ Moment \in reader.moments
    BY <1>1 DEF Inductive, ReaderSound
  <1>3. PICK T \in TopOf(Selected(reader.ask), Limit(reader.ask), reader.ask.order) :
            reader' = [reader EXCEPT !.pc = "records", !.rows = T]
    BY DEF FindKeys
  <1>4. T \subseteq listed
    BY <1>3 DEF TopOf, Selected
  <1>5. /\ reader'.pc = "records" /\ reader'.rows = T /\ reader'.ask = reader.ask
        /\ reader'.moments = reader.moments /\ reader'.gone = reader.gone
    BY <1>2, <1>3 DEF TypeOK
  <1>6. Answers(T, Moment, reader.ask)
    BY <1>2, TopAnswers
  <1>7. AnsweredOnce'
    <2>1. Moment \in reader'.moments /\ Answers(reader'.rows, Moment, reader'.ask)
      BY <1>2, <1>5, <1>6
    <2> QED BY <2>1, OneMoment
  <1>8. StoreSound' /\ Moment' = Moment /\ listed' = listed
    BY <1>1, <1>2, StoreKept DEF store
  <1>9. TypeOK'
    BY <1>1, <1>2, <1>3, <1>4 DEF TypeOK, store
  <1>10. ReaderSound'
    BY <1>2, <1>4, <1>5, <1>7, <1>8 DEF ReaderSound, Underway
  <1> QED BY <1>5, <1>8, <1>9, <1>10, NoReplyYet DEF Inductive

\* The second loads the records.
LEMMA LoadRecordsInductive == ASSUME Inductive, LoadRecords PROVE Inductive'
  <1>1. reader.pc = "records" /\ Underway /\ UNCHANGED <<store, date, writes>>
    BY DEF LoadRecords, Underway
  <1>2. TypeOK /\ StoreSound /\ ReaderSound
    BY DEF Inductive
  <1>3. /\ reader'.pc = "documents" /\ reader'.records = reader.rows \cap listed
        /\ reader'.rows = reader.rows /\ reader'.ask = reader.ask
        /\ reader'.moments = reader.moments /\ reader'.gone = reader.gone
    BY <1>2 DEF LoadRecords, TypeOK
  <1>4. AnsweredOnce'
    BY <1>1, <1>2, <1>3, OnceKept DEF ReaderSound
  <1>5. StoreSound' /\ Moment' = Moment /\ listed' = listed
    BY <1>1, <1>2, StoreKept DEF store
  <1>6. TypeOK'
    BY <1>1, <1>2 DEF LoadRecords, TypeOK, store
  <1>7. ReaderSound'
    BY <1>1, <1>2, <1>3, <1>4, <1>5 DEF ReaderSound, Underway
  <1> QED BY <1>3, <1>5, <1>6, <1>7, NoReplyYet DEF Inductive

\* The third loads the documents.
LEMMA LoadDocumentsInductive == ASSUME Inductive, LoadDocuments PROVE Inductive'
  <1> DEFINE loaded == reader.records \cap stored
  <1>1. reader.pc = "documents" /\ Underway /\ UNCHANGED <<store, date, writes>>
    BY DEF LoadDocuments, Underway
  <1>2. TypeOK /\ StoreSound /\ ReaderSound
    BY DEF Inductive
  <1>3. /\ reader'.pc = Reply(loaded) /\ reader'.records = loaded
        /\ reader'.rows = reader.rows /\ reader'.ask = reader.ask
        /\ reader'.moments = reader.moments /\ reader'.gone = reader.gone
    BY <1>2 DEF LoadDocuments, TypeOK
  <1>4. Reply(loaded) \in {"ok", "error"}
    BY DEF Reply
  <1>5. StoreSound'
    BY <1>1, <1>2, StoreKept
  <1>6. TypeOK'
    BY <1>1, <1>2, <1>4 DEF LoadDocuments, TypeOK, store
  <1>7. CASE loaded = reader.rows
    <2>1. Reply(loaded) = "ok"
      BY <1>7 DEF Reply
    <2>2. PICK m \in reader.moments : Answers(reader.rows, m, reader.ask)
      BY <1>1, <1>2 DEF ReaderSound, AnsweredOnce
    <2>3. m \in reader'.moments /\ Answers(reader'.records, m, reader'.ask)
      BY <1>3, <1>7, <2>2
    <2>4. AnswersOfOneMoment'
      BY <2>3 DEF AnswersOfOneMoment, Answers, Expected
    <2> QED BY <1>3, <1>5, <1>6, <2>1, <2>4
          DEF Inductive, ReaderSound, Underway, FailsOnlyOnChange
  <1>8. CASE loaded # reader.rows
    <2>1. Reply(loaded) = "error"
      BY <1>8 DEF Reply
    <2>2. PICK d \in reader.rows : d \notin loaded
      BY <1>1, <1>2, <1>8 DEF ReaderSound
    <2>3. d \in reader.gone
      BY <1>1, <1>2, <2>2 DEF ReaderSound, StoreSound
    <2>4. FailsOnlyOnChange'
      BY <1>3, <2>2, <2>3 DEF FailsOnlyOnChange
    <2> QED BY <1>3, <1>5, <1>6, <2>1, <2>4
          DEF Inductive, ReaderSound, Underway, AnswersOfOneMoment
  <1> QED BY <1>7, <1>8

\* Every step keeps it.
LEMMA StepInductive == Inductive /\ [Next]_vars => Inductive'
  <1> SUFFICES ASSUME Inductive, [Next]_vars PROVE Inductive'
    OBVIOUS
  <1>1. ASSUME NEW ask \in Asked, Ask(ask) PROVE Inductive'
    BY <1>1, AskInductive
  <1>2. CASE UNCHANGED vars
    <2>1. AnswersOfOneMoment' /\ FailsOnlyOnChange'
      BY <1>2, ReplyKept DEF vars, Inductive
    <2>2. TypeOK' /\ StoreSound'
      BY <1>2 DEF vars, Inductive, TypeOK, StoreSound
    <2>3. AnsweredOnce => AnsweredOnce'
      BY <1>2, OnceKept DEF vars
    <2>4. ReaderSound'
      BY <1>2, <2>3 DEF vars, Inductive, ReaderSound, Underway, Moment
    <2> QED BY <2>1, <2>2, <2>4 DEF Inductive
  <1> QED BY <1>1, <1>2, WriteInductive, FindKeysInductive, LoadRecordsInductive,
             LoadDocumentsInductive DEF Next

-----------------------------------------------------------------------------
\* The inductive invariant holds in every state.
THEOREM InductiveAlways == Spec => []Inductive
  BY InitInductive, StepInductive, PTL DEF Spec

\* The store, the dates and the query keep their types.
THEOREM TypeAlways == Spec => []TypeOK
  <1>1. Inductive => TypeOK
    BY DEF Inductive
  <1> QED BY <1>1, InductiveAlways, PTL

(***************************************************************************)
(* However many documents, queries and limits there are, and whatever      *)
(* happens between the three statements of RecordRepository.Query, an      *)
(* answer is that of one moment (record.go:660-718).                       *)
(***************************************************************************)
THEOREM AnswersOfOneMomentAlways == Spec => []AnswersOfOneMoment
  <1>1. Inductive => AnswersOfOneMoment
    BY DEF Inductive
  <1> QED BY <1>1, InductiveAlways, PTL

\* A query fails only by a change to what it had found (record.go:704-712).
THEOREM FailsOnlyOnChangeAlways == Spec => []FailsOnlyOnChange
  <1>1. Inductive => FailsOnlyOnChange
    BY DEF Inductive
  <1> QED BY <1>1, InductiveAlways, PTL
=============================================================================
