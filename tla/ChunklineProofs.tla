-------------------------- MODULE ChunklineProofs --------------------------
(***************************************************************************)
(* Proofs about Chunkline: a page leaves nothing out and makes nothing up, *)
(* and a cached first chunk cuts nothing off, for any set of records, any  *)
(* length of a chunk and any limit of the first query, whatever is written *)
(* and removed between the statements of the page.                         *)
(***************************************************************************)
EXTENDS Chunkline, FiniteSetTheorems, TLAPS

(***************************************************************************)
(* The inductive invariant.  Dates are taken from the clock; what the page *)
(* has found and remembers has been listed; and at each of its steps the   *)
(* page knows enough to be complete in the end.                            *)
(***************************************************************************)
Dated == \A i \in Item : state[i] # "none" => date[i] \in 0 .. now

Followed ==
    /\ \A i \in page.removed : state[i] = "gone"
    /\ \A i \in page.steady : i \in Listed /\ Chunk(date[i]) <= page.chunk
    /\ page.pc \in {"preload", "preload_all"} => page.members \subseteq Listed \cup page.removed

Iterated == {"newest", "preload", "all", "preload_all", "answer"}

\* The iterator does not pass a steady record by.
Due ==
    /\ page.itr # NoItr => \A i \in page.steady : Chunk(date[i]) <= page.itr
    /\ page.pc \in Iterated => page.itr # NoItr

\* The last of the newest members is what the steady ones not found are older than.
Bounded ==
    page.pc = "preload" =>
        /\ \A i \in page.steady :
              i \in page.members \/ (page.last # NoItem /\ date[i] <= date[page.last])
        /\ page.last = NoItem \/ page.torn \/ page.last \in Listed
        /\ page.last # NoItem => state[page.last] # "none"

Gathered ==
    page.pc = "preload_all" =>
        \A i \in page.steady : i \in page.members \/ Chunk(date[i]) < page.itr

\* What is listed, or will be, and lies before the first chunk.
First ==
    /\ page.pc \in {"first", "preload_first"} => ~manifest.cached
    /\ (page.pc = "preload_first" /\ page.last # NoItem) =>
          /\ state[page.last] # "none"
          /\ \A i \in Item :
                state[i] \in {"writing", "listed"} =>
                    i \in manifest.writing \/ date[page.last] <= date[i]
    /\ manifest.cached =>
          /\ manifest.first <= Chunk(now)
          /\ \A i \in Item :
                (state[i] \in {"writing", "listed"} /\ Chunk(date[i]) < manifest.first)
                    => i \in manifest.writing

Inductive ==
    TypeOK /\ Dated /\ Followed /\ Due /\ Bounded /\ Gathered /\ First
        /\ PageComplete /\ BodyTrue

-----------------------------------------------------------------------------
(* Chunks and dates.                                                        *)

\* A date lies in its chunk.
LEMMA ChunkBounds ==
    ASSUME NEW t \in Int
    PROVE  /\ Chunk(t) \in Int
           /\ ChunkTicks * Chunk(t) <= t
           /\ t < ChunkTicks * Chunk(t) + ChunkTicks
  BY ChunklineAssumption DEF Chunk

\* A later chunk begins later.
LEMMA TimesMonotonic ==
    ASSUME NEW m \in Int, NEW n \in Int, m <= n
    PROVE  ChunkTicks * m <= ChunkTicks * n
  BY ChunklineAssumption

\* Chunks follow the order of dates.
LEMMA ChunkMonotonic ==
    ASSUME NEW s \in Int, NEW t \in Int, s <= t
    PROVE  Chunk(s) <= Chunk(t)
  <1>1. SUFFICES ASSUME Chunk(t) + 1 <= Chunk(s) PROVE FALSE
    BY ChunkBounds
  <1>2. ChunkTicks * (Chunk(t) + 1) <= ChunkTicks * Chunk(s)
    BY <1>1, ChunkBounds, TimesMonotonic
  <1>3. t < ChunkTicks * (Chunk(t) + 1)
    BY ChunkBounds, ChunklineAssumption
  <1> QED BY <1>2, <1>3, ChunkBounds, ChunklineAssumption

\* A date in a chunk, or before it, is before the chunk's cutoff.
LEMMA BeforeCutoff ==
    ASSUME NEW t \in Int, NEW c \in Int, Chunk(t) <= c
    PROVE  t <= Cutoff(c)
  <1>1. ChunkTicks * Chunk(t) <= ChunkTicks * c
    BY ChunkBounds, TimesMonotonic
  <1>2. Cutoff(c) = ChunkTicks * c + ChunkTicks
    BY ChunklineAssumption DEF Cutoff
  <1>3. ChunkTicks * c \in Int /\ ChunkTicks * Chunk(t) \in Int /\ ChunkTicks \in Int
    BY ChunkBounds, ChunklineAssumption
  <1>4. t < ChunkTicks * Chunk(t) + ChunkTicks
    BY ChunkBounds
  <1> HIDE DEF Chunk
  <1> QED BY <1>1, <1>2, <1>3, <1>4

\* A date up to the previous date of a chunk is in a chunk before it.
LEMMA BeforeChunk ==
    ASSUME NEW t \in Int, NEW c \in Int, t <= PrevDate(c)
    PROVE  Chunk(t) < c
  <1>1. SUFFICES ASSUME c <= Chunk(t) PROVE FALSE
    BY ChunkBounds
  <1>2. ChunkTicks * c <= ChunkTicks * Chunk(t)
    BY <1>1, ChunkBounds, TimesMonotonic
  <1>3. PrevDate(c) = ChunkTicks * c - ChunkTicks
    BY ChunklineAssumption DEF PrevDate
  <1> QED BY <1>2, <1>3, ChunkBounds, ChunklineAssumption

\* Go's zero time is before every date, and no later chunk's than the first.
LEMMA ZeroDate == Zero \in Int /\ Zero < 0 /\ Chunk(Zero) \in Int /\ Chunk(Zero) <= 0
  <1>1. Zero \in Int /\ Zero < 0
    BY ChunklineAssumption DEF Zero
  <1>2. Chunk(0) = 0
    BY ChunklineAssumption DEF Chunk
  <1> QED BY <1>1, <1>2, ChunkMonotonic, ChunkBounds

\* What the newest members of S leave out is not newer than any of them.
LEMMA NewestOldest ==
    ASSUME NEW S, NEW M, Newest(M, S, Limit), NEW i \in S
    PROVE  i \in M \/ (M # {} /\ \A j \in M : date[i] <= date[j])
  <1>1. CASE M = {}
    <2>1. Cardinality(M) = 0
      BY <1>1, FS_EmptySet
    <2> QED BY <1>1, <2>1, ChunklineAssumption DEF Newest
  <1>2. CASE M # {}
    BY <1>2 DEF Newest
  <1> QED BY <1>1, <1>2

-----------------------------------------------------------------------------
(* Every step keeps the inductive invariant.                                *)

\* It holds at first.
LEMMA InitInductive == Init => Inductive
  <1> SUFFICES ASSUME Init PROVE Inductive
    OBVIOUS
  <1> USE DEF Init, Idle, NoManifest
  <1>1. TypeOK
    BY ChunklineAssumption, ZeroDate DEF TypeOK, Page, Manifest, NoItr
  <1>2. Dated /\ Followed /\ Due /\ Bounded /\ Gathered
    BY DEF Dated, Followed, Due, Bounded, Gathered, Iterated
  <1>3. First /\ PageComplete /\ BodyTrue
    BY DEF First, PageComplete, BodyTrue
  <1> QED BY <1>1, <1>2, <1>3 DEF Inductive

\* The clock goes on.
LEMMA TickInductive == ASSUME Inductive, Tick PROVE Inductive'
  <1> USE DEF Inductive, Tick
  <1>1. TypeOK' /\ Dated'
    <2>1. now' \in 0 .. Horizon
      BY ChunklineAssumption DEF TypeOK, Page, Manifest
    <2>2. Dated'
      BY DEF TypeOK, Page, Manifest, Dated
    <2> QED BY <2>1, <2>2 DEF TypeOK, Page, Manifest
  <1>2. Followed' /\ Due' /\ Bounded' /\ Gathered' /\ PageComplete' /\ BodyTrue'
    BY DEF Followed, Due, Bounded, Gathered, Iterated, PageComplete, BodyTrue, Listed
  <1>3. First'
    <2>1. now \in Int /\ now' \in Int /\ now <= now'
      BY DEF TypeOK, Page, Manifest
    <2>2. Chunk(now) <= Chunk(now')
      BY <2>1, ChunkMonotonic
    <2>3. manifest.first \in Int /\ Chunk(now) \in Int /\ Chunk(now') \in Int
      BY <2>1, ChunkBounds DEF TypeOK, Page, Manifest
    <2>4. manifest.cached => manifest.first <= Chunk(now')
      BY <2>2, <2>3 DEF First
    <2>5. Chunk(now)' = Chunk(now')
      BY DEF Chunk
    <2> QED BY <2>4, <2>5 DEF First
  <1> QED BY <1>1, <1>2, <1>3

\* A record that begins takes its date from the clock, which is past the first chunk.
LEMMA StartInductive == ASSUME Inductive, NEW i \in Item, Start(i) PROVE Inductive'
  <1> USE DEF Inductive, Start
  <1>1. TypeOK' /\ Dated'
    BY DEF TypeOK, Page, Manifest, Dated
  <1>2. Listed' = Listed /\ \A j \in Item : state[j] # "none" => date'[j] = date[j]
    BY DEF TypeOK, Page, Manifest, Listed
  <1>3. \A j \in Listed : state[j] # "none"
    BY DEF Listed
  <1>4. Followed' /\ Due' /\ Bounded' /\ Gathered'
    BY <1>2, <1>3 DEF Followed, Due, Bounded, Gathered, Iterated, TypeOK, Page, Manifest
  <1>5. PageComplete'
    BY <1>2, <1>3 DEF PageComplete, Followed, TypeOK, Page, Manifest
  <1>6. BodyTrue'
    BY <1>2, <1>3 DEF BodyTrue, Followed, TypeOK, Page, Manifest
  <1>7. First'
    <2>1. date'[i] = now /\ state'[i] = "writing"
      BY DEF TypeOK, Page, Manifest
    <2>2. \A j \in Item \ {i} : state'[j] = state[j] /\ date'[j] = date[j]
      BY DEF TypeOK, Page, Manifest
    <2>3. page.pc = "preload_first" /\ page.last # NoItem =>
              /\ page.last # i
              /\ date[page.last] <= now
              /\ date'[page.last] = date[page.last]
              /\ state'[page.last] # "none"
      BY <2>2 DEF First, Dated, TypeOK, Page, Manifest
    <2>4. page.pc = "preload_first" /\ page.last # NoItem =>
              \A j \in Item : state'[j] \in {"writing", "listed"} =>
                  j \in manifest.writing \/ date'[page.last] <= date'[j]
      BY <2>1, <2>2, <2>3 DEF First
    <2>5. manifest.first \in Int /\ Chunk(now) \in Int
      BY ChunkBounds DEF TypeOK, Page, Manifest
    <2>6. manifest.cached => ~ (Chunk(date'[i]) < manifest.first)
      BY <2>1, <2>5 DEF First
    <2>7. manifest.cached =>
              \A j \in Item : (state'[j] \in {"writing", "listed"}
                  /\ Chunk(date'[j]) < manifest.first) => j \in manifest.writing
      BY <2>2, <2>6 DEF First
    <2> QED BY <2>3, <2>4, <2>7 DEF First, Chunk
  <1> QED BY <1>1, <1>4, <1>5, <1>6, <1>7

\* An item is listed.
LEMMA ListInductive == ASSUME Inductive, NEW i \in Item, List(i) PROVE Inductive'
  <1> USE DEF Inductive, List
  <1>1. TypeOK' /\ Dated'
    BY DEF TypeOK, Page, Manifest, Dated
  <1>2. Listed' = Listed \cup {i} /\ i \notin Listed /\ i \notin page.removed
    BY DEF TypeOK, Page, Manifest, Listed, Followed
  <1>4. Followed' /\ Due' /\ Bounded' /\ Gathered'
    BY <1>2 DEF Followed, Due, Bounded, Gathered, Iterated, TypeOK, Page, Manifest
  <1>5. PageComplete' /\ BodyTrue'
    BY <1>2 DEF PageComplete, BodyTrue
  <1>7. First'
    BY DEF First, TypeOK, Page, Manifest
  <1> QED BY <1>1, <1>4, <1>5, <1>7

\* A removed record is no longer steady; if it was the last of the newest members,
\* the page is torn.
LEMMA RemoveInductive == ASSUME Inductive, NEW i \in Item, Remove(i) PROVE Inductive'
  <1> USE DEF Inductive
  <1>1. /\ state[i] = "listed" /\ state' = [state EXCEPT ![i] = "gone"]
        /\ now' = now /\ date' = date /\ manifest' = manifest
    BY DEF Remove
  <1>2. /\ page'.pc = page.pc /\ page'.chunk = page.chunk /\ page'.itr = page.itr
        /\ page'.members = page.members /\ page'.last = page.last /\ page'.body = page.body
    BY DEF Remove, TypeOK, Page, Manifest
  <1>3. /\ page'.steady = page.steady \ {i}
        /\ page'.removed = IF page.pc = "idle" THEN {} ELSE page.removed \cup {i}
        /\ page'.torn = IF page.pc = "preload" /\ i = page.last THEN TRUE ELSE page.torn
    BY DEF Remove, TypeOK, Page, Manifest
  <1>4. Listed' = Listed \ {i} /\ i \in Listed
    BY <1>1 DEF TypeOK, Page, Manifest, Listed
  <1>5. \A j \in Item \ {i} : state'[j] = state[j]
    BY <1>1 DEF TypeOK, Page, Manifest
  <1>6. state'[i] = "gone"
    BY <1>1 DEF TypeOK, Page, Manifest
  <1>7. TypeOK'
    <2>1. page' = [pc |-> page'.pc, chunk |-> page'.chunk, itr |-> page'.itr,
                   members |-> page'.members, last |-> page'.last, body |-> page'.body,
                   steady |-> page'.steady, removed |-> page'.removed, torn |-> page'.torn]
      BY DEF Remove, TypeOK, Page, Manifest
    <2>2. /\ page'.torn \in BOOLEAN
          /\ page'.removed \subseteq Item /\ page'.steady \subseteq Item
      BY <1>3 DEF TypeOK, Page, Manifest
    <2>3. state' \in [Item -> {"none", "writing", "listed", "gone"}]
      BY <1>1 DEF TypeOK, Page, Manifest
    <2> QED BY <1>1, <1>2, <2>1, <2>2, <2>3 DEF TypeOK, Page, Manifest
  <1>8. Dated'
    BY <1>1, <1>5 DEF Dated
  <1>9. Followed'
    BY <1>1, <1>2, <1>3, <1>4, <1>5, <1>6 DEF Followed, TypeOK, Page, Manifest
  <1>10. Due' /\ Gathered'
    BY <1>1, <1>2, <1>3 DEF Due, Gathered, Iterated, Chunk
  <1>11. Bounded'
    BY <1>1, <1>2, <1>3, <1>4, <1>5, <1>6 DEF Bounded, TypeOK, Page, Manifest
  <1>12. PageComplete'
    BY <1>1, <1>2, <1>3 DEF PageComplete, Chunk
  <1>13. BodyTrue'
    BY <1>1, <1>2, <1>3, <1>4 DEF BodyTrue
  <1>14. First'
    BY <1>1, <1>2, <1>5, <1>6 DEF First, TypeOK, Page, Manifest, Chunk
  <1> QED BY <1>7, <1>8, <1>9, <1>10, <1>11, <1>12, <1>13, <1>14

-----------------------------------------------------------------------------
(* The steps of the page leave the rows alone.                              *)

\* The listed items and their dates are as they were.
LEMMA RowsKept ==
    ASSUME Inductive, UNCHANGED <<now, state, date>>
    PROVE  Dated' /\ Listed' = Listed /\ \A t : UpTo(t)' = UpTo(t)
  BY DEF Inductive, Dated, Listed, UpTo

\* A listed item has a date between the first chunk and now.
LEMMA ListedDates ==
    ASSUME Inductive, NEW i \in Listed
    PROVE  i \in Item /\ date[i] \in Int /\ 0 <= date[i] /\ date[i] <= now /\ date[i] # Zero
                /\ Chunk(date[i]) \in Int /\ 0 <= Chunk(date[i])
  <1>1. i \in Item /\ date[i] \in 0 .. now /\ now \in Int
    BY DEF Inductive, Dated, Listed, TypeOK, Page, Manifest
  <1>2. Chunk(0) = 0
    BY ChunklineAssumption DEF Chunk
  <1> QED BY <1>1, <1>2, ZeroDate, ChunkMonotonic, ChunkBounds

\* The date an item is loaded with is one, be it Go's zero time.
LEMMA LoadedDate ==
    ASSUME Inductive, NEW i \in Item
    PROVE  Loaded(i) \in Int
  BY ListedDates, ZeroDate DEF Loaded

\* A page is opened.
LEMMA OpenInductive ==
    ASSUME Inductive, NEW c \in 0 .. Chunk(Horizon), Open(c)
    PROVE  Inductive'
  <1>1. UNCHANGED <<now, state, date, manifest>>
    BY DEF Open
  <1>2. /\ page'.pc = IF manifest.cached THEN "itr" ELSE "first"
        /\ page'.chunk = c /\ page'.steady = {i \in Listed : Chunk(date[i]) <= c}
    BY DEF Open, Idle
  <1>3. /\ page'.itr = NoItr /\ page'.members = {} /\ page'.last = NoItem
        /\ page'.body = {} /\ page'.removed = {} /\ page'.torn = FALSE
    BY DEF Open, Idle
  <1>4. page' = [pc |-> page'.pc, chunk |-> page'.chunk, itr |-> page'.itr,
                 members |-> page'.members, last |-> page'.last, body |-> page'.body,
                 steady |-> page'.steady, removed |-> page'.removed, torn |-> page'.torn]
    BY DEF Open, Idle
  <1>5. TypeOK'
    <2>1. c \in Nat
      BY ChunkBounds, ChunklineAssumption
    <2> QED BY <1>1, <1>2, <1>3, <1>4, <2>1 DEF Inductive, TypeOK, Page, Manifest, Listed
  <1>6. Dated' /\ Listed' = Listed
    BY <1>1, RowsKept
  <1>7. Followed' /\ Due' /\ Bounded' /\ Gathered' /\ PageComplete' /\ BodyTrue'
    BY <1>1, <1>2, <1>3, <1>6 DEF Followed, Due, Bounded, Gathered, Iterated, PageComplete,
        BodyTrue, Chunk
  <1>8. First'
    BY <1>1, <1>2, <1>3 DEF Inductive, First, Chunk
  <1> QED BY <1>5, <1>6, <1>7, <1>8 DEF Inductive

\* What is listed is not earlier than the first member; what is being written may be.
LEMMA FindFirstInductive == ASSUME Inductive, FindFirst PROVE Inductive'
  <1>1. UNCHANGED <<now, state, date>> /\ page.pc = "first"
    BY DEF FindFirst
  <1>2. PICK last \in IF Listed = {} THEN {NoItem} ELSE FirstMember :
            page' = [page EXCEPT !.pc = "preload_first", !.last = last]
    BY DEF FindFirst
  <1>3. /\ page'.pc = "preload_first" /\ page'.last = last /\ page'.itr = page.itr
        /\ page'.chunk = page.chunk /\ page'.steady = page.steady
        /\ page'.removed = page.removed /\ page'.torn = page.torn
        /\ page'.members = page.members /\ page'.body = page.body
    BY <1>2 DEF Inductive, TypeOK, Page, Manifest
  <1>4. /\ manifest'.writing = {i \in Item : state[i] = "writing"}
        /\ manifest'.cached = manifest.cached /\ manifest'.first = manifest.first
    BY DEF FindFirst, Inductive, TypeOK, Page, Manifest
  <1>5. last # NoItem => last \in Listed /\ \A j \in Listed : date[last] <= date[j]
    BY DEF FirstMember, Earliest
  <1>6. TypeOK'
    <2>1. page' \in Page
      BY <1>2, <1>5 DEF Inductive, TypeOK, Page, Manifest, Listed
    <2>2. manifest' \in Manifest
      BY DEF FindFirst, Inductive, TypeOK, Page, Manifest
    <2> QED BY <1>1, <2>1, <2>2 DEF Inductive, TypeOK, Page, Manifest
  <1>7. Dated' /\ Listed' = Listed
    BY <1>1, RowsKept
  <1>8. Followed' /\ Due' /\ Bounded' /\ Gathered' /\ PageComplete' /\ BodyTrue'
    BY <1>1, <1>3, <1>7 DEF Inductive, Followed, Due, Bounded, Gathered, Iterated, PageComplete,
        BodyTrue, Chunk
  <1>9. First'
    <2>1. ~manifest'.cached
      BY <1>1, <1>4 DEF Inductive, First
    <2>2. last # NoItem => state[last] # "none"
      BY <1>5 DEF Listed
    <2>3. \A i \in Item : state[i] \in {"writing", "listed"} =>
              i \in manifest'.writing \/ i \in Listed
      BY <1>4 DEF Listed
    <2> QED BY <1>1, <1>3, <1>5, <2>1, <2>2, <2>3 DEF First
  <1> QED BY <1>6, <1>7, <1>8, <1>9 DEF Inductive

\* The first chunk is 0, or that of the first member, or, if this was removed, of no date.
LEMMA PreloadFirstInductive == ASSUME Inductive, PreloadFirst PROVE Inductive'
  <1>1. UNCHANGED <<now, state, date>> /\ page.pc = "preload_first"
    BY DEF PreloadFirst
  <1>2. /\ page'.pc = IF page.itr = NoItr THEN "itr" ELSE "newest"
        /\ page'.last = NoItem /\ page'.itr = page.itr
        /\ page'.chunk = page.chunk /\ page'.steady = page.steady
        /\ page'.removed = page.removed /\ page'.torn = page.torn
        /\ page'.members = page.members /\ page'.body = page.body
    BY DEF PreloadFirst, Inductive, TypeOK, Page, Manifest
  <1>3. /\ manifest'.first = IF page.last = NoItem THEN 0 ELSE Chunk(Loaded(page.last))
        /\ manifest'.writing = manifest.writing
    BY DEF PreloadFirst, Inductive, TypeOK, Page, Manifest
  <1>4. page.last # NoItem => page.last \in Item /\ Loaded(page.last) \in Int
    BY LoadedDate DEF Inductive, TypeOK, Page, Manifest
  <1>5. TypeOK'
    <2>1. manifest'.first \in Int
      BY <1>3, <1>4, ChunkBounds
    <2>2. manifest' \in Manifest
      BY <1>3, <2>1 DEF PreloadFirst, Inductive, TypeOK, Page, Manifest
    <2>3. page' \in Page
      BY DEF PreloadFirst, Inductive, TypeOK, Page, Manifest
    <2> QED BY <1>1, <2>2, <2>3 DEF Inductive, TypeOK, Page, Manifest
  <1>6. Dated' /\ Listed' = Listed
    BY <1>1, RowsKept
  <1>7. Followed' /\ Due' /\ Bounded' /\ Gathered' /\ PageComplete' /\ BodyTrue'
    BY <1>1, <1>2, <1>6 DEF Inductive, Followed, Due, Bounded, Gathered, Iterated, PageComplete,
        BodyTrue, Chunk
  <1>8. \A i \in Item : state[i] \in {"writing", "listed"} =>
            date[i] \in Int /\ 0 <= Chunk(date[i]) /\ Chunk(date[i]) \in Int
    <2>1. Chunk(0) = 0
      BY ChunklineAssumption DEF Chunk
    <2>2. \A i \in Item : state[i] \in {"writing", "listed"} => date[i] \in Int /\ 0 <= date[i]
      BY DEF Inductive, Dated, TypeOK, Page, Manifest
    <2> QED BY <2>1, <2>2, ChunkMonotonic, ChunkBounds
  <1>9. 0 <= Chunk(now) /\ Chunk(now) \in Int /\ now \in Int
    <2>1. Chunk(0) = 0
      BY ChunklineAssumption DEF Chunk
    <2>2. now \in Int /\ 0 <= now
      BY DEF Inductive, TypeOK, Page, Manifest
    <2> QED BY <2>1, <2>2, ChunkMonotonic, ChunkBounds
  <1>10. Chunk(now)' = Chunk(now) /\ \A i \in Item : Chunk(date[i])' = Chunk(date[i])
    BY <1>1 DEF Chunk
  <1>11. SUFFICES /\ manifest'.first <= Chunk(now)
                  /\ \A i \in Item :
                        (state[i] \in {"writing", "listed"}
                            /\ Chunk(date[i]) < manifest'.first)
                        => i \in manifest.writing
    BY <1>1, <1>2, <1>3, <1>5, <1>6, <1>7, <1>10 DEF First, Inductive
  <1>12. CASE page.last # NoItem /\ page.last \in Listed
    <2>1. /\ date[page.last] \in Int /\ date[page.last] <= now
          /\ manifest'.first = Chunk(date[page.last])
      BY <1>3, <1>12, ListedDates DEF Loaded
    <2>2. manifest'.first <= Chunk(now)
      BY <1>9, <2>1, ChunkMonotonic
    <2>3. ASSUME NEW i \in Item, state[i] \in {"writing", "listed"},
                 Chunk(date[i]) < manifest'.first, i \notin manifest.writing
          PROVE  FALSE
      <3>1. date[page.last] <= date[i]
        BY <1>1, <1>12, <2>3 DEF Inductive, First
      <3>2. Chunk(date[page.last]) <= Chunk(date[i])
        BY <1>8, <2>1, <2>3, <3>1, ChunkMonotonic
      <3> QED BY <1>8, <2>1, <2>3, <3>2, ChunkBounds
    <2> QED BY <2>2, <2>3
  <1>13. CASE page.last = NoItem \/ page.last \notin Listed
    <2>1. manifest'.first \in Int /\ manifest'.first <= 0
      BY <1>3, <1>13, ZeroDate DEF Loaded
    <2>2. manifest'.first <= Chunk(now)
      BY <1>9, <2>1
    <2>3. \A i \in Item : state[i] \in {"writing", "listed"} =>
              ~ (Chunk(date[i]) < manifest'.first)
      BY <1>8, <2>1
    <2> QED BY <2>2, <2>3
  <1> QED BY <1>12, <1>13

\* The manifest expires, unless it is being made.
LEMMA ExpireInductive == ASSUME Inductive, Expire PROVE Inductive'
  <1>1. UNCHANGED <<now, state, date, page>> /\ manifest.cached /\ manifest' = NoManifest
    BY DEF Expire
  <1>2. TypeOK'
    BY <1>1 DEF Inductive, TypeOK, NoManifest, Manifest
  <1>3. Dated' /\ Listed' = Listed
    BY <1>1, RowsKept
  <1>4. Followed' /\ Due' /\ Bounded' /\ Gathered' /\ PageComplete' /\ BodyTrue'
    BY <1>1, <1>3 DEF Inductive, Followed, Due, Bounded, Gathered, Iterated, PageComplete,
        BodyTrue, Chunk
  <1>5. First'
    BY <1>1 DEF Inductive, First, NoManifest
  <1> QED BY <1>2, <1>3, <1>4, <1>5 DEF Inductive

\* The latest date up to the cutoff is not before that of a steady record.
LEMMA LookupItrInductive == ASSUME Inductive, LookupItr PROVE Inductive'
  <1>1. UNCHANGED <<now, state, date, manifest>> /\ page.pc = "itr"
    BY DEF LookupItr
  <1>2. PICK itr \in Iterator(page.chunk) :
            page' = [page EXCEPT !.pc = IF manifest.cached THEN "newest" ELSE "first",
                     !.itr = itr]
    BY DEF LookupItr
  <1>3. /\ page'.pc = IF manifest.cached THEN "newest" ELSE "first"
        /\ page'.itr = itr /\ page'.last = page.last
        /\ page'.chunk = page.chunk /\ page'.steady = page.steady
        /\ page'.removed = page.removed /\ page'.torn = page.torn
        /\ page'.members = page.members /\ page'.body = page.body
    BY <1>2 DEF Inductive, TypeOK, Page
  <1>4. itr \in Nat
    <2>1. \A i \in Latest(UpTo(Cutoff(page.chunk))) : i \in Listed
      BY DEF Latest, UpTo
    <2>2. \A i \in Latest(UpTo(Cutoff(page.chunk))) : Chunk(date[i]) \in Nat
      BY <2>1, ListedDates
    <2> QED BY <2>2 DEF Iterator
  <1>5. \A i \in page.steady : Chunk(date[i]) <= itr
    <2>1. SUFFICES ASSUME NEW i \in page.steady PROVE Chunk(date[i]) <= itr
      OBVIOUS
    <2>2. i \in Listed /\ Chunk(date[i]) <= page.chunk /\ page.chunk \in Int
      BY DEF Inductive, Followed, TypeOK, Page
    <2>3. date[i] \in Int
      BY <2>2, ListedDates
    <2>4. i \in UpTo(Cutoff(page.chunk))
      BY <2>2, <2>3, BeforeCutoff DEF UpTo
    <2>5. PICK j \in Latest(UpTo(Cutoff(page.chunk))) : itr = Chunk(date[j])
      BY <2>4 DEF Iterator
    <2>6. j \in Listed /\ date[i] <= date[j]
      BY <2>4, <2>5 DEF Latest, UpTo
    <2>7. date[j] \in Int
      BY <2>6, ListedDates
    <2> QED BY <2>3, <2>5, <2>6, <2>7, ChunkMonotonic
  <1>6. TypeOK'
    BY <1>1, <1>2, <1>4 DEF Inductive, TypeOK, Page
  <1>7. Dated' /\ Listed' = Listed
    BY <1>1, RowsKept
  <1>8. /\ Chunk(now)' = Chunk(now) /\ \A i \in Item : Chunk(date[i])' = Chunk(date[i])
        /\ \A i \in page.steady : i \in Item /\ Chunk(date[i])' = Chunk(date[i])
    BY <1>1 DEF Chunk, Inductive, TypeOK, Page
  <1>9. itr # NoItr
    BY <1>4 DEF NoItr
  <1>10. Followed' /\ Due' /\ Bounded' /\ Gathered' /\ PageComplete' /\ BodyTrue'
    BY <1>1, <1>3, <1>5, <1>7, <1>8, <1>9 DEF Inductive, Followed, Due, Bounded, Gathered,
        Iterated, PageComplete, BodyTrue
  <1>11. First'
    BY <1>1, <1>3, <1>8 DEF Inductive, First
  <1> QED BY <1>6, <1>7, <1>10, <1>11 DEF Inductive

\* A steady record that is not among the newest members is not newer than the last.
LEMMA LoadNewestInductive == ASSUME Inductive, LoadNewest PROVE Inductive'
  <1>1. UNCHANGED <<now, state, date, manifest>> /\ page.pc = "newest"
    BY DEF LoadNewest
  <1>2. PICK M \in SUBSET UpTo(Cutoff(page.itr)) :
            /\ Newest(M, UpTo(Cutoff(page.itr)), Limit)
            /\ \E last \in IF M = {} THEN {NoItem} ELSE Earliest(M) :
                page' = [page EXCEPT !.pc = "preload", !.members = M, !.last = last]
    BY DEF LoadNewest
  <1>3. PICK last \in IF M = {} THEN {NoItem} ELSE Earliest(M) :
            page' = [page EXCEPT !.pc = "preload", !.members = M, !.last = last]
    BY <1>2
  <1>4. /\ page'.pc = "preload" /\ page'.members = M /\ page'.last = last
        /\ page'.chunk = page.chunk /\ page'.steady = page.steady /\ page'.itr = page.itr
        /\ page'.removed = page.removed /\ page'.torn = page.torn /\ page'.body = page.body
    BY <1>3 DEF Inductive, TypeOK, Page
  <1>5. M \subseteq Listed /\ Listed \subseteq Item
    BY <1>2 DEF UpTo, Listed
  <1>6. M # {} => last \in M /\ last # NoItem
    BY <1>3, <1>5, ItemAssumption DEF Earliest
  <1>7. last # NoItem => last \in Listed
    BY <1>3, <1>5, <1>6
  <1>8. \A i \in page.steady : i \in M \/ (last # NoItem /\ date[i] <= date[last])
    <2>1. SUFFICES ASSUME NEW i \in page.steady
                   PROVE  i \in M \/ (last # NoItem /\ date[i] <= date[last])
      OBVIOUS
    <2>2. i \in Listed /\ Chunk(date[i]) <= page.itr /\ page.itr \in Int
      BY <1>1 DEF Inductive, Followed, Due, Iterated, TypeOK, Page
    <2>3. i \in UpTo(Cutoff(page.itr))
      BY <2>2, ListedDates, BeforeCutoff DEF UpTo
    <2>4. i \in M \/ (M # {} /\ \A j \in M : date[i] <= date[j])
      BY <1>2, <2>3, NewestOldest
    <2> QED BY <1>6, <2>4
  <1>9. TypeOK'
    BY <1>1, <1>3, <1>5, <1>7 DEF Inductive, TypeOK, Page
  <1>10. Dated' /\ Listed' = Listed
    BY <1>1, RowsKept
  <1>11. /\ Chunk(now)' = Chunk(now) /\ \A i \in Item : Chunk(date[i])' = Chunk(date[i])
         /\ \A i \in page.steady : i \in Item /\ Chunk(date[i])' = Chunk(date[i])
    BY <1>1 DEF Chunk, Inductive, TypeOK, Page
  <1>12. Followed' /\ Due' /\ Gathered' /\ PageComplete' /\ BodyTrue'
    BY <1>1, <1>4, <1>5, <1>10, <1>11 DEF Inductive, Followed, Due, Gathered,
        Iterated, PageComplete, BodyTrue
  <1>13. Bounded'
    BY <1>1, <1>4, <1>7, <1>8, <1>10 DEF Bounded, Listed
  <1>14. First'
    BY <1>1, <1>4, <1>11 DEF Inductive, First
  <1> QED BY <1>9, <1>10, <1>12, <1>13, <1>14 DEF Inductive

\* What a body says of a record that is still listed is its date; the others were removed.
LEMMA BodyLoaded ==
    ASSUME Inductive, page.pc \in {"preload", "preload_all"}, NEW b \in BodyOf(page.members)
    PROVE  /\ b \in [item: Item, date: Int]
           /\ IF b.date = Zero THEN b.item \in page.removed
              ELSE b.date = date[b.item] /\ b.item \in Listed \cup page.removed
  <1>1. PICK i \in page.members : b = [item |-> i, date |-> Loaded(i)]
    BY DEF BodyOf
  <1>2. i \in Item /\ i \in Listed \cup page.removed /\ Loaded(i) \in Int
    BY LoadedDate DEF Inductive, Followed, TypeOK, Page
  <1>3. i \in Listed => Loaded(i) = date[i] /\ date[i] # Zero
    BY ListedDates DEF Loaded
  <1>4. i \notin Listed => Loaded(i) = Zero
    BY DEF Loaded
  <1>5. b.item = i /\ b.date = Loaded(i)
    BY <1>1
  <1>6. CASE i \in Listed
    BY <1>1, <1>2, <1>3, <1>5, <1>6
  <1>7. CASE i \notin Listed
    BY <1>1, <1>2, <1>4, <1>5, <1>7
  <1> QED BY <1>6, <1>7

\* A steady member is in the body under its date.
LEMMA SteadyLoaded ==
    ASSUME Inductive, NEW i \in page.steady, i \in page.members
    PROVE  [item |-> i, date |-> date[i]] \in BodyOf(page.members)
  BY DEF Inductive, Followed, BodyOf, Loaded

\* If the newest members reach back before the chunk, so does what they leave out.
LEMMA PreloadNewestInductive == ASSUME Inductive, PreloadNewest PROVE Inductive'
  <1>1. UNCHANGED <<now, state, date, manifest>> /\ page.pc = "preload"
    BY DEF PreloadNewest
  <1>2. /\ page'.pc = IF FallsShort(page.last, page.itr) THEN "all" ELSE "answer"
        /\ page'.members = {} /\ page'.last = NoItem /\ page'.body = BodyOf(page.members)
        /\ page'.chunk = page.chunk /\ page'.steady = page.steady /\ page'.itr = page.itr
        /\ page'.removed = page.removed /\ page'.torn = page.torn
    BY DEF PreloadNewest, Inductive, TypeOK, Page
  <1>3. \A b \in BodyOf(page.members) :
            /\ b \in [item: Item, date: Int]
            /\ IF b.date = Zero THEN b.item \in page.removed
               ELSE b.date = date[b.item] /\ b.item \in Listed \cup page.removed
    BY <1>1, BodyLoaded
  <1>4. TypeOK'
    <2>1. BodyOf(page.members) \subseteq [item: Item, date: Int]
      BY <1>3
    <2>2. page' \in Page
      BY <2>1 DEF PreloadNewest, Inductive, TypeOK, Page
    <2> QED BY <1>1, <2>2 DEF Inductive, TypeOK
  <1>5. Dated' /\ Listed' = Listed
    BY <1>1, RowsKept
  <1>6. /\ Chunk(now)' = Chunk(now) /\ \A i \in Item : Chunk(date[i])' = Chunk(date[i])
        /\ \A i \in page.steady : i \in Item /\ Chunk(date[i])' = Chunk(date[i])
    BY <1>1 DEF Chunk, Inductive, TypeOK, Page
  <1>7. Followed' /\ Due' /\ Bounded' /\ Gathered'
    BY <1>1, <1>2, <1>5, <1>6 DEF Inductive, Followed, Due, Bounded, Gathered, Iterated
  <1>8. BodyTrue'
    BY <1>1, <1>2, <1>3, <1>5 DEF BodyTrue
  <1>9. PageComplete'
    <2>1. SUFFICES ASSUME page'.pc = "answer", ~page.torn, NEW i \in page.steady,
                          i \notin page.members
                   PROVE  Chunk(date[i]) < page.itr
      BY <1>1, <1>2, <1>6, SteadyLoaded DEF PageComplete
    <2>2. page.last # NoItem /\ ~ (Loaded(page.last) > PrevDate(page.itr))
      BY <1>2, <2>1 DEF FallsShort
    <2>3. page.last \in Listed /\ date[i] <= date[page.last]
      BY <1>1, <2>1, <2>2 DEF Inductive, Bounded
    <2>4. i \in Listed /\ page.itr \in Int
      BY <1>1 DEF Inductive, Followed, Due, Iterated, TypeOK, Page
    <2>5. date[page.last] \in Int /\ date[i] \in Int /\ PrevDate(page.itr) \in Int
      BY <2>3, <2>4, ListedDates, ChunklineAssumption DEF PrevDate
    <2>6. date[i] <= PrevDate(page.itr)
      BY <2>2, <2>3, <2>5 DEF Loaded
    <2> QED BY <2>4, <2>5, <2>6, BeforeChunk
  <1>10. First'
    BY <1>1, <1>2, <1>6 DEF Inductive, First
  <1> QED BY <1>4, <1>5, <1>7, <1>8, <1>9, <1>10 DEF Inductive

\* The second query leaves out only what is before the chunk.
LEMMA LoadAllInductive == ASSUME Inductive, LoadAll PROVE Inductive'
  <1> DEFINE M == {i \in UpTo(Cutoff(page.itr)) : date[i] > PrevDate(page.itr)}
  <1>1. UNCHANGED <<now, state, date, manifest>> /\ page.pc = "all"
    BY DEF LoadAll
  <1>2. /\ page'.pc = "preload_all" /\ page'.members = M /\ page'.last = page.last
        /\ page'.chunk = page.chunk /\ page'.steady = page.steady /\ page'.itr = page.itr
        /\ page'.removed = page.removed /\ page'.torn = page.torn /\ page'.body = page.body
    BY DEF LoadAll, Inductive, TypeOK, Page
  <1>3. M \subseteq Listed /\ Listed \subseteq Item
    BY DEF UpTo, Listed
  <1>4. \A i \in page.steady : i \in M \/ Chunk(date[i]) < page.itr
    <2>1. SUFFICES ASSUME NEW i \in page.steady, i \notin M
                   PROVE  Chunk(date[i]) < page.itr
      OBVIOUS
    <2>2. i \in Listed /\ Chunk(date[i]) <= page.itr /\ page.itr \in Int
      BY <1>1 DEF Inductive, Followed, Due, Iterated, TypeOK, Page
    <2>3. date[i] \in Int /\ PrevDate(page.itr) \in Int
      BY <2>2, ListedDates, ChunklineAssumption DEF PrevDate
    <2>4. i \in UpTo(Cutoff(page.itr))
      BY <2>2, <2>3, BeforeCutoff DEF UpTo
    <2>5. date[i] <= PrevDate(page.itr)
      BY <2>1, <2>3, <2>4
    <2> QED BY <2>2, <2>3, <2>5, BeforeChunk
  <1>5. TypeOK'
    <2>1. page' \in Page
      BY <1>3 DEF LoadAll, Inductive, TypeOK, Page
    <2> QED BY <1>1, <2>1 DEF Inductive, TypeOK
  <1>6. Dated' /\ Listed' = Listed
    BY <1>1, RowsKept
  <1>7. /\ Chunk(now)' = Chunk(now) /\ \A i \in Item : Chunk(date[i])' = Chunk(date[i])
        /\ \A i \in page.steady : i \in Item /\ Chunk(date[i])' = Chunk(date[i])
    BY <1>1 DEF Chunk, Inductive, TypeOK, Page
  <1> HIDE DEF M
  <1>8. Followed' /\ Due' /\ Bounded' /\ PageComplete' /\ BodyTrue'
    BY <1>1, <1>2, <1>3, <1>6, <1>7 DEF Inductive, Followed, Due, Bounded, Iterated,
        PageComplete, BodyTrue
  <1>9. Gathered'
    BY <1>2, <1>4, <1>7 DEF Gathered
  <1>10. First'
    BY <1>1, <1>2, <1>7 DEF Inductive, First
  <1> QED BY <1>5, <1>6, <1>8, <1>9, <1>10 DEF Inductive

\* The bodies are loaded together.
LEMMA PreloadAllInductive == ASSUME Inductive, PreloadAll PROVE Inductive'
  <1>1. UNCHANGED <<now, state, date, manifest>> /\ page.pc = "preload_all"
    BY DEF PreloadAll
  <1>2. /\ page'.pc = "answer" /\ page'.members = {} /\ page'.last = page.last
        /\ page'.body = BodyOf(page.members)
        /\ page'.chunk = page.chunk /\ page'.steady = page.steady /\ page'.itr = page.itr
        /\ page'.removed = page.removed /\ page'.torn = page.torn
    BY DEF PreloadAll, Inductive, TypeOK, Page
  <1>3. \A b \in BodyOf(page.members) :
            /\ b \in [item: Item, date: Int]
            /\ IF b.date = Zero THEN b.item \in page.removed
               ELSE b.date = date[b.item] /\ b.item \in Listed \cup page.removed
    BY <1>1, BodyLoaded
  <1>4. TypeOK'
    <2>1. BodyOf(page.members) \subseteq [item: Item, date: Int]
      BY <1>3
    <2>2. page' \in Page
      BY <2>1 DEF PreloadAll, Inductive, TypeOK, Page
    <2> QED BY <1>1, <2>2 DEF Inductive, TypeOK
  <1>5. Dated' /\ Listed' = Listed
    BY <1>1, RowsKept
  <1>6. /\ Chunk(now)' = Chunk(now) /\ \A i \in Item : Chunk(date[i])' = Chunk(date[i])
        /\ \A i \in page.steady : i \in Item /\ Chunk(date[i])' = Chunk(date[i])
    BY <1>1 DEF Chunk, Inductive, TypeOK, Page
  <1>7. Followed' /\ Due' /\ Bounded' /\ Gathered'
    BY <1>1, <1>2, <1>5, <1>6 DEF Inductive, Followed, Due, Bounded, Gathered, Iterated
  <1>8. BodyTrue'
    BY <1>1, <1>2, <1>3, <1>5 DEF BodyTrue
  <1>9. PageComplete'
    BY <1>1, <1>2, <1>6, SteadyLoaded DEF PageComplete, Inductive, Gathered
  <1>10. First'
    BY <1>1, <1>2, <1>6 DEF Inductive, First
  <1> QED BY <1>4, <1>5, <1>7, <1>8, <1>9, <1>10 DEF Inductive

\* A page that fails or has been read is forgotten.
LEMMA EndInductive == ASSUME Inductive, Fail \/ Close PROVE Inductive'
  <1>1. UNCHANGED <<now, state, date, manifest>> /\ page' = Idle
    BY DEF Fail, Close
  <1>2. TypeOK'
    BY <1>1 DEF Inductive, TypeOK, Idle, Page
  <1>3. Dated' /\ Listed' = Listed
    BY <1>1, RowsKept
  <1>4. Followed' /\ Due' /\ Bounded' /\ Gathered' /\ PageComplete' /\ BodyTrue'
    BY <1>1 DEF Followed, Due, Bounded, Gathered, Iterated, PageComplete, BodyTrue, Idle
  <1>5. First'
    BY <1>1 DEF Inductive, First, Idle, Chunk
  <1> QED BY <1>2, <1>3, <1>4, <1>5 DEF Inductive

\* Every step keeps it.
LEMMA StepInductive == Inductive /\ [Next]_vars => Inductive'
  <1> SUFFICES ASSUME Inductive, [Next]_vars PROVE Inductive'
    OBVIOUS
  <1>1. CASE Tick
    BY <1>1, TickInductive
  <1>2. ASSUME NEW i \in Item, Start(i) \/ List(i) \/ Remove(i) PROVE Inductive'
    BY <1>2, StartInductive, ListInductive, RemoveInductive
  <1>3. ASSUME NEW c \in 0 .. Chunk(Horizon), Open(c) PROVE Inductive'
    BY <1>3, OpenInductive
  <1>4. CASE FindFirst \/ PreloadFirst \/ Expire \/ LookupItr
    BY <1>4, FindFirstInductive, PreloadFirstInductive, ExpireInductive, LookupItrInductive
  <1>5. CASE LoadNewest \/ PreloadNewest \/ LoadAll \/ PreloadAll
    BY <1>5, LoadNewestInductive, PreloadNewestInductive, LoadAllInductive, PreloadAllInductive
  <1>6. CASE Fail \/ Close
    BY <1>6, EndInductive
  <1>7. CASE UNCHANGED vars
    BY <1>7 DEF vars, Inductive, TypeOK, Dated, Followed, Due, Bounded, Gathered, First, Iterated,
        PageComplete, BodyTrue, Listed, Chunk
  <1> QED BY <1>1, <1>2, <1>3, <1>4, <1>5, <1>6, <1>7 DEF Next

-----------------------------------------------------------------------------
\* The inductive invariant holds in every state.
THEOREM InductiveAlways == Spec => []Inductive
  BY InitInductive, StepInductive, PTL DEF Spec

\* The rows, the cached manifest and the page keep their types.
THEOREM TypeAlways == Spec => []TypeOK
  <1>1. Inductive => TypeOK
    BY DEF Inductive
  <1> QED BY <1>1, InductiveAlways, PTL

(***************************************************************************)
(* A page leaves nothing out (chunkline.go:107-149): for every number of   *)
(* records in a chunk, every limit of the first query and every order in   *)
(* which records are written and removed between the statements.           *)
(***************************************************************************)
THEOREM PageCompleteAlways == Spec => []PageComplete
  <1>1. Inductive => PageComplete
    BY DEF Inductive
  <1> QED BY <1>1, InductiveAlways, PTL

\* A page makes nothing up (chunkline.go:120-181).
THEOREM BodyTrueAlways == Spec => []BodyTrue
  <1>1. Inductive => BodyTrue
    BY DEF Inductive
  <1> QED BY <1>1, InductiveAlways, PTL

\* A cached first chunk cuts off only what was being written when it was looked up
\* (chunkline.go:45-57).
THEOREM FirstChunkSoundAlways == Spec => []FirstChunkSound
  <1>1. Inductive => FirstChunkSound
    BY DEF Inductive, First, FirstChunkSound, Listed
  <1> QED BY <1>1, InductiveAlways, PTL

-----------------------------------------------------------------------------
(***************************************************************************)
(* The iterator.  IteratorNearby is inductive beside Inductive: only       *)
(* LookupItr names a chunk, and the record that lets it name the next one  *)
(* may be removed later, but keeps its date.                               *)
(***************************************************************************)

\* A date up to the cutoff of a chunk is in the next chunk only at the cutoff itself.
LEMMA AtCutoff ==
    ASSUME NEW t \in Int, NEW c \in Int, t <= Cutoff(c), c < Chunk(t)
    PROVE  Chunk(t) = c + 1 /\ t = Cutoff(c)
  <1>1. Cutoff(c) = ChunkTicks * c + ChunkTicks /\ Cutoff(c) = ChunkTicks * (c + 1)
    BY ChunklineAssumption DEF Cutoff
  <1>2. ChunkTicks * (c + 1) <= ChunkTicks * Chunk(t)
    BY ChunkBounds, TimesMonotonic
  <1>3. ChunkTicks * Chunk(t) <= t /\ ChunkTicks * Chunk(t) \in Int /\ Cutoff(c) \in Int
    BY ChunkBounds, ChunklineAssumption DEF Cutoff
  <1>4. t = Cutoff(c) /\ ChunkTicks * Chunk(t) = Cutoff(c)
    BY <1>1, <1>2, <1>3
  <1>5. ASSUME c + 2 <= Chunk(t) PROVE FALSE
    <2>1. ChunkTicks * (c + 2) <= ChunkTicks * Chunk(t)
      BY <1>5, ChunkBounds, TimesMonotonic
    <2>2. ChunkTicks * (c + 2) = Cutoff(c) + ChunkTicks
      BY <1>1, ChunklineAssumption
    <2> QED BY <1>3, <1>4, <2>1, <2>2, ChunklineAssumption
  <1>6. Chunk(t) \in Int
    BY ChunkBounds
  <1> QED BY <1>4, <1>5, <1>6

\* Where the page keeps its chunk and iterator, and records keep their dates.
LEMMA NearbyKept ==
    ASSUME Inductive, IteratorNearby,
           page'.itr = page.itr, page'.chunk = page.chunk,
           \A i \in Item : state[i] \in {"listed", "gone"} =>
               state'[i] \in {"listed", "gone"} /\ date'[i] = date[i]
    PROVE  IteratorNearby'
  BY DEF IteratorNearby, Cutoff

\* Without an iterator there is nothing to be near.
LEMMA NearbyIdle ==
    ASSUME page'.itr = NoItr, page'.chunk \in Nat
    PROVE  IteratorNearby'
  BY DEF IteratorNearby, NoItr

\* The lookup finds an iterator that is near.
LEMMA NearbyLookup == ASSUME Inductive, LookupItr PROVE IteratorNearby'
  <1>1. UNCHANGED <<state, date>> /\ page.chunk \in Nat
    BY DEF LookupItr, Inductive, TypeOK, Page
  <1>2. PICK itr \in Iterator(page.chunk) : page'.itr = itr /\ page'.chunk = page.chunk
    BY DEF LookupItr, Inductive, TypeOK, Page
  <1>3. CASE UpTo(Cutoff(page.chunk)) = {}
    BY <1>1, <1>2, <1>3 DEF Iterator, IteratorNearby
  <1>4. CASE UpTo(Cutoff(page.chunk)) # {}
    <2>1. PICK i \in Latest(UpTo(Cutoff(page.chunk))) : itr = Chunk(date[i])
      BY <1>2, <1>4 DEF Iterator
    <2>2. i \in Listed /\ date[i] <= Cutoff(page.chunk)
      BY <2>1 DEF Latest, UpTo
    <2>3. date[i] \in Int /\ Chunk(date[i]) \in Int
      BY <2>2, ListedDates
    <2>4. CASE page.chunk < itr
      <3>1. itr = page.chunk + 1 /\ date[i] = Cutoff(page.chunk)
        BY <2>1, <2>2, <2>3, <2>4, <1>1, AtCutoff
      <3>2. i \in Item /\ state'[i] = "listed" /\ date'[i] = date[i]
        BY <2>2, <1>1 DEF Listed
      <3>3. Cutoff(page'.chunk) = Cutoff(page.chunk)
        BY <1>2
      <3> QED BY <3>1, <3>2, <3>3, <1>2 DEF IteratorNearby, Cutoff
    <2>5. CASE ~(page.chunk < itr)
      <3>1. itr <= page.chunk
        BY <2>1, <2>3, <2>5, <1>1
      <3> QED BY <3>1, <1>2 DEF IteratorNearby
    <2> QED BY <2>4, <2>5
  <1> QED BY <1>3, <1>4

\* Every step keeps the iterator near.
LEMMA NearbyStep == Inductive /\ IteratorNearby /\ [Next]_vars => IteratorNearby'
  <1> SUFFICES ASSUME Inductive, IteratorNearby, [Next]_vars PROVE IteratorNearby'
    OBVIOUS
  <1> USE DEF Inductive, TypeOK, Page
  <1>1. CASE Tick \/ Expire \/ UNCHANGED vars
    BY <1>1, NearbyKept DEF Tick, Expire, vars
  <1>2. ASSUME NEW i \in Item, Start(i) \/ List(i) PROVE IteratorNearby'
    BY <1>2, NearbyKept DEF Start, List
  <1>3. ASSUME NEW i \in Item, Remove(i) PROVE IteratorNearby'
    <2>1. page'.itr = page.itr /\ page'.chunk = page.chunk
      BY <1>3 DEF Remove
    <2>2. \A j \in Item : state[j] \in {"listed", "gone"} =>
              state'[j] \in {"listed", "gone"} /\ date'[j] = date[j]
      BY <1>3 DEF Remove
    <2> QED BY <2>1, <2>2, NearbyKept
  <1>4. ASSUME NEW c \in 0 .. Chunk(Horizon), Open(c) PROVE IteratorNearby'
    <2>1. page'.itr = NoItr /\ page'.chunk = c
      BY <1>4 DEF Open, Idle
    <2> QED BY <2>1, NearbyIdle
  <1>5. CASE FindFirst \/ PreloadFirst
    <2>1. CASE FindFirst
      <3>1. PICK i : page' = [page EXCEPT !.pc = "preload_first", !.last = i]
        BY <2>1 DEF FindFirst
      <3>2. page'.itr = page.itr /\ page'.chunk = page.chunk
        BY <3>1
      <3> QED BY <2>1, <3>2, NearbyKept DEF FindFirst
    <2>2. CASE PreloadFirst
      <3>1. page'.itr = page.itr /\ page'.chunk = page.chunk
        BY <2>2 DEF PreloadFirst
      <3> QED BY <2>2, <3>1, NearbyKept DEF PreloadFirst
    <2> QED BY <1>5, <2>1, <2>2
  <1>6. CASE LookupItr
    BY <1>6, NearbyLookup
  <1>7. CASE LoadNewest \/ PreloadNewest \/ LoadAll \/ PreloadAll
    <2>1. UNCHANGED <<state, date>>
      BY <1>7 DEF LoadNewest, PreloadNewest, LoadAll, PreloadAll
    <2>2. CASE LoadNewest
      BY <2>1, <2>2, NearbyKept DEF LoadNewest
    <2>3. CASE PreloadNewest
      BY <2>1, <2>3, NearbyKept DEF PreloadNewest
    <2>4. CASE LoadAll
      BY <2>1, <2>4, NearbyKept DEF LoadAll
    <2>5. CASE PreloadAll
      BY <2>1, <2>5, NearbyKept DEF PreloadAll
    <2> QED BY <1>7, <2>2, <2>3, <2>4, <2>5
  <1>8. CASE Fail \/ Close
    <2>1. page'.itr = NoItr /\ page'.chunk = 0
      BY <1>8 DEF Fail, Close, Idle
    <2> QED BY <2>1, NearbyIdle
  <1> QED BY <1>1, <1>2, <1>3, <1>4, <1>5, <1>6, <1>7, <1>8 DEF Next

(***************************************************************************)
(* The iterator names the chunk asked for, one before it, or, by a record  *)
(* dated exactly at the cutoff, the next one (chunkline.go:84-104): for    *)
(* every length of a chunk and every date.                                 *)
(***************************************************************************)
THEOREM IteratorNearbyAlways == Spec => []IteratorNearby
  <1>1. Init => IteratorNearby
    BY DEF Init, Idle, IteratorNearby, NoItr
  <1> QED BY <1>1, NearbyStep, InductiveAlways, PTL DEF Spec
=============================================================================
