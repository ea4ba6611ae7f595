----------------------------- MODULE Chunkline -----------------------------
(***************************************************************************)
(* A timeline: the records listed under one collection, served in chunks   *)
(* by date (internal/infra/repository/chunkline.go), and a reader that     *)
(* fetches one page of it through the gateway (internal/infra/gateway/     *)
(* chunkline_gateway.go): the manifest, which is cached, then the iterator *)
(* for a date, then the body of the chunk the iterator names.              *)
(*                                                                         *)
(* Every SQL statement reads the tables as they are at that moment, and a  *)
(* Preload is a statement of its own, so that records may be written and   *)
(* removed between the steps of a page.                                    *)
(***************************************************************************)
EXTENDS Integers, FiniteSets

CONSTANTS
    Item,        \* records that may be listed under the collection
    ChunkTicks,  \* the length of a chunk: 600 seconds, in ticks of the clock
    Limit,       \* defaultChunkSize
    Horizon      \* bound on the clock

ASSUME ChunklineAssumption ==
    /\ IsFiniteSet(Item)
    /\ ChunkTicks \in Nat \ {0}
    /\ Limit \in Nat \ {0}
    /\ Horizon \in Nat

Chunk(t) == t \div ChunkTicks
\* The date of a record that was not loaded: time.Time{}, in the year 1.
Zero == 0 - 3 * ChunkTicks
NoItem == "none"
NoItr == 0 - 1
ASSUME ItemAssumption == NoItem \notin Item

NoManifest == [first |-> 0, writing |-> {}, cached |-> FALSE]

VARIABLES
    now,       \* the clock
    state,     \* each record: "none", "writing", "listed", "gone"
    date,      \* its c_date, set when its transaction starts
    manifest,  \* the manifest in the gateway's cache, and what was being written
               \* when it was made
    page       \* the page being fetched

vars == <<now, state, date, manifest, page>>

\* The steady items are the ones due on the page or before it: listed ever since it
\* began, in the chunk asked for or before that.  The removed ones were listed when it
\* began or since.  torn: the last of the newest members was removed before it was loaded.
Idle == [pc |-> "idle", chunk |-> 0, itr |-> NoItr, members |-> {}, last |-> NoItem,
         body |-> {}, steady |-> {}, removed |-> {}, torn |-> FALSE]

Init ==
    /\ now = 0
    /\ state = [i \in Item |-> "none"]
    /\ date = [i \in Item |-> Zero]
    /\ manifest = NoManifest
    /\ page = Idle

-----------------------------------------------------------------------------
(***************************************************************************)
(* The queries.  An ORDER BY ... LIMIT picks any of the rows of one date.  *)
(***************************************************************************)

Listed == {i \in Item : state[i] = "listed"}

\* Mutant: the end of the chunk after it.
CutoffAfter(c) == (c + 2) * ChunkTicks
Cutoff(c)  == (c + 1) * ChunkTicks
PrevDate(c) == (c - 1) * ChunkTicks

\* Mutant: the join with records is left out.
UpToUnjoined(t) == {i \in Item : state[i] \in {"listed", "gone"} /\ date[i] <= t}
UpTo(t) == {i \in Listed : date[i] <= t}

Latest(S)   == {i \in S : \A j \in S : date[j] <= date[i]}
Earliest(S) == {i \in S : \A j \in S : date[i] <= date[j]}

\* M is what ORDER BY c_date DESC LIMIT n leaves of S.
Newest(M, S, n) ==
    /\ M \subseteq S
    /\ Cardinality(M) <= n
    /\ M = S \/ Cardinality(M) = n
    /\ \A i \in M, j \in S \ M : date[j] <= date[i]

\* The date of a member as Preload("Record") finds it.
Loaded(i) == IF i \in Listed THEN date[i] ELSE Zero

-----------------------------------------------------------------------------
(* Records are written and removed.                                         *)

Tick ==
    /\ now < Horizon
    /\ now' = now + 1
    /\ UNCHANGED <<state, date, manifest, page>>

\* CreateRecord takes the time before its transaction begins; it is listed when the
\* transaction commits, or never.
Start(i) ==
    /\ state[i] = "none"
    /\ state' = [state EXCEPT ![i] = "writing"]
    /\ date' = [date EXCEPT ![i] = now]
    /\ UNCHANGED <<now, manifest, page>>

List(i) ==
    /\ state[i] = "writing"
    /\ state' = [state EXCEPT ![i] = "listed"]
    /\ UNCHANGED <<now, date, manifest, page>>

\* The record is deleted or replaced.
Remove(i) ==
    /\ state[i] = "listed"
    /\ state' = [state EXCEPT ![i] = "gone"]
    /\ page' = [page EXCEPT
           !.steady = @ \ {i},
           !.removed = IF page.pc = "idle" THEN {} ELSE @ \cup {i},
           !.torn = IF page.pc = "preload" /\ i = page.last THEN TRUE ELSE @]
    /\ UNCHANGED <<now, date, manifest>>

-----------------------------------------------------------------------------
(***************************************************************************)
(* LookupChunkItrs resolves the timeline: the manifest from the cache or   *)
(* from the server, where GetChunklineManifest looks for the earliest      *)
(* member and loads its record.                                            *)
(***************************************************************************)
Open(c) ==
    /\ page.pc = "idle"
    /\ page' = [Idle EXCEPT !.pc = IF manifest.cached THEN "itr" ELSE "first",
                            !.chunk = c,
                            !.steady = {i \in Listed : Chunk(date[i]) <= c}]
    /\ UNCHANGED <<now, state, date, manifest>>

\* Mutant: the order of the query is reversed.
FirstMemberDesc == Latest(Listed)
FirstMember == Earliest(Listed)

FindFirst ==
    /\ page.pc = "first"
    /\ page' \in {[page EXCEPT !.pc = "preload_first", !.last = i] :
                     i \in IF Listed = {} THEN {NoItem} ELSE FirstMember}
    /\ manifest' = [manifest EXCEPT !.writing = {i \in Item : state[i] = "writing"}]
    /\ UNCHANGED <<now, state, date>>

\* The manifest is made, answered and cached for ten minutes.
PreloadFirst ==
    /\ page.pc = "preload_first"
    /\ manifest' = [manifest EXCEPT
           !.first = IF page.last = NoItem THEN 0 ELSE Chunk(Loaded(page.last)),
           !.cached = TRUE]
    /\ page' = [page EXCEPT !.pc = IF page.itr = NoItr THEN "itr" ELSE "newest", !.last = NoItem]
    /\ UNCHANGED <<now, state, date>>

Expire ==
    /\ manifest.cached
    /\ manifest' = NoManifest
    /\ UNCHANGED <<now, state, date, page>>

-----------------------------------------------------------------------------
\* LookupLocalItrs: the chunk of the latest date up to the cutoff; the handler
\* answers 0 for a collection without one.  LoadChunkBodies resolves the timeline again.
Iterator(c) ==
    IF UpTo(Cutoff(c)) = {} THEN {0}
    ELSE {Chunk(date[i]) : i \in Latest(UpTo(Cutoff(c)))}

LookupItr ==
    /\ page.pc = "itr"
    /\ \E itr \in Iterator(page.chunk) :
        page' = [page EXCEPT !.pc = IF manifest.cached THEN "newest" ELSE "first", !.itr = itr]
    /\ UNCHANGED <<now, state, date, manifest>>

(***************************************************************************)
(* LoadLocalBody: the newest members up to the end of the chunk; if they   *)
(* do not reach back before the chunk, all members from before it on.      *)
(***************************************************************************)
LoadNewest ==
    /\ page.pc = "newest"
    /\ \E M \in SUBSET UpTo(Cutoff(page.itr)) :
        /\ Newest(M, UpTo(Cutoff(page.itr)), Limit)
        /\ \E last \in IF M = {} THEN {NoItem} ELSE Earliest(M) :
            page' = [page EXCEPT !.pc = "preload", !.members = M, !.last = last]
    /\ UNCHANGED <<now, state, date, manifest>>

\* Mutant: the second query is made when the members do reach back.
Reaches(last, c)    == last = NoItem \/ Loaded(last) <= PrevDate(c)
FallsShort(last, c) == last = NoItem \/ Loaded(last) > PrevDate(c)

BodyOf(members) == {[item |-> i, date |-> Loaded(i)] : i \in members}

PreloadNewest ==
    /\ page.pc = "preload"
    /\ page' = [page EXCEPT
           !.pc = IF FallsShort(page.last, page.itr) THEN "all" ELSE "answer",
           !.body = BodyOf(page.members), !.members = {}, !.last = NoItem]
    /\ UNCHANGED <<now, state, date, manifest>>

LoadAll ==
    /\ page.pc = "all"
    /\ page' = [page EXCEPT
           !.pc = "preload_all",
           !.members = {i \in UpTo(Cutoff(page.itr)) : date[i] > PrevDate(page.itr)}]
    /\ UNCHANGED <<now, state, date, manifest>>

PreloadAll ==
    /\ page.pc = "preload_all"
    /\ page' = [page EXCEPT !.pc = "answer", !.body = BodyOf(page.members), !.members = {}]
    /\ UNCHANGED <<now, state, date, manifest>>

\* A request of the gateway fails, times out or answers with another status.
Fail ==
    /\ page.pc \notin {"idle", "answer"}
    /\ page' = Idle
    /\ UNCHANGED <<now, state, date, manifest>>

Close ==
    /\ page.pc = "answer"
    /\ page' = Idle
    /\ UNCHANGED <<now, state, date, manifest>>

Next ==
    \/ Tick
    \/ \E i \in Item : Start(i) \/ List(i) \/ Remove(i)
    \/ \E c \in 0 .. Chunk(Horizon) : Open(c)
    \/ FindFirst \/ PreloadFirst \/ Expire \/ LookupItr
    \/ LoadNewest \/ PreloadNewest \/ LoadAll \/ PreloadAll
    \/ Fail \/ Close

Spec == Init /\ [][Next]_vars

-----------------------------------------------------------------------------
Manifest == [first: Int, writing: SUBSET Item, cached: BOOLEAN]
Page == [pc: {"idle", "first", "preload_first", "itr", "newest", "preload", "all",
              "preload_all", "answer"},
         chunk: Nat, itr: Nat \cup {NoItr}, members: SUBSET Item, last: Item \cup {NoItem},
         body: SUBSET [item: Item, date: Int], steady: SUBSET Item, removed: SUBSET Item,
         torn: BOOLEAN]

\* Types of the rows, the cached manifest and the page.
TypeOK ==
    /\ now \in 0 .. Horizon
    /\ state \in [Item -> {"none", "writing", "listed", "gone"}]
    /\ date \in [Item -> 0 .. Horizon \cup {Zero}]
    /\ manifest \in Manifest
    /\ page \in Page

(***************************************************************************)
(* A page leaves nothing out: a record that was listed all the while, in   *)
(* the chunk asked for or before it, is in the body, or in a chunk before  *)
(* the one the iterator named, so that a reader going back will come to it.*)
(* The second query is what makes this so however many records a chunk     *)
(* has (chunkline.go:107-149).  It fails when the oldest of the newest     *)
(* members is removed before its record is loaded, which is what torn says.*)
(***************************************************************************)
PageComplete ==
    (page.pc = "answer" /\ ~page.torn) =>
        \A i \in page.steady :
            \/ [item |-> i, date |-> date[i]] \in page.body
            \/ Chunk(date[i]) < page.itr

(***************************************************************************)
(* What is in a body was listed under the collection while the page was    *)
(* fetched, under its date; one without a date was removed meanwhile       *)
(* (chunkline.go:120-181).                                                 *)
(***************************************************************************)
BodyTrue ==
    page.pc = "answer" =>
        \A b \in page.body :
            IF b.date = Zero THEN b.item \in page.removed
            ELSE b.date = date[b.item] /\ b.item \in Listed \cup page.removed

(***************************************************************************)
(* A cached manifest does not cut the timeline short: a record before its  *)
(* first chunk was being written when the manifest was made, with a date   *)
(* it had taken before (chunkline.go:45-57, gateway 46-70).                *)
(***************************************************************************)
FirstChunkSound ==
    manifest.cached =>
        \A i \in Listed : Chunk(date[i]) < manifest.first => i \in manifest.writing

(***************************************************************************)
(* The cutoff of a chunk is the first instant of the next one, and the     *)
(* query includes it (chunkline.go:84, 91).  So the iterator may name the  *)
(* next chunk, against the descending order, but only by a record of that  *)
(* very instant, and it never goes further.                                *)
(***************************************************************************)
IteratorNearby ==
    page.itr <= page.chunk
        \/ /\ page.itr = page.chunk + 1
           /\ \E i \in Item : state[i] \in {"listed", "gone"} /\ date[i] = Cutoff(page.chunk)
=============================================================================
