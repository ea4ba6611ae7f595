---------------------------- MODULE DocumentStore ----------------------------
(***************************************************************************)
(* What the record repository promises, without transactions, tables or    *)
(* locks: signed documents are stored; a URI resolves to at most one of    *)
(* them; a document that is replaced is retired (a candidate for garbage   *)
(* collection) and leaves the set of listed records, which are exactly the *)
(* live ones.                                                              *)
(***************************************************************************)
CONSTANTS Uri,         \* record URIs
          RecordDoc,   \* documents that are records, of users or references
          AssocDoc,    \* documents that are associations
          NoDoc,
          UriOf(_)     \* the URI a record document is keyed by

VARIABLES live,        \* the document each URI resolves to
          stored,      \* the documents in the commit log
          retired,     \* those of them marked for garbage collection
          listed       \* the record documents that queries return

abstractVars == <<live, stored, retired, listed>>

AtMostOneLivePerUri(docs) == \A d, e \in docs : UriOf(d) = UriOf(e) => d = e

Init ==
    /\ stored \in SUBSET RecordDoc
    /\ AtMostOneLivePerUri(stored)
    /\ live = [u \in Uri |->
                  IF \E d \in stored : UriOf(d) = u
                  THEN CHOOSE d \in stored : UriOf(d) = u ELSE NoDoc]
    /\ listed = stored
    /\ retired = {}

\* A record is created: it replaces and retires whatever was live at its URI.  One that
\* had been retired itself stays so.
Put(d) ==
    LET replaced == {live[UriOf(d)]} \ {NoDoc, d} IN
    /\ stored' = stored \cup {d}
    /\ live' = [live EXCEPT ![UriOf(d)] = d]
    /\ retired' = retired \cup replaced
    /\ listed' = (listed \ replaced) \cup {d}

\* An association is attached to some record.
Keep(d) ==
    /\ stored' = stored \cup {d}
    /\ UNCHANGED <<live, retired, listed>>

\* A record is deleted together with its commit.
Erase(d) ==
    /\ d \in stored
    /\ stored' = stored \ {d}
    /\ live' = [u \in Uri |-> IF live[u] = d THEN NoDoc ELSE live[u]]
    /\ retired' = retired \ {d}
    /\ listed' = listed \ {d}

Next ==
    \/ \E d \in RecordDoc : Put(d) \/ Erase(d)
    \/ \E d \in AssocDoc : Keep(d)

Spec == Init /\ [][Next]_abstractVars
=============================================================================
