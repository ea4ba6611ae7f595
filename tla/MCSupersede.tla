---------------------------- MODULE MCSupersede ----------------------------
(***************************************************************************)
(* Requests that write to one URI, cc://owner/home: the documents post1 to *)
(* post3 are keyed there, none is a member of a collection.                *)
(***************************************************************************)
EXTENDS RecordRefinement

CONSTANTS post1, post2, post3, p1, p2, p3

MCUri == {"home"}
MCParent == [u \in MCUri |-> Root]
MCHome == [d \in UserDoc |-> "home"]
MCMemberOf == [d \in UserDoc |-> {}]
MCNothing == <<>>

Asked(d) == [kind |-> "create", doc |-> d, uri |-> "home"]

\* Each request has a document of its own.
OneEach == [p \in Req |-> {Asked(CASE p = p1 -> post1 [] p = p2 -> post2 [] p = p3 -> post3)}]
\* Every request may bring any document, again and again.
AnyOf == [p \in Req |-> {Asked(d) : d \in UserDoc}]

\* What RecordRefinement's theorems ask for holds where the key is planted, and only there.
ASSUME SharedKeysStayHere == SharedKeysStay <=> Planted = MCUri
=============================================================================
