---------------------------- MODULE MCDistribute ----------------------------
(***************************************************************************)
(* Requests that create records which are members of collections.  The     *)
(* document x asks for the collections lists/one and two, y for lists/one, *)
(* and z, which is kept beside the collection at lists/home, too.          *)
(***************************************************************************)
EXTENDS RecordTree

CONSTANTS x, y, z, p1, p2

Homes == {"hx", "hy", "lists/home"}
Collections == {"lists/one", "two"}
References == {"one/x", "one/y", "one/z", "two/x", "two/y", "two/z"}

MCUri == Homes \cup Collections \cup References \cup {"lists"}
MCParent == [u \in MCUri |->
    CASE u \in {"lists/one", "lists/home"} -> "lists"
      [] u \in {"one/x", "one/y", "one/z"} -> "lists/one"
      [] u \in {"two/x", "two/y", "two/z"} -> "two"
      [] OTHER -> Root]
MCHome == [d \in UserDoc |-> CASE d = x -> "hx" [] d = y -> "hy" [] d = z -> "lists/home"]
MCMemberOf == [d \in UserDoc |-> IF d = x THEN Collections ELSE {"lists/one"}]
MCItem == [m \in Collections \X UserDoc |->
    IF m[1] = "two"
    THEN CASE m[2] = x -> "two/x" [] m[2] = y -> "two/y" [] m[2] = z -> "two/z"
    ELSE CASE m[2] = x -> "one/x" [] m[2] = y -> "one/y" [] m[2] = z -> "one/z"]
MCNone == <<>>

Put(d) == [kind |-> "create", doc |-> d, uri |-> MCHome[d]]

Together == [p \in Req |-> IF p = p1 THEN {Put(x)} ELSE {Put(d) : d \in UserDoc}]
Beside == [p \in Req |-> {Put(z)}]

\* What RecordTree's theorems ask for: no key is deleted here; references have a part of
\* the tree to themselves once the way to their collections is planted, but not in
\* DistributeUnderOneParent; their collections stand in DistributePlanted.
ASSUME ParentsStayHere == ParentsStay
ASSUME CollectionsApartHere == CollectionsApart <=> Planted # {}
ASSUME CollectionsStandHere == CollectionsStand <=> Collections \subseteq Planted
=============================================================================
