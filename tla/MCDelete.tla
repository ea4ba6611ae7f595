------------------------------ MODULE MCDelete ------------------------------
(***************************************************************************)
(* Requests that replace, delete, read and annotate the record at          *)
(* cc://owner/list/post, and its parent at cc://owner/list.  The documents *)
(* draft and edit are keyed at list/post, top at list; like and fav are    *)
(* associations of one owner and variant, with one unique hash.            *)
(***************************************************************************)
EXTENDS RecordTree

CONSTANTS draft, edit, top, like, fav, p1, p2, p3

MCUri == {"list", "post"}
MCParent == [list |-> Root, post |-> "list"]
MCHome == [d \in UserDoc |-> IF d = top THEN "list" ELSE "post"]
MCMemberOf == [d \in UserDoc |-> {}]
MCItem == <<>>
MCTarget == [d \in AssocDoc |-> "post"]
MCSlot == [d \in AssocDoc |-> "hash"]

Put(d) == [kind |-> "create", doc |-> d, uri |-> MCHome[d]]
Act(kind, u) == [kind |-> kind, doc |-> NoDoc, uri |-> u]
ActById(kind, d) == [kind |-> kind, doc |-> d, uri |-> Root]
Attach(d) == [kind |-> "associate", doc |-> d, uri |-> "post"]

\* One request replaces the record or annotates it; the others delete, read and
\* annotate it.
Contended == [p \in Req |->
    CASE p = p1 -> {Put(edit), Attach(like)}
      [] p = p2 -> {Act("delete", "post"), ActById("delete", draft), Attach(fav),
                    Act("get", "post"), ActById("get", draft)}
      [] p = p3 -> {Act("delete", "post"), Act("delete", "list"), Attach(like),
                    Act("ack", "post")}]

\* The parent is deleted; replacing the child, which is still there, creates it again.
Recreated == [p \in Req |->
    CASE p = p1 -> {Act("delete", "list")}
      [] p = p2 -> {Put(top), Put(edit)}]

\* What RecordTree's theorem on Attached asks for does not hold where the parent is deleted.
ASSUME ParentsStayHere ==
    ParentsStay <=> \A p \in Req : Act("delete", "list") \notin Menu[p]
=============================================================================
