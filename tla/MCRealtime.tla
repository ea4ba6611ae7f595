----------------------------- MODULE MCRealtime -----------------------------
(***************************************************************************)
(* A client that listens up to twice, to two prefixes at once of which one *)
(* covers the other, to one of them or to none, while events are           *)
(* published: every event matches owner, the even ones owner/post, too.    *)
(***************************************************************************)
EXTENDS Realtime

MCPrefix == {"owner", "owner/post"}
MCMatch == [x \in MCPrefix |-> {e \in Event : x = "owner" \/ e % 2 = 0}]
MCAsked == {MCPrefix, {"owner/post"}, {}}
=============================================================================
