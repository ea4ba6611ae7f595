----------------------------- MODULE MCResolver -----------------------------
(***************************************************************************)
(* Two entities and two domains, this one not the default resolver, and    *)
(* two requests at a time: one looks an entity up, with a hint or none, or *)
(* a server; the other does so, too, or reads a timeline through the       *)
(* gateway or by its URI.  Meanwhile one of the entities registers here,   *)
(* with either of two documents, again and again.  What documents and      *)
(* answers tell as a domain may be the id of a server.                     *)
(***************************************************************************)
EXTENDS Resolver

Ask(fn, of, by) == [fn |-> fn, of |-> of, by |-> by]

MCAsked == [r \in Request |->
    CASE r = 1 -> {Ask("Get", "con1", "there"), Ask("Get", "con1", ""),
                   Ask("Get", "con2", "ccs1"), Ask("Resolve", "ccs1", "there")}
      [] r = 2 -> {Ask("Get", "con1", "there"), Ask("Resolve", "here", ""),
                   Ask("HttpRequest", "con1", ""), Ask("HttpRequest", "ccs1", ""),
                   Ask("HttpRequest", "", ""), Ask("GetResource", "con2", "")}]

MCDocuments == {Entity("con1", "here"), Entity("con1", "ccs1")}
=============================================================================
