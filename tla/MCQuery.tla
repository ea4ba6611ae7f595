------------------------------ MODULE MCQuery ------------------------------
(***************************************************************************)
(* Two documents of one URI and two of others, dates that may be equal.    *)
(***************************************************************************)
EXTENDS Query

MCUriOf(d) == CASE d \in {"a1", "a2"} -> "a" [] d = "b1" -> "b" [] OTHER -> "c"
MCMatch    == [all |-> Uri, b |-> {"b"}]
MCSchemaOf == [d \in RecordDoc |-> IF d = "a2" THEN "profile" ELSE "note"]

Default == [prefix |-> "all", schema |-> None, since |-> None, until |-> None,
            limit |-> None, order |-> "asc"]

MCAsked == {
    Default,
    [Default EXCEPT !.order = "desc"],
    [Default EXCEPT !.limit = 7, !.since = 2],
    [Default EXCEPT !.limit = 0 - 1],
    [Default EXCEPT !.limit = 2, !.schema = "note", !.until = 1],
    [Default EXCEPT !.limit = 0, !.prefix = "b"]}
=============================================================================
