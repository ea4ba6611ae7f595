------------------------------ MODULE MCPolicy ------------------------------
(***************************************************************************)
(* Conditions up to four operators deep over constants of every type,      *)
(* fields the request has and fields it lacks.                             *)
(***************************************************************************)
EXTENDS Policy

Str(s)       == <<"string", s>>
Const(v)     == [op |-> "", args |-> <<>>, const |-> v]
Op(op, args) == [op |-> op, args |-> args, const |-> Nil]

Dotted == {"requester", "params", "params.role", "params.tags", "params.role.name",
           "this.owner"}

Word == {"admin", "a", "con1"}

MCPath == [s \in Dotted \cup Word |->
    CASE s = "params.role"      -> <<"params", "role">>
      [] s = "params.tags"      -> <<"params", "tags">>
      [] s = "params.role.name" -> <<"params", "role", "name">>
      [] s = "this.owner"       -> <<"this", "owner">>
      [] OTHER                  -> <<s>>]

Tags   == <<"list", <<Str("admin"), <<"list", <<>>>>, Str("a")>>>>
Params == <<"map", [role |-> Str("admin"), tags |-> Tags]>>

\* A request whose requester is known and whose record, this, is not.
MCContext == <<"map", [requester |-> Str("con1"), requester_domain |-> Nil,
                       parent |-> Nil, this |-> Nil, params |-> Params]>>

MCValue == {Nil, Truth(TRUE), Truth(FALSE), <<"list", <<>>>>, Tags, Params, MCContext}
               \cup {Str(s) : s \in Dotted \cup Word}

Bool   == {Const(Truth(TRUE)), Const(Truth(FALSE))}
Field  == {Const(Str(s)) : s \in Dotted \cup {"admin"}}
List   == {Const(Tags), Const(<<"list", <<>>>>)}
Plain  == Bool \cup {Const(Str("admin")), Const(Nil)} \cup List
Loaded == {Op("Load", <<e>>) : e \in Field \cup {Const(Truth(TRUE)), Const(Tags)}}
Tested == {Const(Str("admin")), Const(<<"list", <<>>>>),
           Op("Load", <<Const(Str("params"))>>), Op("Load", <<Const(Str("params.tags"))>>)}

Pairs(ops, S) == {Op(op, <<a, b>>) : op \in ops, a \in S, b \in S}

Flat == Plain \cup Loaded
            \cup Pairs({"And", "Or"}, Bool \cup {Const(Str("admin"))})
            \cup Pairs({"Eq", "Contains"}, Tested)
            \cup {Op(op, <<Const(Truth(TRUE))>>) : op \in {"And", "Or", "Not", "Eq", "Xor"}}
            \cup {Op(op, <<>>) : op \in {"And", "Or", "Not"}}

Missing == Op("Load", <<Const(Str("this.owner"))>>)
IsAdmin == Op("Eq", <<Op("Load", <<Const(Str("params.role"))>>), Const(Str("admin"))>>)
Inner   == {Const(Truth(TRUE)), IsAdmin, Missing} \cup Pairs({"Or"}, Bool)

\* A constant with an argument that would fail, did anyone evaluate it.
Unread == [op |-> "Load", args |-> <<Missing>>, const |-> Truth(TRUE)]

MCCondition == Flat \cup {Unread, Op("Not", <<Unread>>)}
                    \cup {Op("And", <<a, Op("Not", <<b>>)>>) : a \in Inner, b \in Inner}
                    \cup Pairs({"Or"}, Inner) \cup {Op("Not", <<e>>) : e \in Inner}

MCExpr == MCCondition \cup Field \cup Inner \cup Tested

MCDepth[e \in MCExpr] ==
    IF e.args = <<>> THEN 0 ELSE 1 + Max({MCDepth[e.args[i]] : i \in DOMAIN e.args})
=============================================================================
