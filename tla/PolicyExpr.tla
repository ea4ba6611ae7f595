----------------------------- MODULE PolicyExpr -----------------------------
(***************************************************************************)
(* The conditions of a policy: trees of operators over constants and what  *)
(* the request's context holds (src/policy/functions.go, operators.go,     *)
(* utils.go).                                                              *)
(*                                                                         *)
(* A value is a tuple <<type, ...>> with a Go type first, since the code   *)
(* looks at types before contents: <<"bool", b>>, <<"string", s>>,         *)
(* <<"list", <<v, ...>>>>, <<"map", [key |-> v]>> and Nil.  An evaluation  *)
(* ends with a value, with an error, or with a panic of the Go runtime,    *)
(* which nothing in the package recovers from.                             *)
(***************************************************************************)
EXTENDS Integers, SequencesExt

CONSTANTS Expr,      \* expressions, closed under arguments: [op, args, const]
          Depth,     \* how many operators deep each of them is
          Value,     \* values, closed under elements of lists and fields of maps
          Context,   \* the request's fields, a "map" value
          Path       \* the keys a dotted string names: [string -> sequence of keys]

Nil   == <<"nil">>
Error == <<"error">>
Panic == <<"panic">>
Truth(b) == <<"bool", b>>

TypeOf(v) == v[1]

\* An expression is a finite tree: it comes from a JSON document (types.go).
ASSUME ExprAssumption ==
    /\ Depth \in [Expr -> Nat]
    /\ \A e \in Expr :
          /\ e.const \in Value
          /\ e.args \in Seq(Expr)
          /\ \A i \in DOMAIN e.args : Depth[e.args[i]] < Depth[e]

ASSUME ValueAssumption ==
    /\ {Nil, Truth(TRUE), Truth(FALSE), Context} \subseteq Value
    /\ {Error, Panic} \cap Value = {}
    /\ \A v \in Value :
          /\ TypeOf(v) = "bool"   => v \in {Truth(TRUE), Truth(FALSE)}
          /\ TypeOf(v) = "string" => v[2] \in DOMAIN Path /\ Path[v[2]] \in Seq(STRING)
          /\ TypeOf(v) = "list"   => v[2] \in Seq(Value)
          /\ TypeOf(v) = "map"    => \A k \in DOMAIN v[2] : v[2][k] \in Value

Failed(v) == v \in {Error, Panic}

FirstIn(S) == CHOOSE i \in S : \A j \in S : i <= j

(***************************************************************************)
(* a == b between interfaces: values of different types differ, lists and  *)
(* maps cannot be compared with their like.                                *)
(***************************************************************************)
\* Mutant: the types are not compared first.
IncomparableAny(a, b) == {TypeOf(a), TypeOf(b)} \cap {"list", "map"} # {}
Incomparable(a, b) == TypeOf(a) = TypeOf(b) /\ TypeOf(a) \in {"list", "map"}
Equal(a, b) == IF Incomparable(a, b) THEN Panic ELSE Truth(a = b)

\* Mutant: the loop returns in its first round.
JunctionOfFirst(args, unit) == IF args = <<>> THEN Truth(unit) ELSE args[1]
\* And (unit TRUE) and Or (unit FALSE): the first argument that is not the unit decides.
Junction(args, unit) ==
    LET deciding == {i \in DOMAIN args : args[i] # Truth(unit)} IN
    IF deciding = {} THEN Truth(unit)
    ELSE IF TypeOf(args[FirstIn(deciding)]) = "bool" THEN Truth(~unit) ELSE Error

opNot(args) ==
    IF Len(args) = 1 /\ TypeOf(args[1]) = "bool" THEN Truth(~args[1][2]) ELSE Error

opEq(args) == IF Len(args) = 2 THEN Equal(args[1], args[2]) ELSE Error

\* slices.Contains stops at the first element that is equal, or that cannot be compared.
opContains(args) ==
    IF Len(args) # 2 \/ TypeOf(args[1]) # "list" THEN Error
    ELSE LET equal   == [i \in DOMAIN args[1][2] |-> Equal(args[1][2][i], args[2])]
             deciding == {i \in DOMAIN equal : equal[i] # Truth(FALSE)}
         IN IF deciding = {} THEN Truth(FALSE) ELSE equal[FirstIn(deciding)]

\* One key of a dotted path, and the whole path from the context.
Descend(v, key) ==
    IF TypeOf(v) = "map" /\ key \in DOMAIN v[2] THEN v[2][key] ELSE Error

opLoad(args) ==
    IF Len(args) = 1 /\ TypeOf(args[1]) = "string"
    THEN FoldLeft(Descend, Context, Path[args[1][2]]) ELSE Error

Apply(op, args) ==
    CASE op = "And"      -> Junction(args, TRUE)
      [] op = "Or"       -> Junction(args, FALSE)
      [] op = "Not"      -> opNot(args)
      [] op = "Eq"       -> opEq(args)
      [] op = "Contains" -> opContains(args)
      [] op = "Load"     -> opLoad(args)
      [] OTHER           -> Error

\* Mutant: And and Or answer before their later arguments are evaluated.
ResultEarly(op, args) ==
    LET unit   == op = "And"
        failed == {i \in DOMAIN args : Failed(args[i])}
    IN IF op \in {"And", "Or"} /\ Len(args) > 0 /\ args[1] = Truth(~unit) THEN Truth(~unit)
       ELSE IF failed # {} THEN args[FirstIn(failed)] ELSE Apply(op, args)

(***************************************************************************)
(* All arguments are evaluated before the operator sees any of them, and   *)
(* the first that fails is the result.  A constant null is no constant.    *)
(***************************************************************************)
Result(op, args) ==
    LET failed == {i \in DOMAIN args : Failed(args[i])} IN
    IF failed # {} THEN args[FirstIn(failed)] ELSE Apply(op, args)

Eval[e \in Expr] ==
    IF e.const # Nil THEN e.const
    ELSE Result(e.op, [i \in DOMAIN e.args |-> Eval[e.args[i]]])
-----------------------------------------------------------------------------
\* What the code is measured against: the subexpressions it evaluates, and truth tables.
Evaluated(e) == IF e.const # Nil THEN {} ELSE DOMAIN e.args
Subexpr[e \in Expr] == {e} \cup UNION {Subexpr[e.args[i]] : i \in Evaluated(e)}

Logical(e) ==
    \A s \in Subexpr[e] :
        \/ s.const \in {Truth(TRUE), Truth(FALSE)}
        \/ s.const = Nil /\ (s.op \in {"And", "Or"} \/ (s.op = "Not" /\ Len(s.args) = 1))

Holds[e \in Expr] ==
    IF e.const # Nil THEN e.const = Truth(TRUE)
    ELSE CASE e.op = "And" -> \A i \in DOMAIN e.args : Holds[e.args[i]]
           [] e.op = "Or"  -> \E i \in DOMAIN e.args : Holds[e.args[i]]
           [] OTHER        -> Len(e.args) = 1 /\ ~Holds[e.args[1]]

\* Two collections of one type that meet in e: compared, or one in a list with the other.
Collections(e) ==
    /\ e.const = Nil /\ Len(e.args) = 2
    /\ LET a == Eval[e.args[1]]
           b == Eval[e.args[2]]
       IN /\ TypeOf(b) \in {"list", "map"}
          /\ \/ e.op = "Eq" /\ TypeOf(a) = TypeOf(b)
             \/ /\ e.op = "Contains" /\ TypeOf(a) = "list"
                /\ \E i \in DOMAIN a[2] : TypeOf(a[2][i]) = TypeOf(b)
=============================================================================
