------------------------------- MODULE Policy -------------------------------
(***************************************************************************)
(* Policies asked about one action of a request (src/policy): each         *)
(* document's statements are gone through in order and give a conclusion,  *)
(* and the conclusions of the documents give the answer.                   *)
(***************************************************************************)
EXTENDS PolicyExpr, FiniteSets

CONSTANTS Condition,     \* the conditions of statements, some of the expressions
          MaxHeld,       \* bound: statements that hold, over all documents
          MaxDocuments   \* bound: documents asked

ASSUME ConditionAssumption == Condition \subseteq Expr

Conclusion == {"UNSET", "OK", "NG", "ALLOW", "DENY"}
Strong     == {"ALLOW", "DENY"}

VARIABLES condition,    \* the condition of the statement being evaluated, or Idle
          conclusion,   \* what the statements so far add up to
          conclusions,  \* those of the documents before this one
          answer,       \* "none", then "yes", "no", or "panic" for the process
          default,      \* the defaultAllow the answer was asked with
          \* history, read by the properties only
          held,         \* what the statements that held emit, in order
          heldBefore    \* the same for each document before this one

vars == <<condition, conclusion, conclusions, answer, default, held, heldBefore>>

Idle == [op |-> "idle", args |-> <<>>, const |-> Nil]

(***************************************************************************)
(* Conclusion.Or.  A conflict of equals is as if nothing had been said.    *)
(***************************************************************************)
Opposed(c, d) == {c, d} \in {{"ALLOW", "DENY"}, {"OK", "NG"}}

\* Mutant: the last word counts, unless it opposes the one before.
OrLatest(c, d) ==
    IF d = "UNSET" THEN c ELSE IF Opposed(c, d) THEN "UNSET" ELSE d

Or(c, d) ==
    IF c = "UNSET" THEN d
    ELSE IF d = "UNSET" THEN c
    ELSE IF Opposed(c, d) THEN "UNSET"
    ELSE IF d \in Strong THEN d ELSE c

\* Any other word emits nothing.
Emit == {"allow", "deny", "ok", "ng", "other"}
ParseConclusion(s) ==
    CASE s = "allow" -> "ALLOW" [] s = "deny" -> "DENY"
      [] s = "ok" -> "OK" [] s = "ng" -> "NG" [] OTHER -> "UNSET"

\* Mutant: an allow answers wherever it stands.
SummaryAnyAllow(cs, defaultAllow) ==
    IF "ALLOW" \in ToSet(cs) THEN TRUE
    ELSE IF "DENY" \in ToSet(cs) THEN FALSE
    ELSE FoldLeft(Or, "UNSET", cs) = "UNSET" /\ defaultAllow

(***************************************************************************)
(* SummerizeConclusion. The first ALLOW or DENY answers; otherwise the     *)
(* weak ones are added up, and anything they add up to is not ALLOW.       *)
(***************************************************************************)
Summary(cs, defaultAllow) ==
    LET decisive == {i \in DOMAIN cs : cs[i] \in Strong}
        sum == FoldLeft(Or, "UNSET", cs)
    IN IF decisive # {} THEN cs[FirstIn(decisive)] = "ALLOW"
       ELSE IF sum = "UNSET" THEN defaultAllow ELSE sum = "ALLOW"

Init ==
    /\ condition = Idle
    /\ conclusion = "UNSET"
    /\ conclusions = <<>>
    /\ answer = "none"
    /\ default = FALSE
    /\ held = <<>>
    /\ heldBefore = <<>>

\* EvaluatePolicy comes to its next statement.
Statement(c) ==
    /\ answer = "none" /\ condition = Idle
    /\ condition' = c
    /\ UNCHANGED <<conclusion, conclusions, answer, default, held, heldBefore>>

\* A condition that fails to evaluate, or is not true, says nothing.
Passed ==
    /\ answer = "none" /\ condition # Idle
    /\ Eval[condition] \notin {Truth(TRUE), Panic}
    /\ condition' = Idle
    /\ UNCHANGED <<conclusion, conclusions, answer, default, held, heldBefore>>

\* A condition that is true adds what its statement emits.
Emitted(s) ==
    /\ answer = "none" /\ condition # Idle
    /\ Eval[condition] = Truth(TRUE)
    /\ Len(held) + Len(FlattenSeq(heldBefore)) < MaxHeld
    /\ condition' = Idle
    /\ conclusion' = Or(conclusion, ParseConclusion(s))
    /\ held' = Append(held, ParseConclusion(s))
    /\ UNCHANGED <<conclusions, answer, default, heldBefore>>

\* A comparison the Go runtime refuses: nothing recovers.
Panics ==
    /\ answer = "none" /\ condition # Idle
    /\ Eval[condition] = Panic
    /\ answer' = "panic"
    /\ UNCHANGED <<condition, conclusion, conclusions, default, held, heldBefore>>

(***************************************************************************)
(* The document's statements are at their end.  A document that has none   *)
(* for the action, or not the supported version, ends as it begins.        *)
(***************************************************************************)
EndDocument ==
    /\ answer = "none" /\ condition = Idle
    /\ Len(conclusions) < MaxDocuments
    /\ conclusions' = Append(conclusions, conclusion)
    /\ heldBefore' = Append(heldBefore, held)
    /\ conclusion' = "UNSET"
    /\ held' = <<>>
    /\ UNCHANGED <<condition, answer, default>>

Answer(defaultAllow) ==
    /\ answer = "none" /\ condition = Idle /\ held = <<>>
    /\ answer' = IF Summary(conclusions, defaultAllow) THEN "yes" ELSE "no"
    /\ default' = defaultAllow
    /\ UNCHANGED <<condition, conclusion, conclusions, held, heldBefore>>

Next ==
    \/ \E c \in Condition : Statement(c)
    \/ Passed
    \/ \E s \in Emit : Emitted(s)
    \/ Panics
    \/ EndDocument
    \/ \E b \in BOOLEAN : Answer(b)

Spec == Init /\ [][Next]_vars
-----------------------------------------------------------------------------
TypeOK ==
    /\ condition \in Condition \cup {Idle}
    /\ conclusion \in Conclusion
    /\ conclusions \in Seq(Conclusion)
    /\ answer \in {"none", "yes", "no", "panic"}
    /\ default \in BOOLEAN
    /\ held \in Seq(Conclusion)
    /\ heldBefore \in Seq(Seq(Conclusion))

StrongSaid(h) == ToSet(h) \cap Strong
WeakSaid(h)   == ToSet(h) \cap {"OK", "NG"}

(***************************************************************************)
(* However the statements are ordered and whatever weak ones stand among   *)
(* them, an allow that no deny opposes is the conclusion, and so is a deny *)
(* that no allow opposes; without either, an ok or an ng alone is          *)
(* (EvaluatePolicy with Conclusion.Or).                                    *)
(***************************************************************************)
StrongestStands ==
    /\ \A c \in Strong : StrongSaid(held) = {c} => conclusion = c
    /\ \A c \in {"OK", "NG"} :
          StrongSaid(held) = {} /\ WeakSaid(held) = {c} => conclusion = c

EndsInAllow(h) ==
    \E i \in DOMAIN h : h[i] = "ALLOW" /\ \A j \in i + 1 .. Len(h) : h[j] # "DENY"

(***************************************************************************)
(* A yes is owed to a document whose last strong word is an allow, with no *)
(* document before it that denies unopposed; or to the default, and then   *)
(* no document allowed or denied unopposed.  A no that nobody denied is    *)
(* owed to the default or to a weak word, be it ok (SummerizeConclusion    *)
(* over the conclusions of EvaluatePolicy).                                *)
(***************************************************************************)
AnswerEarned ==
    /\ answer = "yes" =>
        \/ \E i \in DOMAIN heldBefore :
               /\ EndsInAllow(heldBefore[i])
               /\ \A j \in 1 .. i - 1 : StrongSaid(heldBefore[j]) # {"DENY"}
        \/ /\ default
           /\ \A i \in DOMAIN heldBefore : Cardinality(StrongSaid(heldBefore[i])) # 1
    /\ answer = "no" /\ (\A i \in DOMAIN heldBefore : "DENY" \notin ToSet(heldBefore[i])) =>
        \/ ~default
        \/ \E i \in DOMAIN heldBefore : WeakSaid(heldBefore[i]) # {}

(***************************************************************************)
(* On constants true and false under And, Or and Not, a condition has the  *)
(* value its truth table gives, however deep it is (Eval, opAnd, opOr,     *)
(* opNot).                                                                 *)
(***************************************************************************)
LogicSound ==
    condition # Idle /\ Logical(condition) => Eval[condition] = Truth(Holds[condition])

(***************************************************************************)
(* A condition with a part that does not evaluate does not evaluate, even  *)
(* where another part would decide it: Or(true, x) says nothing if x asks  *)
(* for a field the request lacks.  So such a statement neither allows nor  *)
(* denies (Eval's loop over the arguments).                                *)
(***************************************************************************)
ErrorsAreWhole ==
    condition # Idle =>
        ((\E s \in Subexpr[condition] : Failed(Eval[s])) <=> Failed(Eval[condition]))

(***************************************************************************)
(* The process dies of a condition only where two lists or two maps meet   *)
(* in it under Eq or Contains (opEq, opContains).                          *)
(***************************************************************************)
PanicsOnlyOnCollections ==
    answer = "panic" => \E s \in Subexpr[condition] : Collections(s)
=============================================================================
