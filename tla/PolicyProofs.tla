---------------------------- MODULE PolicyProofs ----------------------------
(***************************************************************************)
(* Proofs about Policy, for all expressions, contexts, paths and bounds.   *)
(*                                                                         *)
(* Conditions are trees and the conclusions of documents are added up by a *)
(* fold, so that much here is induction over data.  It goes by least       *)
(* counterexamples: a set of numbers has a least one, hence a set of       *)
(* expressions one of least depth.  Recursion says that a function defined *)
(* by what it is at lower ranks is there.                                  *)
(***************************************************************************)
EXTENDS Policy, SequenceTheorems, FiniteSetTheorems, TLAPS

\* m is less than n.
Below == {m \in Nat \X Nat : m[1] < m[2]}

\* A set of numbers has a least one.
LEMMA LeastNumber ==
    ASSUME NEW S \in SUBSET Nat, S # {}
    PROVE  \E n \in S : \A m \in S : n <= m
<1>1. IsWellFoundedOn(Below, Nat)
  BY NatLessThanWellFounded, Zenon DEF OpToRel, Below
<1>2. PICK n \in S : \A m \in S : <<m, n>> \notin Below
  BY <1>1, WFMin, Zenon
<1>3. ASSUME NEW m \in S PROVE ~(m < n)
  BY <1>2 DEF Below
<1> QED BY <1>3

\* What is ranked by numbers has an element of least rank.
LEMMA LeastRank ==
    ASSUME NEW D, NEW rank \in [D -> Nat], NEW S \in SUBSET D, S # {}
    PROVE  \E x \in S : \A y \in S : rank[x] <= rank[y]
<1>1. {rank[x] : x \in S} \in SUBSET Nat /\ {rank[x] : x \in S} # {}
  OBVIOUS
<1>2. PICK n \in {rank[x] : x \in S} : \A m \in {rank[x] : x \in S} : n <= m
  BY <1>1, LeastNumber
<1> QED BY <1>2

\* The functions that solve f = F[f] for arguments of a rank below n.
Good(D, T, rank, F, n) ==
    {g \in [D -> T] : \A x \in D : rank[x] < n => g[x] = F[g][x]}

\* F[f] at x depends on f at lower ranks only.
Local(D, T, rank, F) ==
    \A g, h \in [D -> T] : \A x \in D :
        (\A y \in D : rank[y] < rank[x] => g[y] = h[y]) => F[g][x] = F[h][x]

\* There are such functions for every n: F makes a better one of each.
LEMMA GoodThere ==
    ASSUME NEW D, NEW T, T # {}, NEW rank \in [D -> Nat], NEW F \in [[D -> T] -> [D -> T]],
           Local(D, T, rank, F), NEW n \in Nat
    PROVE  Good(D, T, rank, F, n) # {}
<1> DEFINE Bad == {m \in Nat : Good(D, T, rank, F, m) = {}}
<1>1. SUFFICES ASSUME Bad # {} PROVE FALSE
  OBVIOUS
<1>2. PICK m \in Bad : \A k \in Bad : m <= k
  BY <1>1, LeastNumber
<1>3. CASE m = 0
  <2>1. PICK t \in T : TRUE
    OBVIOUS
  <2>2. [x \in D |-> t] \in Good(D, T, rank, F, 0)
    BY DEF Good
  <2> QED BY <2>2, <1>3
<1>4. CASE m # 0
  <2>1. m - 1 \in Nat /\ m - 1 < m
    BY <1>4
  <2> HIDE DEF Bad
  <2>6. m - 1 \notin Bad
    BY <1>2, <2>1 DEF Bad
  <2> USE DEF Bad
  <2>2. PICK g \in Good(D, T, rank, F, m - 1) : TRUE
    BY <2>1, <2>6
  <2>3. g \in [D -> T] /\ F[g] \in [D -> T]
    BY <2>2 DEF Good
  <2>4. ASSUME NEW x \in D, rank[x] < m PROVE F[g][x] = F[F[g]][x]
    <3>1. ASSUME NEW y \in D, rank[y] < rank[x] PROVE g[y] = F[g][y]
      <4>1. rank[y] < m - 1
        BY <3>1, <2>4
      <4> QED BY <4>1, <2>2 DEF Good
    <3> QED BY <3>1, <2>3 DEF Local
  <2>5. F[g] \in Good(D, T, rank, F, m)
    BY <2>3, <2>4 DEF Good
  <2> QED BY <2>5
<1> QED BY <1>3, <1>4

\* They agree as far as they solve the equation.
Agree(D, T, rank, F) ==
    \A m, n \in Nat :
      \A g \in Good(D, T, rank, F, m), h \in Good(D, T, rank, F, n) :
        \A x \in D : rank[x] < m /\ rank[x] < n => g[x] = h[x]

\* For otherwise they would differ at an argument of least rank.
LEMMA GoodAgree ==
    ASSUME NEW D, NEW T, NEW rank \in [D -> Nat], NEW F \in [[D -> T] -> [D -> T]],
           Local(D, T, rank, F)
    PROVE  Agree(D, T, rank, F)
<1> SUFFICES ASSUME NEW m \in Nat, NEW n \in Nat, NEW g \in Good(D, T, rank, F, m),
                    NEW h \in Good(D, T, rank, F, n)
             PROVE  \A x \in D : rank[x] < m /\ rank[x] < n => g[x] = h[x]
  BY DEF Agree
<1> DEFINE Bad == {y \in D : rank[y] < m /\ rank[y] < n /\ g[y] # h[y]}
<1>1. SUFFICES ASSUME Bad # {} PROVE FALSE
  OBVIOUS
<1>2. PICK y \in Bad : \A z \in Bad : rank[y] <= rank[z]
  <2> HIDE DEF Bad
  <2>1. Bad \in SUBSET D
    BY DEF Bad
  <2> QED BY <1>1, <2>1, LeastRank
<1>3. g \in [D -> T] /\ h \in [D -> T]
  BY DEF Good
<1>4. ASSUME NEW z \in D, rank[z] < rank[y] PROVE g[z] = h[z]
  BY <1>2, <1>4
<1>5. F[g][y] = F[h][y]
  BY <1>3, <1>4 DEF Local
<1> QED BY <1>5, <1>2 DEF Good

\* A recursion that descends in rank, and a solution of it.
Descends(D, T, rank, F) ==
    /\ T # {} /\ rank \in [D -> Nat] /\ F \in [[D -> T] -> [D -> T]]
    /\ Local(D, T, rank, F)

Solved(D, T, F) == \E f \in [D -> T] : f = F[f]

\* A recursion that descends has a solution: at x what any good function gives.
LEMMA Recursion ==
    ASSUME NEW D, NEW T, NEW rank, NEW F, Descends(D, T, rank, F)
    PROVE  Solved(D, T, F)
<1> SUFFICES ASSUME T # {}, rank \in [D -> Nat], F \in [[D -> T] -> [D -> T]],
                    Local(D, T, rank, F)
             PROVE  \E f \in [D -> T] : f = F[f]
  BY DEF Descends, Solved
<1> DEFINE At(x) == CHOOSE g \in Good(D, T, rank, F, rank[x] + 1) : TRUE
           f == [x \in D |-> At(x)[x]]
<1>a. Agree(D, T, rank, F)
  BY GoodAgree
<1>1. ASSUME NEW x \in D PROVE At(x) \in Good(D, T, rank, F, rank[x] + 1)
  <2>1. rank[x] + 1 \in Nat
    OBVIOUS
  <2>2. Good(D, T, rank, F, rank[x] + 1) # {}
    BY <2>1, GoodThere
  <2> QED BY <2>2
<1> HIDE DEF At
<1>2. f \in [D -> T]
  BY <1>1 DEF Good
<1>3. ASSUME NEW x \in D PROVE f[x] = F[f][x]
  <2>1. ASSUME NEW y \in D, rank[y] < rank[x] PROVE f[y] = At(x)[y]
    <3> DEFINE m == rank[y] + 1  n == rank[x] + 1
    <3>1. At(y) \in Good(D, T, rank, F, m) /\ At(x) \in Good(D, T, rank, F, n)
      BY <1>1
    <3>2. m \in Nat /\ n \in Nat /\ rank[y] < m /\ rank[y] < n
      BY <2>1
    <3> HIDE DEF m, n, f
    <3>3. At(y)[y] = At(x)[y]
      BY <3>1, <3>2, <1>a DEF Agree
    <3> USE DEF f
    <3> QED BY <3>3
  <2>2. At(x) \in [D -> T] /\ At(x)[x] = F[At(x)][x]
    BY <1>1 DEF Good
  <2>3. F[At(x)][x] = F[f][x]
    BY <2>1, <2>2, <1>2 DEF Local
  <2> QED BY <2>2, <2>3
<1> HIDE DEF f
<1>4. f \in [D -> T] /\ F[f] \in [D -> T]
  BY <1>2
<1>5. f = F[f]
  BY <1>3, <1>4
<1> QED BY <1>4, <1>5

-----------------------------------------------------------------------------
(***************************************************************************)
(* FoldLeft over a sequence of length n is a recursion over the sets of    *)
(* its indices: the last index is taken from the set first.                *)
(***************************************************************************)
Size(n) == [s \in SUBSET (1 .. n) |-> Cardinality(s)]
Rest(s) == s \ {Max(s)}

\* A set of indices that is not empty has a last one, and is smaller without it.
LEMMA LastTaken ==
    ASSUME NEW n \in Nat, NEW s \in SUBSET (1 .. n), s # {}
    PROVE  /\ Max(s) \in s
           /\ Rest(s) \in SUBSET (1 .. n)
           /\ Size(n)[Rest(s)] < Size(n)[s]
           /\ Size(n)[s] \in Nat /\ Size(n)[Rest(s)] \in Nat
<1> DEFINE R == {n - x : x \in s}
<1>1. ASSUME NEW x \in s PROVE n - x \in Nat /\ x \in Nat
  OBVIOUS
<1>2. R \in SUBSET Nat /\ R # {}
  BY <1>1
<1>3. PICK m \in R : \A k \in R : m <= k
  <2> HIDE DEF R
  <2> QED BY <1>2, LeastNumber
<1>4. PICK x \in s : m = n - x
  BY <1>3
<1>5. ASSUME NEW y \in s PROVE x >= y
  <2>1. n - y \in R /\ n - x <= n - y
    BY <1>3, <1>4
  <2> QED BY <2>1, <1>1
<1>6. Max(s) \in s
  BY <1>5 DEF Max
<1>7. IsFiniteSet(s)
  <2> HIDE DEF R
  <2>0. 1 \in Int /\ n \in Int
    OBVIOUS
  <2>1. IsFiniteSet(1 .. n)
    BY <2>0, FS_Interval, Zenon
  <2> QED BY <2>1, FS_Subset
<1>8. Cardinality(Rest(s)) = Cardinality(s) - 1 /\ Cardinality(s) \in Nat
  BY <1>6, <1>7, FS_RemoveElement, FS_CardinalityType DEF Rest
<1>9. Rest(s) \in SUBSET (1 .. n)
  BY DEF Rest
<1> HIDE DEF R
<1>10. Size(n)[s] = Cardinality(s) /\ Size(n)[Rest(s)] = Cardinality(Rest(s))
  BY <1>9 DEF Size
<1>11. Cardinality(Rest(s)) \in Nat
  BY <1>7, <1>6, FS_RemoveElement, FS_CardinalityType DEF Rest
<1>12. Size(n)[Rest(s)] < Size(n)[s]
  BY <1>8, <1>10
<1> QED BY <1>6, <1>8, <1>9, <1>10, <1>11, <1>12

\* Sets of indices are ranked by their size.
LEMMA SizeRanks == ASSUME NEW n \in Nat PROVE Size(n) \in [SUBSET (1 .. n) -> Nat]
<1>1. IsFiniteSet(1 .. n)
  BY FS_Interval
<1>2. ASSUME NEW s \in SUBSET (1 .. n) PROVE Cardinality(s) \in Nat
  BY <1>1, FS_Subset, FS_CardinalityType
<1> QED BY <1>2 DEF Size

\* What holds of the base and is kept by each step holds of the fold.
LEMMA FoldKeeps ==
    ASSUME NEW n \in Nat, NEW T, NEW f, f[{}] \in T,
           \A s \in SUBSET (1 .. n) : s # {} /\ f[Rest(s)] \in T => f[s] \in T
    PROVE  \A s \in SUBSET (1 .. n) : f[s] \in T
<1> DEFINE D == SUBSET (1 .. n)
           Bad == {s \in D : f[s] \notin T}
<1> SUFFICES ASSUME Bad # {} PROVE FALSE
  OBVIOUS
<1>1. PICK s \in Bad : \A r \in Bad : Size(n)[s] <= Size(n)[r]
  <2>1. Bad \in SUBSET D /\ Size(n) \in [D -> Nat]
    BY SizeRanks
  <2> HIDE DEF Bad, D
  <2> QED BY <2>1, LeastRank
<1>2. s \in SUBSET (1 .. n) /\ s # {}
  BY <1>1
<1>3. /\ Rest(s) \in D /\ Size(n)[Rest(s)] < Size(n)[s]
      /\ Size(n)[Rest(s)] \in Nat /\ Size(n)[s] \in Nat
  BY <1>2, LastTaken
<1>5. Rest(s) \notin Bad
  <2> HIDE DEF Bad
  <2> QED BY <1>1, <1>3
<1> QED BY <1>1, <1>2, <1>3, <1>5

\* f is the fold of G over c from base, and there are types for it to have.
Folds(f, G, base, c, n) ==
    \A s \in SUBSET (1 .. n) :
        f[s] = IF s = {} THEN base ELSE G[<<f[Rest(s)], c[Max(s)]>>]

Foldable(T, E, G, base, c, n) ==
    base \in T /\ G \in [T \X E -> T] /\ n \in Nat /\ c \in [1 .. n -> E]

\* The fold of a function over a sequence is there.
LEMMA FoldThere ==
    ASSUME NEW T, NEW E, NEW G, NEW base, NEW c, NEW n, Foldable(T, E, G, base, c, n)
    PROVE  \E f \in [SUBSET (1 .. n) -> T] : Folds(f, G, base, c, n)
<1> USE DEF Foldable
<1> DEFINE D == SUBSET (1 .. n)
           Body(g, s) == IF s = {} THEN base ELSE G[<<g[Rest(s)], c[Max(s)]>>]
           F == [g \in [D -> T] |-> [s \in D |-> Body(g, s)]]
<1>1. ASSUME NEW s \in D, s # {}
      PROVE  c[Max(s)] \in E /\ Rest(s) \in D /\ Size(n)[Rest(s)] < Size(n)[s]
  BY <1>1, LastTaken
<1>2. F \in [[D -> T] -> [D -> T]]
  BY <1>1
<1>3. Local(D, T, Size(n), F)
  BY <1>1 DEF Local
<1>4. Size(n) \in [D -> Nat] /\ T # {}
  BY SizeRanks
<1>5. Solved(D, T, F)
  <2> HIDE DEF D, F
  <2>1. Descends(D, T, Size(n), F)
    BY <1>2, <1>3, <1>4 DEF Descends
  <2> QED BY <2>1, Recursion
<1>6. PICK f \in [D -> T] : f = F[f]
  BY <1>5 DEF Solved
<1>7. ASSUME NEW s \in D PROVE f[s] = Body(f, s)
  BY <1>6
<1> QED BY <1>7 DEF Folds

\* Adding up conclusions of a set that Or does not leave does not leave it either.
LEMMA FoldOr ==
    ASSUME NEW T \in SUBSET Conclusion, "UNSET" \in T, \A c, d \in T : Or(c, d) \in T,
           NEW cs \in Seq(T)
    PROVE  FoldLeft(Or, "UNSET", cs) \in T
<1> DEFINE n == Len(cs)
           Body(g, s) == IF s = {} THEN "UNSET" ELSE Or(g[Rest(s)], cs[Max(s)])
           iter == CHOOSE f : f = [s \in SUBSET (DOMAIN cs) |-> Body(f, s)]
<1>1. DOMAIN cs = 1 .. n /\ n \in Nat /\ cs \in [1 .. n -> T]
  OBVIOUS
<1>2. FoldLeft(Or, "UNSET", cs) = iter[DOMAIN cs]
  BY Zenon DEF FoldLeft, MapThenFoldSet, Rest
<1> HIDE DEF n, iter
<1>3. \E f : f = [s \in SUBSET (1 .. n) |-> Body(f, s)]
  <2> DEFINE G == [p \in T \X T |-> Or(p[1], p[2])]
  <2>1. G \in [T \X T -> T]
    OBVIOUS
  <2> HIDE DEF G
  <2>2. PICK f \in [SUBSET (1 .. n) -> T] : Folds(f, G, "UNSET", cs, n)
    <3>1. Foldable(T, T, G, "UNSET", cs, n)
      BY <1>1, <2>1 DEF Foldable
    <3> QED BY <3>1, FoldThere
  <2>3. ASSUME NEW s \in SUBSET (1 .. n) PROVE f[s] = Body(f, s)
    <3>1. CASE s # {}
      <4>1. f[Rest(s)] \in T /\ cs[Max(s)] \in T
        BY <1>1, <3>1, LastTaken
      <4> QED BY <4>1, <3>1, <2>2 DEF Folds, G
    <3> QED BY <3>1, <2>2 DEF Folds
  <2> QED BY <2>3
<1>4. iter = [s \in SUBSET (1 .. n) |-> Body(iter, s)]
  <2> HIDE DEF Body
  <2> QED BY <1>1, <1>3, Zenon DEF iter
<1>5. iter[{}] \in T
  BY <1>4
<1>6. ASSUME NEW s \in SUBSET (1 .. n), s # {}, iter[Rest(s)] \in T PROVE iter[s] \in T
  BY <1>1, <1>4, <1>6, LastTaken
<1>7. \A s \in SUBSET (1 .. n) : iter[s] \in T
  BY <1>1, <1>5, <1>6, FoldKeeps
<1> QED BY <1>1, <1>2, <1>7

-----------------------------------------------------------------------------
(***************************************************************************)
(* StrongestStands is not inductive: of a document in which nothing strong *)
(* has been said yet it must be known that the conclusion is not strong,   *)
(* and where nothing has been said at all, that it is unset.               *)
(***************************************************************************)
ConclusionInductive ==
    /\ conclusion \in Conclusion
    /\ held \in Seq(Conclusion)
    /\ StrongestStands
    /\ StrongSaid(held) = {} => conclusion \notin Strong
    /\ StrongSaid(held) = {} /\ WeakSaid(held) = {} => conclusion = "UNSET"

\* What has been said once one more statement held.
LEMMA ToSetAppend ==
    ASSUME NEW h \in Seq(Conclusion), NEW d \in Conclusion
    PROVE  /\ Append(h, d) \in Seq(Conclusion)
           /\ ToSet(Append(h, d)) = ToSet(h) \cup {d}
<1>1. /\ Append(h, d) \in Seq(Conclusion)
      /\ Len(h) \in Nat
      /\ DOMAIN h = 1 .. Len(h)
      /\ DOMAIN Append(h, d) = 1 .. Len(h) + 1
  OBVIOUS
<1>2. /\ \A i \in 1 .. Len(h) : Append(h, d)[i] = h[i]
      /\ Append(h, d)[Len(h) + 1] = d
  OBVIOUS
<1>3. 1 .. Len(h) + 1 = (1 .. Len(h)) \cup {Len(h) + 1}
  BY <1>1
<1>4. {Append(h, d)[i] : i \in 1 .. Len(h) + 1} = {h[i] : i \in 1 .. Len(h)} \cup {d}
  BY <1>2, <1>3, Zenon
<1> QED BY <1>1, <1>4 DEF ToSet

\* What has been said once one more conclusion is.
LEMMA SaidAppend ==
    ASSUME NEW h \in Seq(Conclusion), NEW d \in Conclusion
    PROVE  /\ StrongSaid(Append(h, d)) = StrongSaid(h) \cup ({d} \cap Strong)
           /\ WeakSaid(Append(h, d)) = WeakSaid(h) \cup ({d} \cap {"OK", "NG"})
  BY ToSetAppend DEF StrongSaid, WeakSaid

\* A document begins with nothing said.
LEMMA NothingSaid ==
    /\ <<>> \in Seq(Conclusion)
    /\ StrongSaid(<<>>) = {}
    /\ WeakSaid(<<>>) = {}
  BY DEF StrongSaid, WeakSaid, ToSet

\* Or of two conclusions is one.
LEMMA OrType ==
    ASSUME NEW c \in Conclusion, NEW d \in Conclusion
    PROVE  Or(c, d) \in Conclusion
  BY DEF Or, Conclusion

\* Each word emitted is parsed to a conclusion.
LEMMA EmitType == ASSUME NEW s \in Emit PROVE ParseConclusion(s) \in Conclusion
  BY DEF Emit, ParseConclusion, Conclusion

(***************************************************************************)
(* Conclusion.Or, by what its arguments are: a strong word is not changed  *)
(* by weak ones nor by itself, and unset is neutral.                       *)
(***************************************************************************)
LEMMA OrStrong ==
    ASSUME NEW c \in Strong, NEW d \in Conclusion, d \in Strong => d = c
    PROVE  Or(c, d) = c
  BY DEF Or, Opposed, Strong, Conclusion

\* A strong word replaces one that is not.
LEMMA OrNewStrong ==
    ASSUME NEW c \in Conclusion \ Strong, NEW d \in Strong
    PROVE  Or(c, d) = d
  BY DEF Or, Opposed, Strong, Conclusion

\* Weak words stay weak; unset is neutral on either side.
LEMMA OrWeak ==
    ASSUME NEW c \in Conclusion \ Strong, NEW d \in Conclusion \ Strong
    PROVE  /\ Or(c, d) \notin Strong
           /\ c = "UNSET" => Or(c, d) = d
           /\ d \in {c, "UNSET"} => Or(c, d) = c
  BY DEF Or, Opposed, Strong, Conclusion

\* A statement says its word.
LEMMA EmittedKeeps ==
    ASSUME ConclusionInductive, NEW s \in Emit, Emitted(s)
    PROVE  ConclusionInductive'
<1> DEFINE d == ParseConclusion(s)
<1>1. d \in Conclusion
  BY EmitType
<1>2. held' = Append(held, d) /\ conclusion' = Or(conclusion, d)
  BY DEF Emitted
<1>3. conclusion \in Conclusion /\ held \in Seq(Conclusion)
  BY DEF ConclusionInductive
<1>4. held' \in Seq(Conclusion) /\ conclusion' \in Conclusion
  BY <1>1, <1>2, <1>3, ToSetAppend, OrType
<1>5. /\ StrongSaid(held') = StrongSaid(held) \cup ({d} \cap Strong)
      /\ WeakSaid(held') = WeakSaid(held) \cup ({d} \cap {"OK", "NG"})
  BY <1>1, <1>2, <1>3, SaidAppend
<1> HIDE DEF d
<1>6. ASSUME NEW c \in Strong, StrongSaid(held') = {c} PROVE conclusion' = c
  <2>1. d \in Strong => d = c
    BY <1>5, <1>6
  <2>2. CASE StrongSaid(held) = {c}
    <3>1. conclusion = c
      BY <2>2 DEF ConclusionInductive, StrongestStands
    <3> QED BY <3>1, <2>1, <1>1, <1>2, OrStrong
  <2>3. CASE StrongSaid(held) = {}
    <3>1. conclusion \in Conclusion \ Strong
      BY <2>3, <1>3 DEF ConclusionInductive
    <3>2. d = c
      BY <2>3, <1>5, <1>6
    <3> QED BY <3>1, <3>2, <1>2, OrNewStrong
  <2> QED BY <2>2, <2>3, <1>5, <1>6
<1>7. ASSUME StrongSaid(held') = {}
      PROVE  /\ StrongSaid(held) = {}
             /\ conclusion \in Conclusion \ Strong
             /\ d \in Conclusion \ Strong
  <2>1. StrongSaid(held) = {} /\ d \notin Strong
    BY <1>5, <1>7
  <2> QED BY <2>1, <1>1, <1>3 DEF ConclusionInductive
<1>8. ASSUME NEW c \in {"OK", "NG"}, StrongSaid(held') = {}, WeakSaid(held') = {c}
      PROVE  conclusion' = c
  <2>1. d \in {c, "UNSET"}
    BY <1>5, <1>7, <1>8 DEF Conclusion, Strong
  <2>2. CASE WeakSaid(held) = {c}
    <3>1. conclusion = c
      BY <2>2, <1>7, <1>8 DEF ConclusionInductive, StrongestStands
    <3> QED BY <3>1, <2>1, <1>2, <1>7, <1>8, OrWeak
  <2>3. CASE WeakSaid(held) = {}
    <3>1. conclusion = "UNSET"
      BY <2>3, <1>7, <1>8 DEF ConclusionInductive
    <3>2. d = c
      BY <2>1, <2>3, <1>5, <1>8
    <3> QED BY <3>1, <3>2, <1>2, <1>7, <1>8, OrWeak
  <2> QED BY <2>2, <2>3, <1>5, <1>8
<1>9. ASSUME StrongSaid(held') = {} PROVE conclusion' \notin Strong
  BY <1>7, <1>9, <1>2, OrWeak
<1>10. ASSUME StrongSaid(held') = {}, WeakSaid(held') = {} PROVE conclusion' = "UNSET"
  <2>1. WeakSaid(held) = {} /\ d = "UNSET"
    BY <1>5, <1>7, <1>10 DEF Conclusion, Strong
  <2>2. conclusion = "UNSET"
    BY <2>1, <1>7, <1>10 DEF ConclusionInductive
  <2> QED BY <2>1, <2>2, <1>2, <1>7, <1>10, OrWeak
<1>11. StrongestStands'
  BY <1>6, <1>8 DEF StrongestStands
<1> QED BY <1>4, <1>9, <1>10, <1>11 DEF ConclusionInductive

\* Where neither changes, or a document begins.
LEMMA UnsaidKeeps ==
    ASSUME ConclusionInductive, UNCHANGED <<conclusion, held>>
    PROVE  ConclusionInductive'
  BY DEF ConclusionInductive, StrongestStands, StrongSaid, WeakSaid

\* The evaluation of a document begins so.
LEMMA BeginHolds ==
    ASSUME conclusion = "UNSET", held = <<>>
    PROVE  ConclusionInductive
  BY NothingSaid DEF ConclusionInductive, StrongestStands, Conclusion, Strong

\* Every step keeps it.
LEMMA InductiveStep ==
    ASSUME ConclusionInductive, [Next]_vars
    PROVE  ConclusionInductive'
<1>1. ASSUME NEW c \in Condition, Statement(c) PROVE ConclusionInductive'
  BY <1>1, UnsaidKeeps DEF Statement
<1>2. CASE Passed
  BY <1>2, UnsaidKeeps DEF Passed
<1>3. ASSUME NEW s \in Emit, Emitted(s) PROVE ConclusionInductive'
  BY <1>3, EmittedKeeps
<1>4. CASE Panics
  BY <1>4, UnsaidKeeps DEF Panics
<1>5. CASE EndDocument
  <2>1. conclusion' = "UNSET" /\ held' = <<>>
    BY <1>5 DEF EndDocument
  <2> QED BY <2>1, NothingSaid DEF ConclusionInductive, StrongestStands, Conclusion, Strong
<1>6. ASSUME NEW b \in BOOLEAN, Answer(b) PROVE ConclusionInductive'
  BY <1>6, UnsaidKeeps DEF Answer
<1>7. CASE UNCHANGED vars
  BY <1>7, UnsaidKeeps DEF vars
<1> QED BY <1>1, <1>2, <1>3, <1>4, <1>5, <1>6, <1>7 DEF Next

(***************************************************************************)
(* For every set of conditions, every context and any number of statements *)
(* in any order, an allow or a deny that nothing opposes is what           *)
(* EvaluatePolicy concludes, and an ok or an ng alone stands, too.         *)
(***************************************************************************)
THEOREM StrongestStandsAlways == Spec => []StrongestStands
<1>1. Init => ConclusionInductive
  BY BeginHolds DEF Init
<1>2. ConclusionInductive /\ [Next]_vars => ConclusionInductive'
  BY InductiveStep
<1>3. ConclusionInductive => StrongestStands
  BY DEF ConclusionInductive
<1> QED BY <1>1, <1>2, <1>3, PTL DEF Spec


-----------------------------------------------------------------------------
(***************************************************************************)
(* The answer.  What a document's conclusion says of its statements: an    *)
(* ALLOW that the last strong word was one, a DENY that one was said, a    *)
(* weak conclusion that a weak word was; and what StrongestStands says.    *)
(***************************************************************************)
Concluded(c, h) ==
    /\ c = "ALLOW" => EndsInAllow(h)
    /\ c = "DENY" => "DENY" \in ToSet(h)
    /\ c \in {"OK", "NG"} => WeakSaid(h) # {}
    /\ \A d \in Strong : StrongSaid(h) = {d} => c = d

AnswerInductive ==
    /\ TypeOK /\ ConclusionInductive
    /\ Concluded(conclusion, held)
    /\ Len(conclusions) = Len(heldBefore)
    /\ \A i \in 1 .. Len(conclusions) : Concluded(conclusions[i], heldBefore[i])
    /\ answer \in {"yes", "no"} => (answer = "yes" <=> Summary(conclusions, default))
    /\ answer = "panic" => condition \in Condition /\ Eval[condition] = Panic

\* Or allows, denies or says something weak only if one of its arguments does.
LEMMA OrOwed ==
    ASSUME NEW c \in Conclusion, NEW d \in Conclusion
    PROVE  /\ Or(c, d) = "ALLOW" => d = "ALLOW" \/ (c = "ALLOW" /\ d # "DENY")
           /\ Or(c, d) = "DENY" => "DENY" \in {c, d}
           /\ Or(c, d) \in {"OK", "NG"} => {c, d} \cap {"OK", "NG"} # {}
  BY DEF Or, Opposed, Strong, Conclusion

\* The last strong word after one more.
LEMMA EndsAppend ==
    ASSUME NEW h \in Seq(Conclusion), NEW d \in Conclusion,
           d = "ALLOW" \/ (EndsInAllow(h) /\ d # "DENY")
    PROVE  EndsInAllow(Append(h, d))
<1> DEFINE g == Append(h, d)
<1>1. /\ Len(h) \in Nat /\ DOMAIN h = 1 .. Len(h)
      /\ DOMAIN g = 1 .. Len(h) + 1 /\ Len(g) = Len(h) + 1
      /\ g[Len(h) + 1] = d
      /\ \A i \in 1 .. Len(h) : g[i] = h[i]
  OBVIOUS
<1> HIDE DEF g
<1>2. CASE d = "ALLOW"
  <2>1. Len(h) + 1 \in DOMAIN g /\ \A j \in Len(h) + 2 .. Len(g) : g[j] # "DENY"
    BY <1>1
  <2> QED BY <2>1, <1>1, <1>2 DEF EndsInAllow, g
<1>3. CASE EndsInAllow(h) /\ d # "DENY"
  <2>1. PICK i \in 1 .. Len(h) : h[i] = "ALLOW" /\ \A j \in i + 1 .. Len(h) : h[j] # "DENY"
    BY <1>1, <1>3 DEF EndsInAllow
  <2>2. ASSUME NEW j \in i + 1 .. Len(h) + 1 PROVE g[j] # "DENY"
    <3>1. j \in i + 1 .. Len(h) \/ j = Len(h) + 1
      BY <1>1
    <3> QED BY <3>1, <2>1, <1>1, <1>3
  <2>3. i \in DOMAIN g /\ g[i] = "ALLOW"
    BY <2>1, <1>1
  <2> QED BY <2>2, <2>3, <1>1 DEF EndsInAllow, g
<1> QED BY <1>2, <1>3

\* One more statement that holds.
LEMMA EmittedConcluded ==
    ASSUME AnswerInductive, NEW s \in Emit, Emitted(s)
    PROVE  Concluded(conclusion', held')
<1> DEFINE d == ParseConclusion(s)
<1>1. d \in Conclusion /\ held' = Append(held, d) /\ conclusion' = Or(conclusion, d)
  BY EmitType DEF Emitted
<1>2. /\ conclusion \in Conclusion /\ held \in Seq(Conclusion)
      /\ Concluded(conclusion, held) /\ ConclusionInductive'
  BY EmittedKeeps DEF AnswerInductive, ConclusionInductive
<1> HIDE DEF d
<1>3. /\ ToSet(held') = ToSet(held) \cup {d}
      /\ WeakSaid(held') = WeakSaid(held) \cup ({d} \cap {"OK", "NG"})
  BY <1>1, <1>2, ToSetAppend, SaidAppend
<1>4. conclusion' = "ALLOW" => EndsInAllow(held')
  BY <1>1, <1>2, OrOwed, EndsAppend DEF Concluded
<1>5. conclusion' = "DENY" => "DENY" \in ToSet(held')
  BY <1>1, <1>2, <1>3, OrOwed DEF Concluded
<1>6. conclusion' \in {"OK", "NG"} => WeakSaid(held') # {}
  BY <1>1, <1>2, <1>3, OrOwed DEF Concluded
<1>7. \A c \in Strong : StrongSaid(held') = {c} => conclusion' = c
  BY <1>2 DEF ConclusionInductive, StrongestStands, StrongSaid
<1> QED BY <1>4, <1>5, <1>6, <1>7 DEF Concluded

\* A document begins with nothing concluded.
LEMMA NothingConcluded == Concluded("UNSET", <<>>)
  BY NothingSaid DEF Concluded, Strong

\* What does not touch the documents keeps what is known of them.
LEMMA DocumentsKept ==
    ASSUME AnswerInductive, UNCHANGED <<conclusion, conclusions, held, heldBefore>>
    PROVE  /\ ConclusionInductive' /\ Concluded(conclusion', held')
           /\ Len(conclusions') = Len(heldBefore')
           /\ \A i \in 1 .. Len(conclusions') : Concluded(conclusions'[i], heldBefore'[i])
  BY UnsaidKeeps DEF AnswerInductive

\* The types are kept.
LEMMA TypeStep == ASSUME TypeOK, [Next]_vars PROVE TypeOK'
<1>1. ASSUME NEW c \in Condition, Statement(c) PROVE TypeOK'
  BY <1>1 DEF Statement, TypeOK
<1>2. CASE Passed
  BY <1>2 DEF Passed, TypeOK
<1>3. ASSUME NEW s \in Emit, Emitted(s) PROVE TypeOK'
  <2>1. ParseConclusion(s) \in Conclusion /\ conclusion \in Conclusion
    BY EmitType DEF TypeOK
  <2>2. Or(conclusion, ParseConclusion(s)) \in Conclusion
    BY <2>1, OrType
  <2>3. Append(held, ParseConclusion(s)) \in Seq(Conclusion)
    BY <2>1 DEF TypeOK
  <2> QED BY <1>3, <2>2, <2>3 DEF Emitted, TypeOK
<1>4. CASE Panics
  BY <1>4 DEF Panics, TypeOK
<1>5. CASE EndDocument
  BY <1>5, NothingSaid DEF EndDocument, TypeOK, Conclusion
<1>6. ASSUME NEW b \in BOOLEAN, Answer(b) PROVE TypeOK'
  BY <1>6 DEF Answer, TypeOK
<1>7. CASE UNCHANGED vars
  BY <1>7 DEF vars, TypeOK
<1> QED BY <1>1, <1>2, <1>3, <1>4, <1>5, <1>6, <1>7 DEF Next

\* Every step keeps what is known of documents and answer.
LEMMA AnswerStep ==
    ASSUME AnswerInductive, [Next]_vars
    PROVE  AnswerInductive'
<1>0. TypeOK' /\ (answer \in {"yes", "no"} => (answer = "yes" <=> Summary(conclusions, default)))
  BY TypeStep DEF AnswerInductive
<1>1. ASSUME NEW c \in Condition, Statement(c) PROVE AnswerInductive'
  <2>1. UNCHANGED <<conclusion, conclusions, held, heldBefore>> /\ answer' = "none"
    BY <1>1 DEF Statement
  <2> QED BY <2>1, <1>0, DocumentsKept DEF AnswerInductive
<1>2. CASE Passed
  <2>1. UNCHANGED <<conclusion, conclusions, held, heldBefore>> /\ answer' = "none"
    BY <1>2 DEF Passed
  <2> QED BY <2>1, <1>0, DocumentsKept DEF AnswerInductive
<1>3. ASSUME NEW s \in Emit, Emitted(s) PROVE AnswerInductive'
  <2>1. ConclusionInductive' /\ Concluded(conclusion', held')
    BY <1>3, EmittedKeeps, EmittedConcluded DEF AnswerInductive
  <2>2. UNCHANGED <<conclusions, heldBefore>> /\ answer' = "none"
    BY <1>3 DEF Emitted
  <2> QED BY <2>1, <2>2, <1>0 DEF AnswerInductive
<1>4. CASE Panics
  <2>1. /\ UNCHANGED <<conclusion, conclusions, held, heldBefore, condition>>
        /\ answer' = "panic" /\ condition # Idle /\ Eval[condition] = Panic
    BY <1>4 DEF Panics
  <2>2. condition \in Condition
    BY <2>1 DEF AnswerInductive, TypeOK
  <2> QED BY <2>1, <2>2, <1>0, DocumentsKept DEF AnswerInductive
<1>5. CASE EndDocument
  <2>1. /\ conclusions' = Append(conclusions, conclusion)
        /\ heldBefore' = Append(heldBefore, held)
        /\ conclusion' = "UNSET" /\ held' = <<>> /\ answer' = "none"
    BY <1>5 DEF EndDocument
  <2>2. /\ conclusions \in Seq(Conclusion) /\ heldBefore \in Seq(Seq(Conclusion))
        /\ Len(conclusions) = Len(heldBefore)
    BY DEF AnswerInductive, TypeOK
  <2>3. ASSUME NEW i \in 1 .. Len(conclusions')
        PROVE  Concluded(conclusions'[i], heldBefore'[i])
    <3>1. CASE i = Len(conclusions) + 1
      <4>1. conclusions'[i] = conclusion /\ heldBefore'[i] = held
        BY <3>1, <2>1, <2>2
      <4> QED BY <4>1 DEF AnswerInductive
    <3>2. CASE i \in 1 .. Len(conclusions)
      <4>1. conclusions'[i] = conclusions[i] /\ heldBefore'[i] = heldBefore[i]
        BY <3>2, <2>1, <2>2
      <4> QED BY <4>1, <3>2 DEF AnswerInductive
    <3> QED BY <3>1, <3>2, <2>1, <2>2
  <2>4. ConclusionInductive' /\ Concluded(conclusion', held')
    BY <1>5, <2>1, InductiveStep, NothingConcluded DEF AnswerInductive, Next
  <2>5. Len(conclusions') = Len(heldBefore')
    BY <2>1, <2>2
  <2> QED BY <2>1, <2>3, <2>4, <2>5, <1>0 DEF AnswerInductive
<1>6. ASSUME NEW b \in BOOLEAN, Answer(b) PROVE AnswerInductive'
  <2>1. /\ UNCHANGED <<conclusion, conclusions, held, heldBefore>> /\ default' = b
        /\ answer' = IF Summary(conclusions, b) THEN "yes" ELSE "no"
    BY <1>6 DEF Answer
  <2> QED BY <2>1, <1>0, DocumentsKept DEF AnswerInductive
<1>7. CASE UNCHANGED vars
  <2>1. UNCHANGED <<conclusion, conclusions, held, heldBefore, answer, default, condition>>
    BY <1>7 DEF vars
  <2> QED BY <2>1, <1>0, DocumentsKept DEF AnswerInductive
<1> QED BY <1>1, <1>2, <1>3, <1>4, <1>5, <1>6, <1>7 DEF Next

\* The first of some indices.
LEMMA First ==
    ASSUME NEW n \in Nat, NEW S \in SUBSET (1 .. n), S # {}
    PROVE  FirstIn(S) \in S /\ \A j \in S : FirstIn(S) <= j
<1>1. S \in SUBSET Nat
  OBVIOUS
<1>2. PICK i \in S : \A j \in S : i <= j
  BY <1>1, LeastNumber
<1> QED BY <1>2 DEF FirstIn

\* The documents' strong conclusions, in AnswerEarned and in Summary.
Decisive(cs) == {i \in DOMAIN cs : cs[i] \in Strong}

\* A sum of conclusions none of which is strong is not strong.
LEMMA WeakSum ==
    ASSUME NEW cs \in Seq(Conclusion), Decisive(cs) = {}
    PROVE  FoldLeft(Or, "UNSET", cs) \notin Strong
<1> DEFINE T == Conclusion \ Strong
<1>1. T \in SUBSET Conclusion /\ "UNSET" \in T
  BY DEF Conclusion, Strong
<1>2. \A c, d \in T : Or(c, d) \in T
  BY OrWeak, OrType
<1>3. cs \in Seq(T)
  <2>1. Len(cs) \in Nat /\ DOMAIN cs = 1 .. Len(cs) /\ \A i \in 1 .. Len(cs) : cs[i] \in T
    BY DEF Decisive
  <2>2. cs = [i \in 1 .. Len(cs) |-> cs[i]]
    OBVIOUS
  <2>3. cs \in [1 .. Len(cs) -> T]
    BY <2>1, <2>2
  <2> HIDE DEF T
  <2> QED BY <2>1, <2>3, SeqDef
<1> HIDE DEF T
<1>4. FoldLeft(Or, "UNSET", cs) \in T
  BY <1>1, <1>2, <1>3, FoldOr
<1> QED BY <1>4 DEF T

\* Conclusions that are all unset add up to nothing.
LEMMA UnsetSum ==
    ASSUME NEW cs \in Seq(Conclusion), \A i \in 1 .. Len(cs) : cs[i] = "UNSET"
    PROVE  FoldLeft(Or, "UNSET", cs) = "UNSET"
<1> DEFINE T == {"UNSET"}
<1>1. T \in SUBSET Conclusion /\ "UNSET" \in T /\ \A c, d \in T : Or(c, d) \in T
  BY DEF Conclusion, Or
<1>2. cs \in Seq(T)
  <2>1. Len(cs) \in Nat /\ cs \in [1 .. Len(cs) -> T]
    OBVIOUS
  <2> HIDE DEF T
  <2> QED BY <2>1, SeqDef
<1> HIDE DEF T
<1>3. FoldLeft(Or, "UNSET", cs) \in T
  BY <1>1, <1>2, FoldOr
<1> QED BY <1>3 DEF T

\* One strong word alone.
LEMMA SaidAlone ==
    ASSUME NEW h, Cardinality(StrongSaid(h)) = 1
    PROVE  \E d \in Strong : StrongSaid(h) = {d}
<1>1. IsFiniteSet({"ALLOW", "DENY"}) /\ StrongSaid(h) \subseteq {"ALLOW", "DENY"}
  <2>1. IsFiniteSet({"ALLOW"})
    BY FS_Singleton
  <2>2. IsFiniteSet({"ALLOW"} \cup {"DENY"})
    BY <2>1, FS_AddElement
  <2>3. {"ALLOW", "DENY"} = {"ALLOW"} \cup {"DENY"}
    OBVIOUS
  <2> QED BY <2>2, <2>3 DEF StrongSaid, Strong
<1>2. IsFiniteSet(StrongSaid(h))
  BY <1>1, FS_Subset
<1>3. PICK d : StrongSaid(h) = {d}
  BY <1>2, FS_Singleton
<1> QED BY <1>3 DEF StrongSaid

\* A yes has its reason.
LEMMA YesEarned ==
    ASSUME AnswerInductive, answer = "yes"
    PROVE  \/ \E i \in DOMAIN heldBefore :
                 /\ EndsInAllow(heldBefore[i])
                 /\ \A j \in 1 .. i - 1 : StrongSaid(heldBefore[j]) # {"DENY"}
           \/ /\ default
              /\ \A i \in DOMAIN heldBefore : Cardinality(StrongSaid(heldBefore[i])) # 1
<1> DEFINE n == Len(conclusions)  S == Decisive(conclusions)
<1>1. /\ n \in Nat /\ DOMAIN conclusions = 1 .. n /\ DOMAIN heldBefore = 1 .. n
      /\ \A i \in 1 .. n : Concluded(conclusions[i], heldBefore[i])
      /\ conclusions \in Seq(Conclusion) /\ Summary(conclusions, default)
      /\ default \in BOOLEAN
  BY DEF AnswerInductive, TypeOK
<1>2. S \in SUBSET (1 .. n)
  BY <1>1 DEF Decisive
<1>3. CASE S # {}
  <2> DEFINE i == FirstIn(S)
  <2>1. i \in S /\ \A j \in S : i <= j
    BY <1>1, <1>2, <1>3, First
  <2>2. conclusions[i] = "ALLOW"
    BY <1>1, <1>3 DEF Summary, Decisive
  <2>3. i \in 1 .. n /\ EndsInAllow(heldBefore[i])
    BY <1>1, <1>2, <2>1, <2>2 DEF Concluded
  <2>4. ASSUME NEW j \in 1 .. i - 1 PROVE StrongSaid(heldBefore[j]) # {"DENY"}
    <3>1. j \in 1 .. n /\ j \notin S
      BY <1>1, <2>1, <2>3
    <3>2. conclusions[j] # "DENY"
      BY <1>1, <3>1 DEF Decisive, Strong
    <3> QED BY <1>1, <3>1, <3>2 DEF Concluded, Strong
  <2> QED BY <1>1, <2>3, <2>4
<1>4. CASE S = {}
  <2>1. default
    BY <1>1, <1>4, WeakSum DEF Summary, Decisive, Strong
  <2>2. ASSUME NEW i \in DOMAIN heldBefore PROVE Cardinality(StrongSaid(heldBefore[i])) # 1
    BY <1>1, <1>4, SaidAlone DEF Concluded, Decisive
  <2> QED BY <2>1, <2>2
<1> QED BY <1>3, <1>4

\* A no that nobody denied has its reason.
LEMMA NoEarned ==
    ASSUME AnswerInductive, answer = "no",
           \A i \in DOMAIN heldBefore : "DENY" \notin ToSet(heldBefore[i])
    PROVE  ~default \/ \E i \in DOMAIN heldBefore : WeakSaid(heldBefore[i]) # {}
<1> DEFINE n == Len(conclusions)  S == Decisive(conclusions)
<1>1. /\ n \in Nat /\ DOMAIN conclusions = 1 .. n /\ DOMAIN heldBefore = 1 .. n
      /\ \A i \in 1 .. n : Concluded(conclusions[i], heldBefore[i])
      /\ conclusions \in Seq(Conclusion) /\ ~Summary(conclusions, default)
  BY DEF AnswerInductive, TypeOK
<1>2. ASSUME NEW i \in 1 .. n PROVE conclusions[i] # "DENY" /\ conclusions[i] \in Conclusion
  BY <1>1 DEF Concluded
<1>3. S = {}
  <2>1. SUFFICES ASSUME S # {} PROVE FALSE
    OBVIOUS
  <2>2. S \in SUBSET (1 .. n)
    BY <1>1 DEF Decisive
  <2>3. FirstIn(S) \in S
    BY <1>1, <2>1, <2>2, First
  <2>4. conclusions[FirstIn(S)] = "ALLOW"
    BY <1>2, <2>2, <2>3 DEF Decisive, Strong
  <2> QED BY <1>1, <2>1, <2>4 DEF Summary, Decisive
<1>4. ASSUME default PROVE \E i \in 1 .. n : conclusions[i] # "UNSET"
  <2>1. FoldLeft(Or, "UNSET", conclusions) # "UNSET"
    BY <1>1, <1>3, <1>4 DEF Summary, Decisive
  <2> QED BY <1>1, <2>1, UnsetSum
<1>5. ASSUME NEW i \in 1 .. n, conclusions[i] # "UNSET" PROVE WeakSaid(heldBefore[i]) # {}
  <2>1. conclusions[i] \in {"OK", "NG"}
    BY <1>1, <1>2, <1>3, <1>5 DEF Decisive, Strong, Conclusion
  <2> QED BY <1>1, <2>1 DEF Concluded
<1> QED BY <1>1, <1>4, <1>5

\* Nothing said, nothing answered.
LEMMA AnswerInit == ASSUME Init PROVE AnswerInductive
<1>1. TypeOK
  <2>1. <<>> \in Seq(Conclusion) /\ <<>> \in Seq(Seq(Conclusion)) /\ FALSE \in BOOLEAN
    OBVIOUS
  <2> QED BY <2>1 DEF Init, TypeOK, Conclusion
<1>2. ConclusionInductive /\ Concluded(conclusion, held)
  BY BeginHolds, NothingConcluded DEF Init
<1> QED BY <1>1, <1>2 DEF Init, AnswerInductive

\* What is known of documents, of the answer and of a panic always holds.
THEOREM AnswerInductiveAlways == Spec => []AnswerInductive
<1>1. Init => AnswerInductive
  BY AnswerInit
<1>2. AnswerInductive /\ [Next]_vars => AnswerInductive'
  BY AnswerStep
<1> QED BY <1>1, <1>2, PTL DEF Spec

(***************************************************************************)
(* For any number of documents and statements: a yes is owed to an allow   *)
(* that was the last strong word of a document, or to the default; a no    *)
(* that nobody denied to the default or to a weak word                     *)
(* (SummerizeConclusion over the conclusions of EvaluatePolicy).           *)
(***************************************************************************)
THEOREM AnswerEarnedAlways == Spec => []AnswerEarned
<1>1. AnswerInductive => AnswerEarned
  BY YesEarned, NoEarned DEF AnswerEarned
<1> QED BY <1>1, AnswerInductiveAlways, PTL

\* Statements, conclusions and answers keep their types.
THEOREM TypeAlways == Spec => []TypeOK
<1>1. AnswerInductive => TypeOK
  BY DEF AnswerInductive
<1> QED BY <1>1, AnswerInductiveAlways, PTL

-----------------------------------------------------------------------------
(***************************************************************************)
(* Conditions.  An evaluation ends with a value, an error or a panic, and  *)
(* what is evaluated is a tree, so that of the expressions with some       *)
(* property there is one none of whose arguments has it.                   *)
(***************************************************************************)
Outcome == Value \cup {Error, Panic}

\* Some expression of a set has no argument in it.
LEMMA Innermost ==
    ASSUME NEW S \in SUBSET Expr, S # {}
    PROVE  \E e \in S : \A i \in DOMAIN e.args : e.args[i] \in Expr /\ e.args[i] \notin S
<1>1. Depth \in [Expr -> Nat]
  BY ExprAssumption
<1>2. PICK e \in S : \A d \in S : Depth[e] <= Depth[d]
  BY <1>1, LeastRank
<1>3. ASSUME NEW i \in DOMAIN e.args PROVE e.args[i] \in Expr /\ e.args[i] \notin S
  <2>1. e \in Expr /\ e.args[i] \in Expr /\ Depth[e.args[i]] < Depth[e]
    BY ExprAssumption
  <2>2. Depth[e.args[i]] \in Nat /\ Depth[e] \in Nat
    BY <2>1, <1>1
  <2> QED BY <1>2, <2>1, <2>2
<1> QED BY <1>3

\* Values, truths and failures.
LEMMA Outcomes ==
    /\ \A b \in BOOLEAN : Truth(b) \in Value
    /\ Error \in Outcome /\ Panic \in Outcome
    /\ Error # Panic /\ Error \notin Value /\ Panic \notin Value
    /\ Nil \in Value /\ Context \in Value
    /\ Truth(TRUE) # Truth(FALSE) /\ Truth(TRUE) # Nil /\ Truth(FALSE) # Nil
<1>1. Error # Panic
  BY DEF Error, Panic
<1>2. Truth(TRUE) # Truth(FALSE) /\ Truth(TRUE) # Nil /\ Truth(FALSE) # Nil
  BY DEF Truth, Nil
<1> QED BY <1>1, <1>2, ValueAssumption DEF Outcome

\* What values of each type hold.
LEMMA Contents ==
    ASSUME NEW v \in Value
    PROVE  /\ TypeOf(v) = "bool" => v \in {Truth(TRUE), Truth(FALSE)} /\ v[2] \in BOOLEAN
           /\ TypeOf(v) = "string" => Path[v[2]] \in Seq(STRING)
           /\ TypeOf(v) = "list" => v[2] \in Seq(Value)
           /\ TypeOf(v) = "map" => \A k \in DOMAIN v[2] : v[2][k] \in Value
<1>1. Truth(TRUE)[2] = TRUE /\ Truth(FALSE)[2] = FALSE
  BY DEF Truth
<1>2. TypeOf(v) = "bool" => v = Truth(TRUE) \/ v = Truth(FALSE)
  BY ValueAssumption
<1>3. TypeOf(v) = "bool" => v[2] \in BOOLEAN
  BY <1>1, <1>2, Zenon
<1> QED BY <1>2, <1>3, ValueAssumption

\* A dotted path leads to a value or nowhere.
LEMMA LoadType ==
    ASSUME NEW path \in Seq(STRING)
    PROVE  FoldLeft(Descend, Context, path) \in Value \cup {Error}
<1> DEFINE T == Value \cup {Error}
           n == Len(path)
           Body(g, s) == IF s = {} THEN Context ELSE Descend(g[Rest(s)], path[Max(s)])
           iter == CHOOSE f : f = [s \in SUBSET (DOMAIN path) |-> Body(f, s)]
<1>1. DOMAIN path = 1 .. n /\ n \in Nat /\ path \in [1 .. n -> STRING]
  OBVIOUS
<1>2. FoldLeft(Descend, Context, path) = iter[DOMAIN path]
  BY Zenon DEF FoldLeft, MapThenFoldSet, Rest
<1>3. Context \in T
  BY Outcomes
<1>4. ASSUME NEW v \in T, NEW key PROVE Descend(v, key) \in T
  <2>1. TypeOf(Error) # "map"
    BY DEF TypeOf, Error
  <2> QED BY <2>1, ValueAssumption DEF Descend
<1> HIDE DEF n, iter, T
<1>5. \E f : f = [s \in SUBSET (1 .. n) |-> Body(f, s)]
  <2> DEFINE G == [p \in T \X STRING |-> Descend(p[1], p[2])]
  <2>1. G \in [T \X STRING -> T]
    BY <1>4
  <2> HIDE DEF G
  <2>2. PICK f \in [SUBSET (1 .. n) -> T] : Folds(f, G, Context, path, n)
    <3>1. Foldable(T, STRING, G, Context, path, n)
      BY <1>1, <1>3, <2>1 DEF Foldable
    <3> QED BY <3>1, FoldThere
  <2>3. ASSUME NEW s \in SUBSET (1 .. n) PROVE f[s] = Body(f, s)
    <3>1. CASE s # {}
      <4>1. f[Rest(s)] \in T /\ path[Max(s)] \in STRING
        BY <1>1, <3>1, LastTaken
      <4> QED BY <4>1, <3>1, <2>2 DEF Folds, G
    <3> QED BY <3>1, <2>2 DEF Folds
  <2> QED BY <2>3
<1>6. iter = [s \in SUBSET (1 .. n) |-> Body(iter, s)]
  <2> HIDE DEF Body
  <2> QED BY <1>1, <1>5, Zenon DEF iter
<1>7. iter[{}] \in T
  BY <1>3, <1>6
<1>8. ASSUME NEW s \in SUBSET (1 .. n), s # {}, iter[Rest(s)] \in T PROVE iter[s] \in T
  BY <1>4, <1>6, <1>8
<1>9. \A s \in SUBSET (1 .. n) : iter[s] \in T
  BY <1>1, <1>7, <1>8, FoldKeeps
<1> QED BY <1>1, <1>2, <1>9 DEF T

\* A comparison is true or false, or panics where it may not be made.
LEMMA EqualType ==
    ASSUME NEW a, NEW b
    PROVE  /\ Equal(a, b) \in Outcome
           /\ Equal(a, b) = Panic => Incomparable(a, b)
<1>1. Truth(a = b) \in Value
  <2>1. (a = b) \in BOOLEAN
    OBVIOUS
  <2> QED BY <2>1, Outcomes
<1> QED BY <1>1, Outcomes DEF Equal, Outcome

\* What an operator gives for values; it panics only where two collections meet.
LEMMA ApplyType ==
    ASSUME NEW args \in Seq(Value), NEW op
    PROVE  /\ Apply(op, args) \in Outcome
           /\ Apply(op, args) = Panic =>
                 /\ Len(args) = 2
                 /\ \/ op = "Eq" /\ Incomparable(args[1], args[2])
                    \/ /\ op = "Contains" /\ TypeOf(args[1]) = "list"
                       /\ \E i \in DOMAIN args[1][2] : Incomparable(args[1][2][i], args[2])
<1>0. /\ Len(args) \in Nat /\ DOMAIN args = 1 .. Len(args)
      /\ \A i \in 1 .. Len(args) : args[i] \in Value
  OBVIOUS
<1>1. ASSUME NEW unit \in BOOLEAN
      PROVE  Junction(args, unit) \in Outcome /\ Junction(args, unit) # Panic
  <2>1. Truth(unit) \in Value /\ Truth(~unit) \in Value
    BY Outcomes
  <2>2. Junction(args, unit) \in {Truth(unit), Truth(~unit), Error}
    BY DEF Junction
  <2> QED BY <2>1, <2>2, Outcomes DEF Outcome
<1>2. opNot(args) \in Outcome /\ opNot(args) # Panic
  <2>1. CASE Len(args) = 1 /\ TypeOf(args[1]) = "bool"
    <3>1. args[1] \in Value
      BY <1>0, <2>1
    <3>2. args[1][2] \in BOOLEAN
      BY <2>1, <3>1, Contents
    <3>3. Truth(~args[1][2]) \in Value
      BY <3>2, Outcomes
    <3> QED BY <2>1, <3>3, Outcomes DEF opNot, Outcome
  <2> QED BY <2>1, Outcomes DEF opNot
<1>3. /\ opEq(args) \in Outcome
      /\ opEq(args) = Panic => Len(args) = 2 /\ Incomparable(args[1], args[2])
  BY EqualType, Outcomes DEF opEq
<1>4. /\ opContains(args) \in Outcome
      /\ opContains(args) = Panic =>
            /\ Len(args) = 2 /\ TypeOf(args[1]) = "list"
            /\ \E i \in DOMAIN args[1][2] : Incomparable(args[1][2][i], args[2])
  <2>1. CASE Len(args) # 2 \/ TypeOf(args[1]) # "list"
    BY <2>1, Outcomes DEF opContains
  <2>2. CASE Len(args) = 2 /\ TypeOf(args[1]) = "list"
    <3> DEFINE list == args[1][2]
               equal == [i \in DOMAIN list |-> Equal(list[i], args[2])]
               deciding == {i \in DOMAIN equal : equal[i] # Truth(FALSE)}
    <3>1. opContains(args) =
              IF deciding = {} THEN Truth(FALSE) ELSE equal[FirstIn(deciding)]
      BY <2>2, Zenon DEF opContains
    <3>5. args[1] \in Value
      BY <1>0, <2>2
    <3>2. list \in Seq(Value)
      BY <2>2, <3>5, Contents
    <3>6. Len(list) \in Nat /\ DOMAIN list = 1 .. Len(list)
      BY <3>2
    <3>3. deciding \in SUBSET (1 .. Len(list))
      BY <3>6
    <3>4. deciding # {} => FirstIn(deciding) \in DOMAIN list
      <4> HIDE DEF deciding
      <4>1. deciding # {} => FirstIn(deciding) \in deciding
        BY <3>3, <3>6, First
      <4> QED BY <4>1 DEF deciding
    <3> HIDE DEF deciding, list
    <3> QED BY <2>2, <3>1, <3>4, EqualType, Outcomes DEF Outcome, list
  <2> QED BY <2>1, <2>2
<1>5. opLoad(args) \in Outcome /\ opLoad(args) # Panic
  <2>1. CASE Len(args) = 1 /\ TypeOf(args[1]) = "string"
    <3>3. args[1] \in Value
      BY <1>0, <2>1
    <3>1. Path[args[1][2]] \in Seq(STRING)
      BY <2>1, <3>3, Contents
    <3>2. FoldLeft(Descend, Context, Path[args[1][2]]) \in Value \cup {Error}
      BY <3>1, LoadType
    <3> QED BY <2>1, <3>2, Outcomes DEF opLoad, Outcome
  <2> QED BY <2>1, Outcomes DEF opLoad
<1> QED BY <1>1, <1>2, <1>3, <1>4, <1>5, Outcomes DEF Apply

\* What is made of arguments: the first failure, or what the operator gives.
LEMMA ResultCases ==
    ASSUME NEW args \in Seq(Outcome), NEW op
    PROVE  /\ Result(op, args) \in Outcome
           /\ (\E i \in 1 .. Len(args) : Failed(args[i])) =>
                 \E i \in 1 .. Len(args) : Failed(args[i]) /\ Result(op, args) = args[i]
           /\ (\A i \in 1 .. Len(args) : ~Failed(args[i])) =>
                 args \in Seq(Value) /\ Result(op, args) = Apply(op, args)
<1> DEFINE n == Len(args)  failed == {i \in DOMAIN args : Failed(args[i])}
<1>1. n \in Nat /\ DOMAIN args = 1 .. n /\ \A i \in 1 .. n : args[i] \in Outcome
  OBVIOUS
<1>2. Result(op, args) = IF failed # {} THEN args[FirstIn(failed)] ELSE Apply(op, args)
  BY DEF Result
<1>3. failed \in SUBSET (1 .. n)
  BY <1>1
<1>4. CASE failed # {}
  <2>1. FirstIn(failed) \in failed
    <3> HIDE DEF failed, n
    <3> QED BY <1>1, <1>3, <1>4, First
  <2> QED BY <1>1, <1>2, <1>4, <2>1
<1>5. CASE failed = {}
  <2>1. ASSUME NEW i \in 1 .. n PROVE ~Failed(args[i]) /\ args[i] \in Value
    BY <1>1, <1>5 DEF Failed, Outcome
  <2>2. args \in Seq(Value)
    <3>1. args = [i \in 1 .. n |-> args[i]]
      OBVIOUS
    <3>2. args \in [1 .. n -> Value]
      BY <2>1, <3>1
    <3> QED BY <1>1, <3>2, SeqDef
  <2> QED BY <1>2, <1>5, <2>1, <2>2, ApplyType
<1> QED BY <1>4, <1>5

(***************************************************************************)
(* Eval, Subexpr and Holds are what their definitions say, at every        *)
(* expression: they descend in depth, so that Recursion has functions that *)
(* solve their equations, and a recursive definition chooses one.          *)
(***************************************************************************)
Args(f, e) == [i \in DOMAIN e.args |-> f[e.args[i]]]
EvalBody(f, e) == IF e.const # Nil THEN e.const ELSE Result(e.op, Args(f, e))

\* The arguments of an expression, evaluated.
LEMMA ArgsTyped ==
    ASSUME NEW T, NEW f \in [Expr -> T], NEW e \in Expr
    PROVE  /\ Args(f, e) \in Seq(T)
           /\ Len(Args(f, e)) = Len(e.args) /\ Len(e.args) \in Nat
           /\ DOMAIN e.args = 1 .. Len(e.args)
           /\ \A i \in 1 .. Len(e.args) :
                 e.args[i] \in Expr /\ Args(f, e)[i] = f[e.args[i]]
<1>1. e.args \in Seq(Expr)
  BY ExprAssumption
<1>2. /\ Len(e.args) \in Nat /\ DOMAIN e.args = 1 .. Len(e.args)
      /\ \A i \in 1 .. Len(e.args) : e.args[i] \in Expr
  BY <1>1
<1>3. Args(f, e) \in [1 .. Len(e.args) -> T]
  BY <1>2 DEF Args
<1>4. Args(f, e) \in Seq(T) /\ Len(Args(f, e)) = Len(e.args)
  BY <1>2, <1>3, SeqDef
<1> QED BY <1>2, <1>4 DEF Args

\* Functions that agree on the arguments of e evaluate them alike.
LEMMA ArgsAgree ==
    ASSUME NEW f, NEW g, NEW e \in Expr, \A i \in DOMAIN e.args : f[e.args[i]] = g[e.args[i]]
    PROVE  Args(f, e) = Args(g, e)
  BY DEF Args

\* The arguments are less deep.
LEMMA ArgsBelow ==
    /\ Depth \in [Expr -> Nat]
    /\ \A e \in Expr : \A i \in DOMAIN e.args :
          e.args[i] \in Expr /\ Depth[e.args[i]] < Depth[e]
<1>1. ASSUME NEW e \in Expr, NEW i \in DOMAIN e.args PROVE e.args[i] \in Expr
  BY ExprAssumption
<1> QED BY <1>1, ExprAssumption

\* Eval gives every expression what its arguments give, and that is an outcome.
LEMMA EvalIs ==
    /\ Eval = [e \in Expr |-> EvalBody(Eval, e)]
    /\ Eval \in [Expr -> Outcome]
<1> DEFINE F == [f \in [Expr -> Outcome] |-> [e \in Expr |-> EvalBody(f, e)]]
<1>1. ASSUME NEW f \in [Expr -> Outcome], NEW e \in Expr PROVE EvalBody(f, e) \in Outcome
  <2>1. Args(f, e) \in Seq(Outcome)
    BY ArgsTyped
  <2>2. Result(e.op, Args(f, e)) \in Outcome
    BY <2>1, ResultCases
  <2>3. e.const \in Outcome
    BY ExprAssumption DEF Outcome
  <2> QED BY <2>2, <2>3 DEF EvalBody
<1>2. F \in [[Expr -> Outcome] -> [Expr -> Outcome]]
  BY <1>1
<1>3. Local(Expr, Outcome, Depth, F)
  <2> SUFFICES ASSUME NEW f \in [Expr -> Outcome], NEW g \in [Expr -> Outcome], NEW e \in Expr,
                      \A d \in Expr : Depth[d] < Depth[e] => f[d] = g[d]
               PROVE  F[f][e] = F[g][e]
    BY DEF Local
  <2>1. Args(f, e) = Args(g, e)
    BY ArgsBelow, ArgsAgree
  <2>2. EvalBody(f, e) = EvalBody(g, e)
    BY <2>1 DEF EvalBody
  <2> QED BY <2>2
<1>4. PICK f \in [Expr -> Outcome] : f = F[f]
  <2>1. Outcome # {} /\ Depth \in [Expr -> Nat]
    BY Outcomes, ArgsBelow
  <2> HIDE DEF F
  <2>2. Solved(Expr, Outcome, F)
    BY <1>2, <1>3, <2>1, Recursion DEF Descends
  <2> QED BY <2>2 DEF Solved
<1>5. f = [e \in Expr |-> EvalBody(f, e)]
  BY <1>4
<1>6. Eval = [e \in Expr |-> EvalBody(Eval, e)]
  BY <1>5, Zenon DEF Eval, EvalBody, Args
<1>7. ASSUME NEW e \in Expr PROVE Eval[e] \in Outcome
  <2> DEFINE Bad == {d \in Expr : Eval[d] \notin Outcome}
  <2> SUFFICES ASSUME Bad # {} PROVE FALSE
    OBVIOUS
  <2>1. PICK d \in Bad : \A i \in DOMAIN d.args : d.args[i] \in Expr /\ d.args[i] \notin Bad
    <3>1. Bad \in SUBSET Expr
      OBVIOUS
    <3> HIDE DEF Bad
    <3> QED BY <3>1, Innermost
  <2> DEFINE g == [x \in Expr |-> IF x \in Bad THEN Error ELSE Eval[x]]
  <2>2. g \in [Expr -> Outcome]
    BY Outcomes
  <2>3. d \in Expr /\ Args(Eval, d) = Args(g, d)
    BY <2>1, ArgsAgree
  <2>4. Eval[d] = EvalBody(g, d)
    BY <1>6, <2>3 DEF EvalBody
  <2> QED BY <1>1, <2>1, <2>2, <2>3, <2>4
<1>8. Eval \in [Expr -> Outcome]
  BY <1>6, <1>7
<1> QED BY <1>6, <1>8

\* The subexpressions of e are e and those of the arguments it evaluates.
LEMMA SubexprIs ==
    ASSUME NEW e \in Expr
    PROVE  /\ e \in Subexpr[e]
           /\ e.const = Nil => \A i \in DOMAIN e.args : Subexpr[e.args[i]] \subseteq Subexpr[e]
           /\ \A s \in Subexpr[e] :
                 \/ s = e
                 \/ e.const = Nil /\ \E i \in DOMAIN e.args : s \in Subexpr[e.args[i]]
<1> DEFINE T == SUBSET Expr
           Body(f, x) == {x} \cup UNION {f[x.args[i]] : i \in Evaluated(x)}
           F == [f \in [Expr -> T] |-> [x \in Expr |-> Body(f, x)]]
<1>1. \A x \in Expr : \A i \in Evaluated(x) :
          x.args[i] \in Expr /\ Depth[x.args[i]] < Depth[x]
  BY ArgsBelow DEF Evaluated
<1>2. F \in [[Expr -> T] -> [Expr -> T]]
  BY <1>1
<1>3. Local(Expr, T, Depth, F)
  <2> SUFFICES ASSUME NEW f \in [Expr -> T], NEW g \in [Expr -> T], NEW x \in Expr,
                      \A d \in Expr : Depth[d] < Depth[x] => f[d] = g[d]
               PROVE  F[f][x] = F[g][x]
    BY DEF Local
  <2>1. \A i \in Evaluated(x) : f[x.args[i]] = g[x.args[i]]
    BY <1>1
  <2>2. {f[x.args[i]] : i \in Evaluated(x)} = {g[x.args[i]] : i \in Evaluated(x)}
    BY <2>1
  <2> QED BY <2>2
<1>4. PICK f \in [Expr -> T] : f = F[f]
  <2>1. T # {} /\ Depth \in [Expr -> Nat]
    BY ArgsBelow
  <2> HIDE DEF F, T
  <2>2. Solved(Expr, T, F)
    BY <1>2, <1>3, <2>1, Recursion DEF Descends
  <2> QED BY <2>2 DEF Solved
<1>5. f = [x \in Expr |-> Body(f, x)]
  BY <1>4
<1>6. Subexpr = [x \in Expr |-> Body(Subexpr, x)]
  BY <1>5, Zenon DEF Subexpr
<1>7. Subexpr[e] = {e} \cup UNION {Subexpr[e.args[i]] : i \in Evaluated(e)}
  BY <1>6
<1> QED BY <1>7 DEF Evaluated

\* One row of the truth table, from the truth of the arguments.
HoldsBody(f, e) ==
    IF e.const # Nil THEN e.const = Truth(TRUE)
    ELSE CASE e.op = "And" -> \A i \in DOMAIN e.args : f[e.args[i]]
           [] e.op = "Or"  -> \E i \in DOMAIN e.args : f[e.args[i]]
           [] OTHER        -> Len(e.args) = 1 /\ ~f[e.args[1]]

\* Holds is the truth table.
LEMMA HoldsIs ==
    /\ \A e \in Expr : Holds[e] = HoldsBody(Holds, e)
    /\ \A e \in Expr : Holds[e] \in BOOLEAN
<1> DEFINE F == [f \in [Expr -> BOOLEAN] |-> [e \in Expr |-> HoldsBody(f, e)]]
<1>1. ASSUME NEW f, NEW e \in Expr PROVE HoldsBody(f, e) \in BOOLEAN
  BY DEF HoldsBody
<1>2. F \in [[Expr -> BOOLEAN] -> [Expr -> BOOLEAN]]
  BY <1>1
<1>3. Local(Expr, BOOLEAN, Depth, F)
  <2> SUFFICES ASSUME NEW f \in [Expr -> BOOLEAN], NEW g \in [Expr -> BOOLEAN], NEW e \in Expr,
                      \A d \in Expr : Depth[d] < Depth[e] => f[d] = g[d]
               PROVE  F[f][e] = F[g][e]
    BY DEF Local
  <2>1. \A i \in DOMAIN e.args : f[e.args[i]] = g[e.args[i]]
    BY ArgsBelow
  <2>2. Len(e.args) = 1 => f[e.args[1]] = g[e.args[1]]
    <3>1. e.args \in Seq(Expr)
      BY ExprAssumption
    <3>2. Len(e.args) = 1 => 1 \in DOMAIN e.args
      BY <3>1
    <3> QED BY <2>1, <3>2
  <2>3. HoldsBody(f, e) = HoldsBody(g, e)
    BY <2>1, <2>2 DEF HoldsBody
  <2> QED BY <2>3
<1>4. PICK f \in [Expr -> BOOLEAN] : f = F[f]
  <2>1. BOOLEAN # {} /\ Depth \in [Expr -> Nat]
    BY ArgsBelow
  <2> HIDE DEF F
  <2>2. Solved(Expr, BOOLEAN, F)
    BY <1>2, <1>3, <2>1, Recursion DEF Descends
  <2> QED BY <2>2 DEF Solved
<1>5. f = [e \in Expr |-> HoldsBody(f, e)]
  BY <1>4
<1>6. Holds = [e \in Expr |-> HoldsBody(Holds, e)]
  BY <1>5, ZenonT(40) DEF Holds, HoldsBody
<1> QED BY <1>1, <1>6

\* The argument that decides an And or an Or of truths, if there is one.
LEMMA JunctionSound ==
    ASSUME NEW n \in Nat, NEW h \in [1 .. n -> BOOLEAN], NEW args,
           args = [i \in 1 .. n |-> Truth(h[i])]
    PROVE  /\ Junction(args, TRUE) = Truth(\A i \in 1 .. n : h[i])
           /\ Junction(args, FALSE) = Truth(\E i \in 1 .. n : h[i])
<1>1. \A i \in 1 .. n : args[i] = Truth(h[i]) /\ TypeOf(args[i]) = "bool"
  BY DEF Truth, TypeOf
<1>2. ASSUME NEW unit \in BOOLEAN
      PROVE  Junction(args, unit) = Truth(IF \A i \in 1 .. n : h[i] = unit THEN unit ELSE ~unit)
  <2> DEFINE deciding == {i \in DOMAIN args : args[i] # Truth(unit)}
  <2>1. \A i \in 1 .. n : args[i] # Truth(unit) <=> h[i] # unit
    BY <1>1, Outcomes
  <2>2. deciding = {i \in 1 .. n : h[i] # unit}
    BY <2>1
  <2>3. deciding # {} => FirstIn(deciding) \in 1 .. n
    <3>1. deciding \in SUBSET (1 .. n)
      BY <2>2
    <3> HIDE DEF deciding
    <3> QED BY <3>1, First
  <2>4. Junction(args, unit) =
            IF deciding = {} THEN Truth(unit)
            ELSE IF TypeOf(args[FirstIn(deciding)]) = "bool" THEN Truth(~unit) ELSE Error
    BY Zenon DEF Junction
  <2> HIDE DEF deciding
  <2> QED BY <1>1, <2>2, <2>3, <2>4
<1>3. Junction(args, TRUE) = Truth(\A i \in 1 .. n : h[i])
  <2>1. Junction(args, TRUE) = Truth(IF \A i \in 1 .. n : h[i] = TRUE THEN TRUE ELSE ~TRUE)
    BY <1>2
  <2>2. (IF \A i \in 1 .. n : h[i] = TRUE THEN TRUE ELSE ~TRUE) = \A i \in 1 .. n : h[i]
    OBVIOUS
  <2> QED BY <2>1, <2>2
<1>4. Junction(args, FALSE) = Truth(\E i \in 1 .. n : h[i])
  <2>1. Junction(args, FALSE) =
            Truth(IF \A i \in 1 .. n : h[i] = FALSE THEN FALSE ELSE ~FALSE)
    BY <1>2
  <2>2. (IF \A i \in 1 .. n : h[i] = FALSE THEN FALSE ELSE ~FALSE) = \E i \in 1 .. n : h[i]
    OBVIOUS
  <2> QED BY <2>1, <2>2
<1> QED BY <1>3, <1>4

\* The arguments of e, evaluated, and what Eval makes of them.
LEMMA EvalArgs ==
    ASSUME NEW e \in Expr
    PROVE  /\ Args(Eval, e) \in Seq(Outcome)
           /\ Len(Args(Eval, e)) = Len(e.args) /\ Len(e.args) \in Nat
           /\ DOMAIN e.args = 1 .. Len(e.args)
           /\ \A i \in 1 .. Len(e.args) :
                 e.args[i] \in Expr /\ Args(Eval, e)[i] = Eval[e.args[i]]
           /\ e.const # Nil => Eval[e] = e.const
           /\ e.const = Nil => Eval[e] = Result(e.op, Args(Eval, e))
<1>1. Eval \in [Expr -> Outcome]
  BY EvalIs
<1>2. Eval[e] = EvalBody(Eval, e)
  BY EvalIs
<1>3. /\ Args(Eval, e) \in Seq(Outcome)
      /\ Len(Args(Eval, e)) = Len(e.args) /\ Len(e.args) \in Nat
      /\ DOMAIN e.args = 1 .. Len(e.args)
      /\ \A i \in 1 .. Len(e.args) :
            e.args[i] \in Expr /\ Args(Eval, e)[i] = Eval[e.args[i]]
  BY <1>1, ArgsTyped, ZenonT(40)
<1>4. /\ e.const # Nil => Eval[e] = e.const
      /\ e.const = Nil => Eval[e] = Result(e.op, Args(Eval, e))
  BY <1>2 DEF EvalBody
<1> QED BY <1>3, <1>4, Zenon

(***************************************************************************)
(* The three laws of evaluation.  Each is shown of an expression that      *)
(* would break it while none of its arguments does.                        *)
(***************************************************************************)
\* An expression fails with every part of it that is evaluated and fails.
LEMMA FailureSpreads ==
    ASSUME NEW e \in Expr, NEW s \in Subexpr[e], Failed(Eval[s])
    PROVE  Failed(Eval[e])
<1> DEFINE Bad == {d \in Expr : ~Failed(Eval[d]) /\ \E x \in Subexpr[d] : Failed(Eval[x])}
<1> SUFFICES ASSUME Bad # {} PROVE FALSE
  OBVIOUS
<1>1. PICK d \in Bad : \A i \in DOMAIN d.args : d.args[i] \in Expr /\ d.args[i] \notin Bad
  <2>1. Bad \in SUBSET Expr
    OBVIOUS
  <2> HIDE DEF Bad
  <2> QED BY <2>1, Innermost
<1>2. PICK x \in Subexpr[d] : Failed(Eval[x])
  BY <1>1
<1>3. d \in Expr /\ ~Failed(Eval[d]) /\ x # d
  BY <1>1, <1>2
<1>4. PICK i \in DOMAIN d.args : d.const = Nil /\ x \in Subexpr[d.args[i]]
  BY <1>2, <1>3, SubexprIs
<1>5. Failed(Eval[d.args[i]])
  BY <1>1, <1>2, <1>4
<1> DEFINE A == Args(Eval, d)
<1>6. A \in Seq(Outcome) /\ i \in 1 .. Len(A) /\ A[i] = Eval[d.args[i]]
  BY <1>3, <1>4, EvalArgs
<1>7. Eval[d] = Result(d.op, A)
  BY <1>3, <1>4, EvalArgs
<1> HIDE DEF A
<1>8. Failed(Result(d.op, A))
  BY <1>5, <1>6, ResultCases
<1> QED BY <1>3, <1>7, <1>8

\* And, Or and Not of truths give the truth of their table.
LEMMA TruthTable ==
    ASSUME NEW e \in Expr, Logical(e)
    PROVE  Eval[e] = Truth(Holds[e])
<1> DEFINE Bad == {d \in Expr : Logical(d) /\ Eval[d] # Truth(Holds[d])}
<1> SUFFICES ASSUME Bad # {} PROVE FALSE
  OBVIOUS
<1>1. PICK d \in Bad : \A i \in DOMAIN d.args : d.args[i] \in Expr /\ d.args[i] \notin Bad
  <2>1. Bad \in SUBSET Expr
    OBVIOUS
  <2> HIDE DEF Bad
  <2> QED BY <2>1, Innermost
<1>2. d \in Expr /\ Logical(d) /\ Eval[d] # Truth(Holds[d])
  BY <1>1
<1>3. \/ d.const \in {Truth(TRUE), Truth(FALSE)}
      \/ d.const = Nil /\ (d.op \in {"And", "Or"} \/ (d.op = "Not" /\ Len(d.args) = 1))
  BY <1>2, SubexprIs DEF Logical
<1>4. CASE d.const \in {Truth(TRUE), Truth(FALSE)}
  <2>1. d.const # Nil
    BY <1>4, Outcomes
  <2>2. Eval[d] = d.const
    BY <1>2, <2>1, EvalArgs
  <2>3. Holds[d] = (d.const = Truth(TRUE))
    BY <1>2, <2>1, HoldsIs DEF HoldsBody
  <2> QED BY <1>2, <1>4, <2>2, <2>3, Outcomes
<1>5. CASE d.const = Nil
  <2> DEFINE A == Args(Eval, d)  n == Len(d.args)  h == [i \in 1 .. n |-> Holds[d.args[i]]]
  <2>1. /\ A \in Seq(Outcome) /\ Len(A) = n /\ n \in Nat /\ DOMAIN d.args = 1 .. n
        /\ \A i \in 1 .. n : d.args[i] \in Expr /\ A[i] = Eval[d.args[i]]
    BY <1>2, EvalArgs
  <2>2. Eval[d] = Result(d.op, A)
    BY <1>2, <1>5, EvalArgs
  <2>3. ASSUME NEW i \in 1 .. n
        PROVE  A[i] = Truth(Holds[d.args[i]]) /\ Holds[d.args[i]] \in BOOLEAN
    <3>1. Logical(d.args[i])
      BY <1>2, <1>5, <2>1, SubexprIs DEF Logical
    <3> QED BY <1>1, <2>1, <3>1, HoldsIs
  <2>4. ASSUME NEW i \in 1 .. n PROVE ~Failed(A[i])
    BY <2>3, Outcomes DEF Failed
  <2>5. h \in [1 .. n -> BOOLEAN] /\ A = [i \in 1 .. n |-> Truth(h[i])]
    BY <2>1, <2>3
  <2>6. Result(d.op, A) = Apply(d.op, A)
    <3> HIDE DEF A, n
    <3> QED BY <2>1, <2>4, ResultCases
  <2>7. Holds[d] = HoldsBody(Holds, d)
    BY <1>2, HoldsIs
  <2> HIDE DEF A, n
  <2>8. CASE d.op = "And"
    <3>1. Apply(d.op, A) = Junction(A, TRUE)
      BY <2>8 DEF Apply
    <3>2. Holds[d] = \A i \in 1 .. n : h[i]
      BY <1>5, <2>1, <2>7, <2>8 DEF HoldsBody
    <3> HIDE DEF h
    <3>3. Junction(A, TRUE) = Truth(\A i \in 1 .. n : h[i])
      BY <2>1, <2>5, JunctionSound, ZenonT(40)
    <3> QED BY <1>2, <2>2, <2>6, <3>1, <3>2, <3>3
  <2>9. CASE d.op = "Or"
    <3>1. Apply(d.op, A) = Junction(A, FALSE)
      BY <2>9 DEF Apply
    <3>2. Holds[d] = \E i \in 1 .. n : h[i]
      BY <1>5, <2>1, <2>7, <2>9 DEF HoldsBody
    <3> HIDE DEF h
    <3>3. Junction(A, FALSE) = Truth(\E i \in 1 .. n : h[i])
      BY <2>1, <2>5, JunctionSound
    <3> QED BY <1>2, <2>2, <2>6, <3>1, <3>2, <3>3
  <2>10. CASE d.op = "Not" /\ n = 1
    <3>1. Apply(d.op, A) = opNot(A)
      BY <2>10 DEF Apply
    <3>2. A[1] = Truth(Holds[d.args[1]]) /\ Holds[d.args[1]] \in BOOLEAN
      BY <2>3, <2>10
    <3>3. A[1][2] = Holds[d.args[1]] /\ TypeOf(A[1]) = "bool"
      BY <3>2 DEF Truth, TypeOf
    <3>4. opNot(A) = Truth(~A[1][2])
      BY <2>1, <2>10, <3>3 DEF opNot
    <3>5. Holds[d] = ~Holds[d.args[1]]
      BY <1>5, <2>7, <2>10 DEF HoldsBody, n
    <3> QED BY <1>2, <2>2, <2>6, <3>1, <3>3, <3>4, <3>5
  <2> QED BY <1>3, <1>4, <2>8, <2>9, <2>10 DEF n
<1> QED BY <1>3, <1>4, <1>5

\* A panic comes from two collections that meet, here or in a part.
LEMMA CollectionsMeet ==
    ASSUME NEW e \in Expr, Eval[e] = Panic
    PROVE  \E s \in Subexpr[e] : Collections(s)
<1> DEFINE Bad == {d \in Expr : Eval[d] = Panic /\ \A x \in Subexpr[d] : ~Collections(x)}
<1> SUFFICES ASSUME Bad # {} PROVE FALSE
  OBVIOUS
<1>1. PICK d \in Bad : \A i \in DOMAIN d.args : d.args[i] \in Expr /\ d.args[i] \notin Bad
  <2>1. Bad \in SUBSET Expr
    OBVIOUS
  <2> HIDE DEF Bad
  <2> QED BY <2>1, Innermost
<1>2. d \in Expr /\ Eval[d] = Panic /\ \A x \in Subexpr[d] : ~Collections(x)
  BY <1>1
<1>3. d.const = Nil
  <2>1. d.const \in Value
    BY <1>2, ExprAssumption
  <2>2. d.const # Panic
    BY <2>1, Outcomes
  <2> QED BY <1>2, <2>2, EvalArgs
<1> DEFINE A == Args(Eval, d)  n == Len(d.args)
<1>4. /\ A \in Seq(Outcome) /\ Len(A) = n /\ n \in Nat /\ DOMAIN d.args = 1 .. n
      /\ \A i \in 1 .. n : d.args[i] \in Expr /\ A[i] = Eval[d.args[i]]
  BY <1>2, EvalArgs
<1>5. Result(d.op, A) = Panic
  BY <1>2, <1>3, EvalArgs
<1> HIDE DEF A, n
<1>6. CASE \E i \in 1 .. n : Failed(A[i])
  <2>1. PICK i \in 1 .. n : Result(d.op, A) = A[i]
    BY <1>4, <1>6, ResultCases
  <2>2. Eval[d.args[i]] = Panic
    BY <1>4, <1>5, <2>1
  <2>3. PICK x \in Subexpr[d.args[i]] : Collections(x)
    BY <1>1, <1>4, <2>2
  <2>4. x \in Subexpr[d]
    BY <1>2, <1>3, <1>4, <2>3, SubexprIs
  <2> QED BY <1>2, <2>3, <2>4
<1>7. CASE \A i \in 1 .. n : ~Failed(A[i])
  <2>1. A \in Seq(Value) /\ Apply(d.op, A) = Panic
    BY <1>4, <1>5, <1>7, ResultCases
  <2>2. /\ n = 2
        /\ \/ d.op = "Eq" /\ Incomparable(A[1], A[2])
           \/ /\ d.op = "Contains" /\ TypeOf(A[1]) = "list"
              /\ \E i \in DOMAIN A[1][2] : Incomparable(A[1][2][i], A[2])
    BY <1>4, <2>1, ApplyType
  <2>3. A[1] = Eval[d.args[1]] /\ A[2] = Eval[d.args[2]]
    BY <1>4, <2>2
  <2>4. Collections(d)
    BY <1>3, <2>2, <2>3 DEF Collections, Incomparable, n
  <2> QED BY <1>2, <2>4, SubexprIs
<1> QED BY <1>6, <1>7

\* The condition of a statement is an expression.
LEMMA ConditionTyped == ASSUME TypeOK, condition # Idle PROVE condition \in Expr
  BY ConditionAssumption DEF TypeOK

(***************************************************************************)
(* A condition with a part that is evaluated and fails fails itself,       *)
(* however deep the part is and whatever stands beside it.                 *)
(***************************************************************************)
THEOREM ErrorsAreWholeAlways == Spec => []ErrorsAreWhole
<1>1. TypeOK => ErrorsAreWhole
  <2> SUFFICES ASSUME TypeOK, condition # Idle
               PROVE  (\E s \in Subexpr[condition] : Failed(Eval[s]))
                          <=> Failed(Eval[condition])
    BY DEF ErrorsAreWhole
  <2>1. condition \in Expr
    BY ConditionTyped
  <2> QED BY <2>1, FailureSpreads, SubexprIs
<1> QED BY <1>1, TypeAlways, PTL

(***************************************************************************)
(* And, Or and Not of truths have the value of their truth table at any    *)
(* depth, though And and Or stop at the first argument that decides.       *)
(***************************************************************************)
THEOREM LogicSoundAlways == Spec => []LogicSound
<1>1. TypeOK => LogicSound
  BY ConditionTyped, TruthTable DEF LogicSound
<1> QED BY <1>1, TypeAlways, PTL

(***************************************************************************)
(* Whatever the request holds, only two lists or two maps that meet under  *)
(* Eq or Contains stop the process.                                        *)
(***************************************************************************)
THEOREM PanicsOnlyOnCollectionsAlways == Spec => []PanicsOnlyOnCollections
<1>1. AnswerInductive => PanicsOnlyOnCollections
  <2> SUFFICES ASSUME AnswerInductive, answer = "panic"
               PROVE  \E s \in Subexpr[condition] : Collections(s)
    BY DEF PanicsOnlyOnCollections
  <2>1. condition \in Expr /\ Eval[condition] = Panic
    BY ConditionAssumption DEF AnswerInductive
  <2> QED BY <2>1, CollectionsMeet
<1> QED BY <1>1, AnswerInductiveAlways, PTL
=============================================================================
