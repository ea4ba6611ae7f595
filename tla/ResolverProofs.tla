--------------------------- MODULE ResolverProofs ---------------------------
(***************************************************************************)
(* What Resolver promises for any domains, ids, caches, hints, answers and *)
(* requests at once: its types, that no call is made within itself, that a *)
(* request goes where it was told the id is, and that a registration is    *)
(* lost only to another, to a request already under way, or to an answer   *)
(* about another entity.                                                   *)
(*                                                                         *)
(* The argument is about stacks.  A call that waits is linked to the one   *)
(* it made, every call ranks below its caller, and what a call answers is  *)
(* what its caller expects.  Sound says so of one stack, the value last    *)
(* returned on it and what has been told of each id; it mentions no        *)
(* variable, and the lemmas about it speak of pushing a call, popping one, *)
(* making a request and more being told.  Fresh says that what is cached   *)
(* of an id, or about to be, every request on its way to it has heard.     *)
(***************************************************************************)
EXTENDS Resolver, SequenceTheorems, TLAPS

FrameSet == [fn: Functions, of: Names, by: Names, to: Names,
             pc: {"start", "got", "info", "resolved", "fetch", "hung"}]

\* The functions that other functions of the model call.
Called == {"GetEntity", "GetServer", "GetResource", "resolveResolver"}

(***************************************************************************)
(* A call ranks above each it makes.  GetServer of a domain makes none;    *)
(* GetResource asks for a server first, or for the resolver when it is not *)
(* told one.                                                               *)
(***************************************************************************)
Rank(f) ==
    CASE f.fn = "GetServer"       -> IF f.of \in Csid THEN 2 ELSE 0
      [] f.fn = "GetResource"     -> IF f.by = "" THEN 6 ELSE IF f.by \in Csid THEN 3 ELSE 1
      [] f.fn = "GetEntity"       -> 4
      [] f.fn = "resolveResolver" -> 5
      [] OTHER                    -> 7

\* The caller f, at its pc, waits for the call g.
Linked(f, g) ==
    \/ f.fn = "Get" /\ f.pc = "got" /\ g.fn = "GetEntity" /\ g.of = f.of
    \/ f.fn = "Resolve" /\ f.pc = "got" /\ g.fn = "GetServer" /\ g.of = f.of
    \/ f.fn = "GetEntity" /\ f.pc = "got" /\ g.fn = "GetResource" /\ g.of = f.of /\ g.by # ""
    \/ /\ f.fn = "GetServer" /\ f.pc = "got" /\ f.of \in Csid
       /\ g.fn = "GetResource" /\ g.of = f.of /\ g.by = Default
    \/ /\ f.fn = "GetResource" /\ f.pc = "info" /\ g.fn = "GetServer"
       /\ f.by # "" => g.of = f.by
    \/ /\ f.fn = "GetResource" /\ f.pc = "resolved" /\ f.by = ""
       /\ g.fn = "resolveResolver" /\ g.of = f.of
    \/ /\ f.fn = "resolveResolver" /\ f.pc = "got" /\ g.of = f.of
       /\ \/ g.fn = "GetEntity" /\ f.of \in Ccid
          \/ g.fn = "GetServer" /\ f.of \in Csid
    \/ f.fn = "HttpRequest" /\ f.pc = "resolved" /\ g.fn = "resolveResolver" /\ g.of = f.of

Ids == Ccid \cup Csid

\* The request with the stack s is on its way to the id x, or learns about it.
SendsTo(s, x) == s # <<>> /\ s[1].fn = "HttpRequest" /\ s[1].of = x
Learns(s, x) ==
    s # <<>> /\ Last(s).fn \in {"GetEntity", "GetServer"} /\ Last(s).pc = "got" /\ Last(s).of = x

\* What may be told of each id on the stack s of a request that has heard h.
View(s, h) == [x \in Ids |-> IF SendsTo(s, x) THEN h ELSE Told]

\* A request for x may go to d: x is d, or d is what was told of the id x.
Home(x, d, told) ==
    CASE x \in Ids -> d \in told[x]
      [] x = ""    -> d = Default
      [] OTHER     -> d = x

AnEntity(x, v, told) == v \in AnyEntity /\ v.at \in told[x]
AServer(x, v, told) == v \in AnyServer /\ (x \in Csid => v.at \in told[x])
AName(x, v, told) == \E d \in Names : v = Name(d) /\ Home(x, d, told)

\* What the call g may answer its caller.
Answer(g, v, told) ==
    \/ v = Error
    \/ g.fn = "GetEntity" /\ AnEntity(g.of, v, told)
    \/ g.fn = "GetServer" /\ AServer(g.of, v, told)
    \/ g.fn = "GetResource" /\ g.of \in Ccid /\ AnEntity(g.of, v, told)
    \/ g.fn = "GetResource" /\ g.of \in Csid /\ AServer(g.of, v, told)
    \/ g.fn = "resolveResolver" /\ AName(g.of, v, told)

\* What the innermost call f, where it has just been returned to, relies on.
Expected(f, v, told) ==
    f.pc \in {"got", "info", "resolved"} =>
        \/ v = Error
        \/ f.fn \in {"Get", "GetEntity"} /\ AnEntity(f.of, v, told)
        \/ f.fn \in {"Resolve", "GetServer"} /\ AServer(f.of, v, told)
        \/ f.fn = "GetResource" /\ f.pc = "info" /\ v \in AnyServer
        \/ f.fn = "GetResource" /\ f.pc = "resolved" /\ \E d \in Names : v = Name(d)
        \/ f.fn = "resolveResolver" /\ f.of \in Ccid /\ AnEntity(f.of, v, told)
        \/ f.fn = "resolveResolver" /\ f.of \in Csid /\ AServer(f.of, v, told)
        \/ f.fn = "HttpRequest" /\ AName(f.of, v, told)

\* What is known of a call by where it is.
Legal(f, told) ==
    /\ f.fn \in {"Get", "GetEntity"} => f.of \in Ccid
    /\ f.fn = "GetServer" /\ f.pc = "got" => f.of \in Csid
    /\ f.fn = "GetServer" /\ f.pc = "fetch" => f.of \notin Csid
    /\ f.fn = "GetResource" /\ f.pc = "resolved" => f.by = ""
    /\ f.fn = "resolveResolver" /\ f.pc = "got" => f.of \in Ccid \cup Csid
    /\ f.fn = "HttpRequest" /\ f.pc = "fetch" => Home(f.of, f.to, told)

\* The stack s, the value v last returned on it, and what has been told of the ids.
Sound(s, v, told) ==
    /\ s \in Seq(FrameSet) /\ v \in Results
    /\ \A i \in 1 .. Len(s) : Legal(s[i], told) /\ (i > 1 => s[i].fn \in Called)
    /\ \A i \in 1 .. Len(s) : i < Len(s) => Linked(s[i], s[i + 1])
    /\ \A i, j \in 1 .. Len(s) : i < j => Rank(s[j]) < Rank(s[i])
    /\ s # <<>> => Expected(s[Len(s)], v, told)

-----------------------------------------------------------------------------
(* The tables, the cache and the stacks.                                    *)

Entities ==
    entities \in [Ccid -> AnyEntity \cup {None}] /\ known \in [Ccid -> AnyEntity \cup {None}]

Servers ==
    servers \in [Names -> Csid \cup {""}] /\ knownServer \in [Names -> AnyServer \cup {None}]

\* The stack s is of a request that waits to be told of the entity a, to keep it.
WaitsFor(s, a) == s # <<>> /\ s[1].fn = "Get" /\ s[1].of = a /\ s[1].pc = "got"

\* A request that is about to keep an entity registered here was getting it when it was.
Overtaken ==
    /\ registered \subseteq Ccid /\ raced \in [Ccid -> SUBSET Request]
    /\ \A a \in registered :
        /\ entities[a] # None
        /\ \A r \in Request : WaitsFor(stack[r], a) => r \in raced[a]

\* What the request r may have been told of each id.
Seen(r) == View(stack[r], heard[r])

Stacks ==
    /\ stack \in [Request -> Seq(FrameSet)] /\ result \in [Request -> Results]
    /\ heard \in [Request -> SUBSET Told]
    /\ \A r \in Request : Sound(stack[r], result[r], Seen(r))

\* What is known of an id, every request on its way to it has heard.
Fresh == \A r \in Request, x \in Ids : SentTo(r, x) => Held(x) \subseteq heard[r]

Resolved == Entities /\ Servers /\ Overtaken /\ Stacks /\ Fresh

-----------------------------------------------------------------------------
(* Calls.                                                                   *)

\* The ranks of the calls that are made, and of those that are asked.
LEMMA ServerRanks ==
    ASSUME NEW f, f.fn = "GetServer"
    PROVE  Rank(f) = IF f.of \in Csid THEN 2 ELSE 0
  BY DEF Rank

\* GetResource without a resolver asks for one, with an id for a server of that id.
LEMMA ResourceRanks ==
    ASSUME NEW f, f.fn = "GetResource"
    PROVE  Rank(f) = IF f.by = "" THEN 6 ELSE IF f.by \in Csid THEN 3 ELSE 1
  BY DEF Rank

\* GetEntity asks GetResource with a resolver.
LEMMA EntityRanks == ASSUME NEW f, f.fn = "GetEntity" PROVE Rank(f) = 4
  BY DEF Rank

\* resolveResolver asks for an entity or a server.
LEMMA ResolverRanks == ASSUME NEW f, f.fn = "resolveResolver" PROVE Rank(f) = 5
  BY DEF Rank

\* Get, Resolve and HttpRequest, which no function calls, rank above all.
LEMMA AskedRanks ==
    ASSUME NEW f, f.fn \in {"Get", "Resolve", "HttpRequest"}
    PROVE  Rank(f) = 7
  BY DEF Rank

\* A call that waits ranks above the one it waits for.
LEMMA Descends ==
    ASSUME NEW f \in FrameSet, NEW g \in FrameSet, Linked(f, g)
    PROVE  Rank(g) < Rank(f)
  <1>1. Default # "" /\ Default \notin Csid /\ "" \notin Csid
    BY ResolverAssumption DEF Address
  <1>2. CASE f.fn \in {"Get", "Resolve", "HttpRequest"}
    <2>1. Rank(f) = 7
      BY <1>2, AskedRanks
    <2>2. g.fn \in {"GetEntity", "GetServer", "resolveResolver"}
      BY <1>2 DEF Linked
    <2> QED  BY <2>1, <2>2, EntityRanks, ServerRanks, ResolverRanks
  <1>3. CASE f.fn = "GetEntity"
    <2>1. g.fn = "GetResource" /\ g.by # ""
      BY <1>3 DEF Linked
    <2>2. Rank(f) = 4
      BY <1>3, EntityRanks
    <2>3. Rank(g) = IF g.by \in Csid THEN 3 ELSE 1
      BY <2>1, ResourceRanks
    <2> QED  BY <2>2, <2>3
  <1>4. CASE f.fn = "GetServer"
    <2>1. f.of \in Csid /\ g.fn = "GetResource" /\ g.by = Default
      BY <1>4 DEF Linked
    <2>2. Rank(f) = 2
      BY <1>4, <2>1, ServerRanks
    <2>3. Rank(g) = 1
      BY <1>1, <2>1, ResourceRanks
    <2> QED  BY <2>2, <2>3
  <1>5. CASE f.fn = "GetResource"
    <2>1. CASE g.fn = "resolveResolver"
      <3>1. f.by = ""
        BY <1>5, <2>1 DEF Linked
      <3>2. Rank(g) = 5
        BY <2>1, ResolverRanks
      <3>3. Rank(f) = 6
        BY <1>5, <3>1, ResourceRanks
      <3> QED  BY <3>2, <3>3
    <2>2. CASE g.fn = "GetServer" /\ (f.by # "" => g.of = f.by)
      <3>1. Rank(g) = IF g.of \in Csid THEN 2 ELSE 0
        BY <2>2, ServerRanks
      <3>2. Rank(f) = IF f.by = "" THEN 6 ELSE IF f.by \in Csid THEN 3 ELSE 1
        BY <1>5, ResourceRanks
      <3>3. CASE f.by = ""
        <4>1. Rank(f) = 6 /\ Rank(g) \in {0, 2}
          BY <3>1, <3>2, <3>3
        <4> QED  BY <4>1
      <3>4. CASE f.by # "" /\ f.by \in Csid
        <4>1. Rank(f) = 3 /\ Rank(g) = 2
          BY <2>2, <3>1, <3>2, <3>4
        <4> QED  BY <4>1
      <3>5. CASE f.by # "" /\ f.by \notin Csid
        <4>1. Rank(f) = 1 /\ Rank(g) = 0
          BY <2>2, <3>1, <3>2, <3>5
        <4> QED  BY <4>1
      <3> QED  BY <3>3, <3>4, <3>5
    <2> QED  BY <1>5, <2>1, <2>2 DEF Linked
  <1>6. CASE f.fn = "resolveResolver"
    <2>1. \/ g.fn = "GetEntity"
          \/ g.fn = "GetServer"
      BY <1>6 DEF Linked
    <2> QED  BY <1>6, <2>1, EntityRanks, ServerRanks, ResolverRanks
  <1> QED
    BY <1>2, <1>3, <1>4, <1>5, <1>6 DEF FrameSet, Functions

\* A rank is a number, and depends on what the call is for alone.
LEMMA RankIsNumber == ASSUME NEW f PROVE Rank(f) \in Nat
  BY DEF Rank

\* Calls for the same rank the same.
LEMMA SameCallSameRank ==
    ASSUME NEW f, NEW g, f.fn = g.fn, f.of = g.of, f.by = g.by
    PROVE  Rank(f) = Rank(g)
  BY DEF Rank

\* What a call answers is what the caller linked to it expects.
LEMMA AnswersAreExpected ==
    ASSUME NEW f \in FrameSet, NEW g \in FrameSet, NEW v, NEW told,
           Linked(f, g), Legal(f, told), Legal(g, told), Answer(g, v, told)
    PROVE  Expected(f, v, told)
  <1>1. CASE v = Error
    BY <1>1 DEF Expected
  <1>2. CASE f.fn \in {"Get", "Resolve", "HttpRequest"}
    BY <1>2 DEF Linked, Answer, Expected
  <1>3. CASE f.fn = "GetEntity"
    <2>1. f.of \in Ccid /\ f.of \notin Csid /\ g.fn = "GetResource" /\ g.of = f.of
      BY <1>3, ResolverAssumption DEF Linked, Legal
    <2> QED  BY <1>3, <2>1 DEF Answer, Expected
  <1>4. CASE f.fn = "GetServer"
    <2>1. f.of \in Csid /\ f.of \notin Ccid /\ g.fn = "GetResource" /\ g.of = f.of
      BY <1>4, ResolverAssumption DEF Linked, Legal
    <2> QED  BY <1>4, <2>1 DEF Answer, Expected
  <1>5. CASE f.fn = "GetResource"
    BY <1>5 DEF Linked, Answer, Expected, AServer, AName
  <1>6. CASE f.fn = "resolveResolver"
    BY <1>6, ResolverAssumption DEF Linked, Answer, Expected
  <1> QED
    BY <1>1, <1>2, <1>3, <1>4, <1>5, <1>6 DEF FrameSet, Functions

-----------------------------------------------------------------------------
(* More is told.                                                            *)

Later(told, after) ==
    /\ told \in [Ids -> SUBSET Told] /\ after \in [Ids -> SUBSET Told]
    /\ \A x \in Ids : told[x] \subseteq after[x]

\* Where a request might go it still may.
LEMMA HomeStays ==
    ASSUME NEW told, NEW after, Later(told, after), NEW x, NEW d, Home(x, d, told)
    PROVE  Home(x, d, after)
  <1>1. CASE x \in Ids
    <2>1. d \in told[x]
      <3>1. x # ""
        BY <1>1, ResolverAssumption DEF Ids, Address
      <3> QED  BY <1>1, <3>1 DEF Home
    <2>2. d \in after[x]
      BY <1>1, <2>1 DEF Later
    <2>3. x # ""
      BY <1>1, ResolverAssumption DEF Ids, Address
    <2> QED  BY <1>1, <2>2, <2>3 DEF Home
  <1>2. CASE x \notin Ids
    BY <1>2 DEF Home
  <1> QED  BY <1>1, <1>2

\* An entity that was told of, or a server, still is.
LEMMA ToldStays ==
    ASSUME NEW told, NEW after, Later(told, after), NEW x, NEW v
    PROVE  /\ x \in Ccid /\ AnEntity(x, v, told) => AnEntity(x, v, after)
           /\ AServer(x, v, told) => AServer(x, v, after)
  BY DEF AnEntity, AServer, Later, Ids

\* So what a call expects stays what it may be answered.
LEMMA ExpectedStays ==
    ASSUME NEW told, NEW after, Later(told, after), NEW f \in FrameSet, NEW v,
           Legal(f, told), Expected(f, v, told)
    PROVE  Expected(f, v, after)
  <1>1. AName(f.of, v, told) => AName(f.of, v, after)
    BY HomeStays DEF AName
  <1>2. /\ f.of \in Ccid /\ AnEntity(f.of, v, told) => AnEntity(f.of, v, after)
        /\ AServer(f.of, v, told) => AServer(f.of, v, after)
    BY ToldStays
  <1>3. f.fn \in {"Get", "GetEntity"} => f.of \in Ccid
    BY DEF Legal
  <1> QED  BY <1>1, <1>2, <1>3 DEF Expected

\* A call keeps its place in what is legal.
LEMMA LegalStays ==
    ASSUME NEW told, NEW after, Later(told, after), NEW f, Legal(f, told)
    PROVE  Legal(f, after)
  BY HomeStays DEF Legal

\* A stack stays sound while more is told.
LEMMA SoundStays ==
    ASSUME NEW told, NEW after, Later(told, after), NEW s, NEW v, Sound(s, v, told)
    PROVE  Sound(s, v, after)
  <1>0. s \in Seq(FrameSet) /\ \A i \in 1 .. Len(s) : s[i] \in FrameSet
    BY DEF Sound
  <1>1. \A i \in 1 .. Len(s) : Legal(s[i], after) /\ (i > 1 => s[i].fn \in Called)
    BY LegalStays DEF Sound
  <1>2. s # <<>> => Expected(s[Len(s)], v, after)
    <2> SUFFICES ASSUME s # <<>> PROVE Expected(s[Len(s)], v, after)
      OBVIOUS
    <2>1. Len(s) \in 1 .. Len(s)
      BY <1>0, EmptySeq, LenProperties
    <2>2. s[Len(s)] \in FrameSet /\ Legal(s[Len(s)], told) /\ Expected(s[Len(s)], v, told)
      BY <1>0, <2>1 DEF Sound
    <2> QED  BY <2>2, ExpectedStays
  <1> QED  BY <1>1, <1>2 DEF Sound

-----------------------------------------------------------------------------
(* What a request may have been told.                                       *)

\* It is of each id a set of what may be told.
LEMMA ViewType ==
    ASSUME NEW s, NEW h \in SUBSET Told
    PROVE  View(s, h) \in [Ids -> SUBSET Told]
  BY DEF View

\* It grows with what the request has heard.
LEMMA ViewGrows ==
    ASSUME NEW s, NEW h \in SUBSET Told, NEW k \in SUBSET Told, h \subseteq k
    PROVE  Later(View(s, h), View(s, k))
  BY ViewType DEF Later, View

\* It depends on what the request was for alone.
LEMMA ViewStays ==
    ASSUME NEW s, NEW z, NEW h, \A x : SendsTo(z, x) <=> SendsTo(s, x)
    PROVE  View(z, h) = View(s, h)
  BY DEF View

\* Stacks with the same call at the bottom are sent to the same.
LEMMA SentStays ==
    ASSUME NEW s, NEW z, s # <<>>, z # <<>>, z[1].fn = s[1].fn, z[1].of = s[1].of
    PROVE  \A x : SendsTo(z, x) <=> SendsTo(s, x)
  BY DEF SendsTo

\* The same of a request.
LEMMA AsStacks ==
    ASSUME NEW r, NEW x
    PROVE  (SentTo(r, x) <=> SendsTo(stack[r], x)) /\ (Learning(r, x) <=> Learns(stack[r], x))
  BY DEF SentTo, SendsTo, Learning, Learns, Busy, Top

-----------------------------------------------------------------------------
(* Stacks.                                                                  *)

\* The parts of a sound stack that is not empty.
LEMMA SoundTop ==
    ASSUME NEW s, NEW v, NEW told, Sound(s, v, told), s # <<>>
    PROVE  /\ s \in Seq(FrameSet) /\ Len(s) \in Nat \ {0} /\ v \in Results
           /\ s[Len(s)] \in FrameSet /\ Legal(s[Len(s)], told)
           /\ Expected(s[Len(s)], v, told)
           /\ Last(s) = s[Len(s)]
           /\ Len(s) > 1 => s[Len(s)].fn \in Called
  <1>1. s \in Seq(FrameSet) /\ Len(s) \in Nat \ {0}
    BY LenProperties, EmptySeq DEF Sound
  <1>2. Len(s) \in 1 .. Len(s)
    BY <1>1
  <1> QED  BY <1>1, <1>2 DEF Sound, Last

\* A sequence without its last element.
LEMMA FrontIs ==
    ASSUME NEW S, NEW s \in Seq(S), s # <<>>
    PROVE  /\ Front(s) \in Seq(S) /\ Len(Front(s)) = Len(s) - 1
           /\ \A i \in 1 .. Len(s) - 1 : Front(s)[i] = s[i]
  <1>1. Len(s) \in Nat \ {0}
    BY LenProperties, EmptySeq
  <1>2. PICK k \in Nat : k = Len(s) - 1
    BY <1>1
  <1>3. PICK z : z = SubSeq(s, 1, k)
    OBVIOUS
  <1>4. Front(s) = z
    BY <1>2, <1>3 DEF Front
  <1>5. \A i \in 1 .. k : s[i] \in S
    BY <1>1, <1>2, ElementOfSeq
  <1>6. /\ z \in Seq(S) /\ Len(z) = IF 1 <= k THEN k - 1 + 1 ELSE 0
        /\ \A i \in 1 .. k - 1 + 1 : z[i] = s[1 + i - 1]
    BY <1>2, <1>3, <1>5, SubSeqProperties
  <1>7. Len(z) = k
    BY <1>2, <1>6
  <1>8. ASSUME NEW i \in 1 .. k PROVE z[i] = s[i]
    <2>1. i \in 1 .. k - 1 + 1 /\ 1 + i - 1 = i
      BY <1>2
    <2> QED  BY <1>6, <2>1
  <1> QED  BY <1>2, <1>4, <1>6, <1>7, <1>8

\* A sequence whose last element t replaces.
LEMMA Replaced ==
    ASSUME NEW S, NEW s \in Seq(S), s # <<>>, NEW t \in S
    PROVE  LET z == Front(s) \o <<t>> IN
           /\ z \in Seq(S) /\ Len(z) = Len(s) /\ z[Len(s)] = t
           /\ \A i \in 1 .. Len(s) - 1 : z[i] = s[i]
  <1>1. Len(s) \in Nat \ {0}
    BY LenProperties, EmptySeq
  <1>2. Front(s) \in Seq(S) /\ Len(Front(s)) = Len(s) - 1
           /\ \A i \in 1 .. Len(s) - 1 : Front(s)[i] = s[i]
    BY FrontIs
  <1>3. PICK p : p = Front(s)
    OBVIOUS
  <1>4. p \in Seq(S) /\ Len(p) = Len(s) - 1 /\ \A i \in 1 .. Len(s) - 1 : p[i] = s[i]
    BY <1>2, <1>3
  <1>5. PICK z : z = p \o <<t>>
    OBVIOUS
  <1>6. <<t>> \in Seq(S) /\ Len(<<t>>) = 1 /\ <<t>>[1] = t
    OBVIOUS
  <1>7. /\ z \in Seq(S) /\ Len(z) = Len(p) + 1
        /\ \A i \in 1 .. Len(z) : z[i] = IF i <= Len(p) THEN p[i] ELSE <<t>>[i - Len(p)]
    BY <1>4, <1>5, <1>6, ConcatProperties
  <1>8. z[Len(s)] = t /\ \A i \in 1 .. Len(s) - 1 : z[i] = s[i]
    BY <1>1, <1>4, <1>6, <1>7
  <1> QED  BY <1>1, <1>3, <1>4, <1>5, <1>7, <1>8

\* A sequence whose last element t and g replace.
LEMMA ReplacedByTwo ==
    ASSUME NEW S, NEW s \in Seq(S), s # <<>>, NEW t \in S, NEW g \in S
    PROVE  LET z == Front(s) \o <<t, g>> IN
           /\ z \in Seq(S) /\ Len(z) = Len(s) + 1 /\ z[Len(s)] = t /\ z[Len(s) + 1] = g
           /\ \A i \in 1 .. Len(s) - 1 : z[i] = s[i]
  <1>1. Len(s) \in Nat \ {0}
    BY LenProperties, EmptySeq
  <1>2. Front(s) \in Seq(S) /\ Len(Front(s)) = Len(s) - 1
           /\ \A i \in 1 .. Len(s) - 1 : Front(s)[i] = s[i]
    BY FrontIs
  <1>3. PICK p : p = Front(s)
    OBVIOUS
  <1>4. p \in Seq(S) /\ Len(p) = Len(s) - 1 /\ \A i \in 1 .. Len(s) - 1 : p[i] = s[i]
    BY <1>2, <1>3
  <1>5. PICK z : z = p \o <<t, g>>
    OBVIOUS
  <1>a. <<t, g>> \in Seq(S) /\ Len(<<t, g>>) = 2 /\ <<t, g>>[1] = t /\ <<t, g>>[2] = g
    OBVIOUS
  <1>b. PICK q : q = <<t, g>>
    OBVIOUS
  <1>6. q \in Seq(S) /\ Len(q) = 2 /\ q[1] = t /\ q[2] = g
    BY <1>a, <1>b
  <1>7. /\ z \in Seq(S) /\ Len(z) = Len(p) + 2
        /\ \A i \in 1 .. Len(z) : z[i] = IF i <= Len(p) THEN p[i] ELSE q[i - Len(p)]
    BY <1>4, <1>5, <1>6, <1>b, ConcatProperties
  <1>8. z[Len(s)] = t /\ z[Len(s) + 1] = g /\ \A i \in 1 .. Len(s) - 1 : z[i] = s[i]
    <2>1. z[Len(s)] = q[1] /\ z[Len(s) + 1] = q[2]
      BY <1>1, <1>4, <1>6, <1>7
    <2>2. \A i \in 1 .. Len(s) - 1 : z[i] = p[i]
      BY <1>1, <1>4, <1>7
    <2> QED  BY <1>4, <1>6, <2>1, <2>2
  <1> QED  BY <1>1, <1>3, <1>4, <1>5, <1>7, <1>8

\* The innermost call answers its caller.
LEMMA SoundPopped ==
    ASSUME NEW s, NEW v, NEW told, Sound(s, v, told), s # <<>>, NEW w \in Results,
           Len(s) > 1 => Answer(s[Len(s)], w, told)
    PROVE  /\ Front(s) \in Seq(FrameSet) /\ Sound(Front(s), w, told)
           /\ \A a : WaitsFor(Front(s), a) => WaitsFor(s, a)
           /\ Front(s) # <<>> => Front(s)[1] = s[1]
           /\ \A x : Learns(Front(s), x) =>
                  Len(s) > 1 /\ s[Len(s)].fn = "GetResource" /\ s[Len(s)].of = x
  <1>1. /\ s \in Seq(FrameSet) /\ Len(s) \in Nat \ {0}
        /\ s[Len(s)] \in FrameSet /\ Legal(s[Len(s)], told)
    BY SoundTop
  <1>2. PICK z : z = Front(s)
    OBVIOUS
  <1>3. z \in Seq(FrameSet) /\ Len(z) = Len(s) - 1 /\ \A i \in 1 .. Len(s) - 1 : z[i] = s[i]
    BY <1>1, <1>2, FrontIs
  <1>4. \A i \in 1 .. Len(z) : i \in 1 .. Len(s) /\ i < Len(s) /\ z[i] = s[i]
    BY <1>1, <1>3
  <1>5. \A i \in 1 .. Len(z) : Legal(z[i], told) /\ (i > 1 => z[i].fn \in Called)
    BY <1>4 DEF Sound
  <1>6. \A i \in 1 .. Len(z) : i < Len(z) => Linked(z[i], z[i + 1])
    <2> SUFFICES ASSUME NEW i \in 1 .. Len(z), i < Len(z) PROVE Linked(z[i], z[i + 1])
      OBVIOUS
    <2>1. i + 1 \in 1 .. Len(z)
      BY <1>1, <1>3
    <2> QED  BY <1>4, <2>1 DEF Sound
  <1>7. \A i, j \in 1 .. Len(z) : i < j => Rank(z[j]) < Rank(z[i])
    BY <1>4 DEF Sound
  <1>8. z # <<>> => Expected(z[Len(z)], w, told)
    <2> SUFFICES ASSUME z # <<>> PROVE Expected(z[Len(z)], w, told)
      OBVIOUS
    <2>1. Len(z) \in 1 .. Len(z) /\ Len(z) + 1 = Len(s) /\ Len(s) > 1
      BY <1>1, <1>3, EmptySeq
    <2>2. z[Len(z)] = s[Len(z)] /\ Len(z) \in 1 .. Len(s) /\ Len(z) < Len(s)
      BY <1>4, <2>1
    <2>3. Linked(s[Len(z)], s[Len(s)]) /\ Legal(s[Len(z)], told)
      BY <2>1, <2>2 DEF Sound
    <2>4. s[Len(z)] \in FrameSet
      BY <1>1, <2>2, ElementOfSeq
    <2> QED  BY <1>1, <2>1, <2>2, <2>3, <2>4, AnswersAreExpected
  <1>9. \A a : WaitsFor(z, a) => WaitsFor(s, a)
    <2>1. z # <<>> => z[1] = s[1]
      BY <1>1, <1>3, <1>4, EmptySeq
    <2> QED  BY <2>1 DEF WaitsFor
  <1>10. Sound(z, w, told)
    BY <1>3, <1>5, <1>6, <1>7, <1>8 DEF Sound
  <1>11. z # <<>> => z[1] = s[1]
    BY <1>1, <1>3, <1>4, EmptySeq
  <1>12. ASSUME NEW x, Learns(z, x)
         PROVE  Len(s) > 1 /\ s[Len(s)].fn = "GetResource" /\ s[Len(s)].of = x
    <2>1. Len(z) \in 1 .. Len(z) /\ Len(z) + 1 = Len(s) /\ z # <<>> /\ Len(s) > 1
      BY <1>1, <1>3, <1>12, EmptySeq DEF Learns
    <2>2. z[Len(z)] = s[Len(z)] /\ Len(z) \in 1 .. Len(s) /\ Len(z) < Len(s)
      BY <1>4, <2>1
    <2>3. Linked(s[Len(z)], s[Len(s)])
      BY <2>1, <2>2 DEF Sound
    <2>4. /\ s[Len(z)].fn \in {"GetEntity", "GetServer"} /\ s[Len(z)].pc = "got"
          /\ s[Len(z)].of = x
      BY <1>12, <2>2 DEF Learns, Last
    <2> QED  BY <2>1, <2>3, <2>4 DEF Linked
  <1> QED  BY <1>2, <1>3, <1>9, <1>10, <1>11, <1>12

\* The innermost call goes on as t, which waits for no call.
LEMMA SoundReplaced ==
    ASSUME NEW s, NEW v, NEW told, Sound(s, v, told), s # <<>>, NEW w \in Results,
           NEW t \in FrameSet, Legal(t, told), t.pc \in {"fetch", "hung"},
           t.fn = s[Len(s)].fn, t.of = s[Len(s)].of, t.by = s[Len(s)].by
    PROVE  LET z == Front(s) \o <<t>> IN
           /\ z \in Seq(FrameSet) /\ Sound(z, w, told)
           /\ \A a : WaitsFor(z, a) => WaitsFor(s, a)
           /\ \A x : (SendsTo(z, x) <=> SendsTo(s, x)) /\ ~Learns(z, x)
  <1>1. /\ s \in Seq(FrameSet) /\ Len(s) \in Nat \ {0}
        /\ Len(s) > 1 => s[Len(s)].fn \in Called
    BY SoundTop
  <1>2. PICK z : z = Front(s) \o <<t>>
    OBVIOUS
  <1>3. /\ z \in Seq(FrameSet) /\ Len(z) = Len(s) /\ z[Len(s)] = t
        /\ \A i \in 1 .. Len(s) - 1 : z[i] = s[i]
    BY <1>1, <1>2, Replaced
  <1>4. \A i \in 1 .. Len(s) : i # Len(s) => i \in 1 .. Len(s) - 1 /\ z[i] = s[i]
    BY <1>1, <1>3
  <1>5. \A i \in 1 .. Len(s) : Legal(z[i], told) /\ (i > 1 => z[i].fn \in Called)
    <2> SUFFICES ASSUME NEW i \in 1 .. Len(s)
                 PROVE Legal(z[i], told) /\ (i > 1 => z[i].fn \in Called)
      OBVIOUS
    <2>1. CASE i = Len(s)
      BY <1>1, <1>3, <2>1
    <2>2. CASE i # Len(s)
      BY <1>4, <2>2 DEF Sound
    <2> QED  BY <2>1, <2>2
  <1>6. \A i \in 1 .. Len(s) : i < Len(s) => Linked(z[i], z[i + 1])
    <2> SUFFICES ASSUME NEW i \in 1 .. Len(s), i < Len(s) PROVE Linked(z[i], z[i + 1])
      OBVIOUS
    <2>1. Linked(s[i], s[i + 1]) /\ i + 1 \in 1 .. Len(s) /\ z[i] = s[i]
      BY <1>1, <1>4 DEF Sound
    <2>2. CASE i + 1 = Len(s)
      <3>1. z[i + 1] = t /\ Linked(z[i], s[Len(s)])
        BY <1>3, <2>1, <2>2
      <3> QED  BY <3>1 DEF Linked
    <2>3. CASE i + 1 # Len(s)
      BY <1>4, <2>1, <2>3
    <2> QED  BY <2>2, <2>3
  <1>7. \A i \in 1 .. Len(s) : Rank(z[i]) = Rank(s[i])
    <2>1. Rank(t) = Rank(s[Len(s)])
      BY SameCallSameRank
    <2> QED  BY <1>3, <1>4, <2>1
  <1>8. \A i, j \in 1 .. Len(s) : i < j => Rank(z[j]) < Rank(z[i])
    BY <1>7 DEF Sound
  <1>9. Expected(t, w, told)
    BY DEF Expected
  <1>10. \A a : WaitsFor(z, a) => WaitsFor(s, a)
    <2>1. z[1].pc = "got" => z[1] = s[1]
      BY <1>1, <1>3, <1>4
    <2> QED  BY <2>1 DEF WaitsFor
  <1>11. Sound(z, w, told)
    BY <1>3, <1>5, <1>6, <1>8, <1>9 DEF Sound
  <1>12. z # <<>> /\ z[1].fn = s[1].fn /\ z[1].of = s[1].of
    <2>1. z # <<>>
      BY <1>1, <1>3, EmptySeq
    <2>2. CASE Len(s) = 1
      BY <1>3, <2>1, <2>2
    <2>3. CASE Len(s) # 1
      <3>1. 1 \in 1 .. Len(s) - 1
        <4>1. PICK n : n = Len(s)
          OBVIOUS
        <4>2. n \in Nat \ {0} /\ n # 1
          BY <1>1, <2>3, <4>1
        <4>3. 1 \in 1 .. n - 1
          BY <4>2
        <4> QED  BY <4>1, <4>3
      <3> QED  BY <1>3, <2>1, <3>1
    <2> QED  BY <2>2, <2>3
  <1>13. \A x : SendsTo(z, x) <=> SendsTo(s, x)
    BY <1>12, SentStays
  <1>14. \A x : ~Learns(z, x)
    BY <1>3 DEF Learns, Last
  <1> QED  BY <1>2, <1>3, <1>10, <1>11, <1>13, <1>14

\* The innermost call goes on as t and makes the call g.
LEMMA SoundPushed ==
    ASSUME NEW s, NEW v, NEW told, Sound(s, v, told), s # <<>>, NEW w \in Results,
           NEW t \in FrameSet, Legal(t, told),
           t.fn = s[Len(s)].fn, t.of = s[Len(s)].of, t.by = s[Len(s)].by,
           NEW g \in FrameSet, Legal(g, told), g.fn \in Called, g.pc = "start", Linked(t, g)
    PROVE  LET z == Front(s) \o <<t, g>> IN
           /\ z \in Seq(FrameSet) /\ Sound(z, w, told)
           /\ \A a : WaitsFor(z, a) => WaitsFor(s, a) \/ (t.fn = "Get" /\ t.of = a)
           /\ \A x : (SendsTo(z, x) <=> SendsTo(s, x)) /\ ~Learns(z, x)
  <1>1. /\ s \in Seq(FrameSet) /\ Len(s) \in Nat \ {0}
        /\ Len(s) > 1 => s[Len(s)].fn \in Called
    BY SoundTop
  <1>2. PICK z : z = Front(s) \o <<t, g>>
    OBVIOUS
  <1>3. /\ z \in Seq(FrameSet) /\ Len(z) = Len(s) + 1 /\ z[Len(s)] = t /\ z[Len(s) + 1] = g
        /\ \A i \in 1 .. Len(s) - 1 : z[i] = s[i]
    BY <1>1, <1>2, ReplacedByTwo
  <1>4. \A i \in 1 .. Len(s) : i # Len(s) => i \in 1 .. Len(s) - 1 /\ z[i] = s[i]
    BY <1>1, <1>3
  <1>a. \A i \in 1 .. Len(z) : i \in 1 .. Len(s) \/ i = Len(s) + 1
    BY <1>1, <1>3
  <1>5. \A i \in 1 .. Len(z) : Legal(z[i], told) /\ (i > 1 => z[i].fn \in Called)
    <2> SUFFICES ASSUME NEW i \in 1 .. Len(z)
                 PROVE Legal(z[i], told) /\ (i > 1 => z[i].fn \in Called)
      OBVIOUS
    <2>1. CASE i = Len(s)
      BY <1>1, <1>3, <2>1
    <2>2. CASE i \in 1 .. Len(s) /\ i # Len(s)
      BY <1>4, <2>2 DEF Sound
    <2>3. CASE i = Len(s) + 1
      BY <1>3, <2>3
    <2> QED  BY <1>a, <2>1, <2>2, <2>3
  <1>6. \A i \in 1 .. Len(z) : i < Len(z) => Linked(z[i], z[i + 1])
    <2> SUFFICES ASSUME NEW i \in 1 .. Len(z), i < Len(z) PROVE Linked(z[i], z[i + 1])
      OBVIOUS
    <2>1. CASE i = Len(s)
      BY <1>3, <2>1
    <2>2. CASE i < Len(s)
      <3>1. /\ i \in 1 .. Len(s) /\ i # Len(s) /\ i + 1 \in 1 .. Len(s) /\ z[i] = s[i]
            /\ Linked(s[i], s[i + 1])
        BY <1>1, <1>4, <2>2 DEF Sound
      <3>2. CASE i + 1 = Len(s)
        <4>1. z[i + 1] = t /\ Linked(z[i], s[Len(s)])
          BY <1>3, <3>1, <3>2
        <4> QED  BY <4>1 DEF Linked
      <3>3. CASE i + 1 # Len(s)
        BY <1>4, <3>1, <3>3
      <3> QED  BY <3>2, <3>3
    <2> QED  BY <1>1, <1>3, <2>1, <2>2
  <1>7. \A i \in 1 .. Len(s) : Rank(z[i]) = Rank(s[i])
    <2>1. Rank(t) = Rank(s[Len(s)])
      BY SameCallSameRank
    <2> QED  BY <1>3, <1>4, <2>1
  <1>8. \A i, j \in 1 .. Len(z) : i < j => Rank(z[j]) < Rank(z[i])
    <2>1. Rank(g) < Rank(t)
      BY Descends
    <2> SUFFICES ASSUME NEW i \in 1 .. Len(z), NEW j \in 1 .. Len(z), i < j
                 PROVE Rank(z[j]) < Rank(z[i])
      OBVIOUS
    <2>2. CASE j \in 1 .. Len(s)
      <3>1. i \in 1 .. Len(s)
        BY <1>1, <2>2
      <3> QED  BY <1>7, <2>2, <3>1 DEF Sound
    <2>3. CASE j = Len(s) + 1
      <3>1. i \in 1 .. Len(s) /\ Len(s) \in 1 .. Len(s) /\ (i = Len(s) \/ i < Len(s))
        BY <1>1, <2>3
      <3>2. Rank(z[j]) < Rank(z[Len(s)])
        BY <1>3, <2>1, <2>3
      <3>3. i < Len(s) => Rank(z[Len(s)]) < Rank(z[i])
        BY <1>7, <3>1 DEF Sound
      <3>4. Rank(z[j]) \in Nat /\ Rank(z[i]) \in Nat /\ Rank(z[Len(s)]) \in Nat
        BY RankIsNumber
      <3> QED  BY <3>1, <3>2, <3>3, <3>4
    <2> QED  BY <1>a, <2>2, <2>3
  <1>9. Expected(g, w, told)
    BY DEF Expected
  <1>10. \A a : WaitsFor(z, a) => WaitsFor(s, a) \/ (t.fn = "Get" /\ t.of = a)
    <2>1. z[1] = s[1] \/ z[1] = t
      BY <1>1, <1>3, <1>4
    <2> QED  BY <2>1 DEF WaitsFor
  <1>11. Sound(z, w, told)
    BY <1>3, <1>5, <1>6, <1>8, <1>9 DEF Sound
  <1>12. z # <<>> /\ z[1].fn = s[1].fn /\ z[1].of = s[1].of
    <2>1. z # <<>>
      BY <1>1, <1>3, EmptySeq
    <2>2. CASE Len(s) = 1
      BY <1>3, <2>1, <2>2
    <2>3. CASE Len(s) # 1
      <3>1. 1 \in 1 .. Len(s) - 1
        <4>1. PICK n : n = Len(s)
          OBVIOUS
        <4>2. n \in Nat \ {0} /\ n # 1
          BY <1>1, <2>3, <4>1
        <4>3. 1 \in 1 .. n - 1
          BY <4>2
        <4> QED  BY <4>1, <4>3
      <3> QED  BY <1>3, <2>1, <3>1
    <2> QED  BY <2>2, <2>3
  <1>13. \A x : SendsTo(z, x) <=> SendsTo(s, x)
    BY <1>12, SentStays
  <1>14. \A x : ~Learns(z, x)
    BY <1>3 DEF Learns, Last
  <1> QED  BY <1>2, <1>3, <1>10, <1>11, <1>13, <1>14

-----------------------------------------------------------------------------
(* What a step does to the stacks.                                          *)

(***************************************************************************)
(* The stacks stay sound; no request begins to wait for an entity that is  *)
(* registered here; a request on its way to an id keeps what it has heard, *)
(* or begins with what is known; and what a call is about to keep of an id *)
(* was known, or every request on its way to the id hears it.              *)
(***************************************************************************)
Onward ==
    /\ Stacks'
    /\ UNCHANGED world
    /\ \A q \in Request, a \in registered : WaitsFor(stack'[q], a) => WaitsFor(stack[q], a)
    /\ \A q \in Request, x \in Ids : SendsTo(stack'[q], x) =>
           (SendsTo(stack[q], x) /\ heard[q] \subseteq heard'[q]) \/ Held(x) \subseteq heard'[q]
    /\ \A q \in Request, x \in Ids : Learns(stack'[q], x) =>
           \/ result'[q] = Error
           \/ Learns(stack[q], x) /\ result'[q] = result[q]
           \/ \A p \in Request : SendsTo(stack'[p], x) => result'[q].at \in heard'[p]

\* The values calls return are results.
LEMMA ResultTypes ==
    /\ Error \in Results /\ None \in Results /\ None # Error
    /\ AnyEntity \subseteq Results /\ AnyServer \subseteq Results
    /\ \A x \in Names : Name(x) \in Results /\ Sent(x) \in Results
    /\ None \notin AnyEntity /\ Error \notin AnyEntity
    /\ None \notin AnyServer /\ Error \notin AnyServer
  <1>1. "" \in Names /\ Ccid \subseteq Names /\ Csid \subseteq Names /\ Told \subseteq Names
    BY ResolverAssumption DEF Names, Address
  <1>2. /\ Error \in Results /\ None \in Results /\ None # Error
        /\ \A x \in Names : Name(x) \in Results /\ Sent(x) \in Results
    BY <1>1 DEF Error, None, Name, Sent, Results
  <1>3. ASSUME NEW v \in AnyEntity PROVE v \in Results /\ v # None /\ v # Error
    <2>1. PICK a \in Ccid, d \in Told : v = Entity(a, d)
      BY <1>3 DEF AnyEntity
    <2>2. a \in Names /\ d \in Names
      BY <1>1
    <2> QED  BY <2>1, <2>2 DEF Entity, Results, None, Error
  <1>4. ASSUME NEW v \in AnyServer PROVE v \in Results /\ v # None /\ v # Error
    <2>1. PICK c \in Csid, d \in Told : v = Server(c, d)
      BY <1>4 DEF AnyServer
    <2>2. c \in Names /\ d \in Names
      BY <1>1
    <2> QED  BY <2>1, <2>2 DEF Server, Results, None, Error
  <1> QED  BY <1>2, <1>3, <1>4

\* What entities and servers are made of.
LEMMA Parts ==
    /\ \A v \in AnyEntity : v.of \in Ccid /\ v.at \in Told
    /\ \A v \in AnyServer : v.of \in Csid /\ v.at \in Told
    /\ \A d : Name(d).at = d
  BY DEF AnyEntity, AnyServer, Entity, Server, Name

\* The innermost call of a request that is busy.
LEMMA TopIs ==
    ASSUME Stacks, NEW r \in Request, Busy(r)
    PROVE  /\ Top(r) = stack[r][Len(stack[r])] /\ Top(r) \in FrameSet
           /\ Legal(Top(r), Seen(r)) /\ Expected(Top(r), result[r], Seen(r))
           /\ stack[r] \in Seq(FrameSet) /\ Sound(stack[r], result[r], Seen(r))
           /\ stack[r] # <<>> /\ Len(stack[r]) \in Nat \ {0} /\ result[r] \in Results
           /\ Len(stack[r]) > 1 => Top(r).fn \in Called
  <1>1. Sound(stack[r], result[r], Seen(r)) /\ stack[r] # <<>>
    BY DEF Stacks, Busy
  <1>2. PICK s : s = stack[r]
    OBVIOUS
  <1>3. PICK v : v = result[r]
    OBVIOUS
  <1>4. PICK m : m = Seen(r)
    OBVIOUS
  <1>5. Sound(s, v, m) /\ s # <<>>
    BY <1>1, <1>2, <1>3, <1>4
  <1>6. /\ s \in Seq(FrameSet) /\ Len(s) \in Nat \ {0} /\ v \in Results
        /\ s[Len(s)] \in FrameSet /\ Legal(s[Len(s)], m)
        /\ Expected(s[Len(s)], v, m)
        /\ Last(s) = s[Len(s)]
        /\ Len(s) > 1 => s[Len(s)].fn \in Called
    BY <1>5, SoundTop
  <1> QED  BY <1>1, <1>2, <1>3, <1>4, <1>6 DEF Top

\* The stack of one request changes to z and what it was last returned to w; others may hear.
LEMMA OneStack ==
    ASSUME Stacks, NEW r \in Request, NEW z, NEW w,
           stack' = [stack EXCEPT ![r] = z], result' = [result EXCEPT ![r] = w],
           UNCHANGED world, z \in Seq(FrameSet), w \in Results,
           heard' \in [Request -> SUBSET Told],
           \A q \in Request : q # r => heard[q] \subseteq heard'[q],
           Sound(z, w, View(z, heard'[r])),
           \A a \in registered : WaitsFor(z, a) => WaitsFor(stack[r], a),
           \A x \in Ids : SendsTo(z, x) =>
               \/ SendsTo(stack[r], x) /\ heard[r] \subseteq heard'[r]
               \/ Held(x) \subseteq heard'[r],
           \A x \in Ids : Learns(z, x) =>
               \/ w = Error
               \/ \A p \in Request : SendsTo(stack'[p], x) => w.at \in heard'[p]
    PROVE  Onward
  <1>1. /\ stack' \in [Request -> Seq(FrameSet)] /\ result' \in [Request -> Results]
        /\ stack'[r] = z /\ result'[r] = w
        /\ \A q \in Request : q # r => stack'[q] = stack[q] /\ result'[q] = result[q]
    BY DEF Stacks
  <1>2. ASSUME NEW q \in Request PROVE Sound(stack'[q], result'[q], View(stack'[q], heard'[q]))
    <2>1. CASE q = r
      BY <1>1, <2>1
    <2>2. CASE q # r
      <3>1. PICK h : h = heard[q]
        OBVIOUS
      <3>2. PICK k : k = heard'[q]
        OBVIOUS
      <3>3. PICK s : s = stack[q]
        OBVIOUS
      <3>4. PICK v : v = result[q]
        OBVIOUS
      <3>5. Sound(s, v, View(s, h)) /\ h \in SUBSET Told
        BY <3>1, <3>3, <3>4 DEF Stacks, Seen
      <3>6. k \in SUBSET Told /\ h \subseteq k
        BY <2>2, <3>1, <3>2
      <3>7. Sound(s, v, View(s, k))
        BY <3>5, <3>6, ViewGrows, SoundStays
      <3> QED  BY <1>1, <2>2, <3>2, <3>3, <3>4, <3>7
    <2> QED  BY <2>1, <2>2
  <1>3. Stacks'
    BY <1>1, <1>2 DEF Stacks, Seen
  <1>4. ASSUME NEW q \in Request, NEW x \in Ids, SendsTo(stack'[q], x)
        PROVE  \/ SendsTo(stack[q], x) /\ heard[q] \subseteq heard'[q]
               \/ Held(x) \subseteq heard'[q]
    BY <1>1, <1>4
  <1>5. ASSUME NEW q \in Request, NEW x \in Ids, Learns(stack'[q], x)
        PROVE  \/ result'[q] = Error
               \/ Learns(stack[q], x) /\ result'[q] = result[q]
               \/ \A p \in Request : SendsTo(stack'[p], x) => result'[q].at \in heard'[p]
    <2>1. CASE q = r
      BY <1>1, <1>5, <2>1
    <2>2. CASE q # r
      BY <1>1, <1>5, <2>2
    <2> QED  BY <2>1, <2>2
  <1>6. ASSUME NEW q \in Request, NEW a \in registered, WaitsFor(stack'[q], a)
        PROVE  WaitsFor(stack[q], a)
    BY <1>1, <1>6
  <1> QED  BY <1>3, <1>4, <1>5, <1>6 DEF Onward

\* A call returns, and what it tells of an id every request on its way there hears.
LEMMA GiveOnward ==
    ASSUME Stacks, NEW r \in Request, Busy(r), NEW w \in Results, Give(r, w),
           heard' \in [Request -> SUBSET Told],
           \A q \in Request : heard[q] \subseteq heard'[q],
           Len(stack[r]) > 1 => Answer(Top(r), w, View(stack[r], heard'[r])),
           Top(r).fn = "GetResource" /\ Len(stack[r]) > 1 =>
               \/ w = Error
               \/ \A p \in Request : SentTo(p, Top(r).of) => w.at \in heard'[p]
    PROVE  Onward
  <1>1. PICK s : s = stack[r]
    OBVIOUS
  <1>2. PICK v : v = result[r]
    OBVIOUS
  <1>3. PICK h : h = heard[r]
    OBVIOUS
  <1>4. PICK k : k = heard'[r]
    OBVIOUS
  <1>5. h \in SUBSET Told /\ k \in SUBSET Told /\ h \subseteq k
    BY <1>3, <1>4 DEF Stacks
  <1>6. /\ Sound(s, v, View(s, h)) /\ s # <<>> /\ Top(r) = s[Len(s)]
        /\ (Len(s) > 1 => Answer(s[Len(s)], w, View(s, k)))
    BY <1>1, <1>2, <1>3, <1>4, TopIs DEF Seen
  <1>7. Sound(s, v, View(s, k))
    BY <1>5, <1>6, ViewGrows, SoundStays
  <1>8. PICK z : z = Front(s)
    OBVIOUS
  <1>9. /\ z \in Seq(FrameSet) /\ Sound(z, w, View(s, k))
        /\ \A a : WaitsFor(z, a) => WaitsFor(s, a)
        /\ z # <<>> => z[1] = s[1]
        /\ \A x : Learns(z, x) =>
               Len(s) > 1 /\ s[Len(s)].fn = "GetResource" /\ s[Len(s)].of = x
    BY <1>6, <1>7, <1>8, SoundPopped
  <1>10. \A x : SendsTo(z, x) => SendsTo(s, x)
    BY <1>6, <1>9 DEF SendsTo
  <1>11. Sound(z, w, View(z, k))
    <2>1. CASE z = <<>>
      <3>1. Len(z) = 0
        BY <2>1
      <3> QED  BY <1>9, <2>1, <3>1 DEF Sound
    <2>2. CASE z # <<>>
      BY <1>6, <1>9, <2>2, SentStays, ViewStays
    <2> QED  BY <2>1, <2>2
  <1>12. stack' = [stack EXCEPT ![r] = z] /\ result' = [result EXCEPT ![r] = w]
    BY <1>1, <1>8 DEF Give
  <1>13. \A p \in Request : \A x : SendsTo(stack'[p], x) => SentTo(p, x)
    <2> SUFFICES ASSUME NEW p \in Request, NEW x, SendsTo(stack'[p], x) PROVE SentTo(p, x)
      OBVIOUS
    <2>1. stack'[p] = IF p = r THEN z ELSE stack[p]
      BY <1>12 DEF Stacks
    <2>2. SendsTo(stack[p], x)
      BY <1>1, <1>10, <2>1
    <2> QED  BY <2>2, AsStacks
  <1>14. ASSUME NEW x \in Ids, Learns(z, x)
         PROVE  \/ w = Error
                \/ \A p \in Request : SendsTo(stack'[p], x) => w.at \in heard'[p]
    BY <1>1, <1>6, <1>9, <1>13, <1>14
  <1>15. UNCHANGED world
    BY DEF Give
  <1>16. \A x \in Ids : SendsTo(z, x) => SendsTo(stack[r], x) /\ heard[r] \subseteq heard'[r]
    BY <1>1, <1>10
  <1>17. \A a \in registered : WaitsFor(z, a) => WaitsFor(stack[r], a)
    BY <1>1, <1>9
  <1>18. Sound(z, w, View(z, heard'[r]))
    BY <1>4, <1>11
  <1> QED  BY <1>9, <1>12, <1>14, <1>15, <1>16, <1>17, <1>18, OneStack

\* A call returns and tells nothing new.
LEMMA ReturnOnward ==
    ASSUME Stacks, NEW r \in Request, Busy(r), NEW w \in Results, Return(r, w),
           Len(stack[r]) > 1 => Answer(Top(r), w, Seen(r)),
           Top(r).fn = "GetResource" /\ Len(stack[r]) > 1 => w = Error
    PROVE  Onward
  <1>1. Give(r, w) /\ heard' = heard
    BY DEF Return
  <1>2. heard' \in [Request -> SUBSET Told] /\ \A q \in Request : heard[q] \subseteq heard'[q]
    BY <1>1 DEF Stacks
  <1>3. Len(stack[r]) > 1 => Answer(Top(r), w, View(stack[r], heard'[r]))
    BY <1>1 DEF Seen
  <1> QED  BY <1>1, <1>2, <1>3, GiveOnward

\* A call makes a request of its own, or is never answered.
LEMMA FetchOnward ==
    ASSUME Stacks, NEW r \in Request, Busy(r), NEW t \in FrameSet, NEW w \in Results,
           stack' = [stack EXCEPT ![r] = Front(@) \o <<t>>], result' = [result EXCEPT ![r] = w],
           UNCHANGED world, UNCHANGED heard, Legal(t, Seen(r)), t.pc \in {"fetch", "hung"},
           t.fn = Top(r).fn, t.of = Top(r).of, t.by = Top(r).by
    PROVE  Onward
  <1>1. PICK s : s = stack[r]
    OBVIOUS
  <1>2. PICK v : v = result[r]
    OBVIOUS
  <1>3. PICK h : h = heard[r]
    OBVIOUS
  <1>4. Sound(s, v, View(s, h)) /\ s # <<>> /\ Legal(t, View(s, h))
    BY <1>1, <1>2, <1>3, TopIs DEF Seen
  <1>5. t.fn = s[Len(s)].fn /\ t.of = s[Len(s)].of /\ t.by = s[Len(s)].by
    BY <1>1, TopIs
  <1>6. PICK z : z = Front(s) \o <<t>>
    OBVIOUS
  <1>7. /\ z \in Seq(FrameSet) /\ Sound(z, w, View(s, h))
        /\ \A a : WaitsFor(z, a) => WaitsFor(s, a)
        /\ \A x : (SendsTo(z, x) <=> SendsTo(s, x)) /\ ~Learns(z, x)
    BY <1>4, <1>5, <1>6, SoundReplaced
  <1>8. stack' = [stack EXCEPT ![r] = z]
    BY <1>1, <1>6
  <1>9. View(z, h) = View(s, h)
    BY <1>7, ViewStays
  <1>10. heard' \in [Request -> SUBSET Told] /\ heard' = heard /\ heard'[r] = h
    BY <1>3 DEF Stacks
  <1>11. Sound(z, w, View(z, heard'[r]))
    BY <1>7, <1>9, <1>10
  <1> QED  BY <1>1, <1>7, <1>8, <1>10, <1>11, OneStack

\* A call makes a call, and no Get waits anew for an entity registered here.
LEMMA CallOnward ==
    ASSUME Stacks, NEW r \in Request, Busy(r),
           NEW pc \in {"got", "info", "resolved"}, NEW fn \in Called, NEW of \in Names,
           NEW by \in Names, Call(r, pc, fn, of, by),
           Legal([Top(r) EXCEPT !.pc = pc], Seen(r)), Legal(Frame(fn, of, by), Seen(r)),
           Linked([Top(r) EXCEPT !.pc = pc], Frame(fn, of, by)),
           Top(r).fn = "Get" => Top(r).of \notin registered
    PROVE  Onward
  <1>1. PICK s : s = stack[r]
    OBVIOUS
  <1>2. PICK v : v = result[r]
    OBVIOUS
  <1>3. PICK h : h = heard[r]
    OBVIOUS
  <1>4. PICK t : t = [Top(r) EXCEPT !.pc = pc]
    OBVIOUS
  <1>5. PICK g : g = Frame(fn, of, by)
    OBVIOUS
  <1>6. Top(r) \in FrameSet /\ Top(r) = s[Len(s)]
    BY <1>1, TopIs
  <1>7. t \in FrameSet /\ t.fn = Top(r).fn /\ t.of = Top(r).of /\ t.by = Top(r).by
    BY <1>4, <1>6 DEF FrameSet
  <1>8. g \in FrameSet /\ g.fn = fn /\ g.pc = "start"
    BY <1>5 DEF Frame, FrameSet, Called, Functions, Names
  <1>9. /\ Sound(s, v, View(s, h)) /\ s # <<>>
        /\ Legal(t, View(s, h)) /\ Legal(g, View(s, h)) /\ Linked(t, g)
    BY <1>1, <1>2, <1>3, <1>4, <1>5, TopIs DEF Seen
  <1>10. t.fn = s[Len(s)].fn /\ t.of = s[Len(s)].of /\ t.by = s[Len(s)].by /\ g.fn \in Called
    BY <1>6, <1>7, <1>8
  <1>11. PICK z : z = Front(s) \o <<t, g>>
    OBVIOUS
  <1>12. None \in Results
    BY ResultTypes
  <1>13. /\ z \in Seq(FrameSet) /\ Sound(z, None, View(s, h))
         /\ \A a : WaitsFor(z, a) => WaitsFor(s, a) \/ (t.fn = "Get" /\ t.of = a)
         /\ \A x : (SendsTo(z, x) <=> SendsTo(s, x)) /\ ~Learns(z, x)
    BY <1>7, <1>8, <1>9, <1>10, <1>11, <1>12, SoundPushed
  <1>14. stack' = [stack EXCEPT ![r] = z] /\ result' = [result EXCEPT ![r] = None]
    BY <1>1, <1>4, <1>5, <1>11 DEF Call, Top
  <1>15. UNCHANGED world /\ heard' = heard
    BY DEF Call
  <1>16. \A a \in registered : WaitsFor(z, a) => WaitsFor(stack[r], a)
    BY <1>1, <1>7, <1>13
  <1>17. View(z, h) = View(s, h)
    BY <1>13, ViewStays
  <1>18. heard' \in [Request -> SUBSET Told] /\ heard'[r] = h
    BY <1>3, <1>15 DEF Stacks
  <1>19. Sound(z, None, View(z, heard'[r]))
    BY <1>13, <1>17, <1>18
  <1> QED
    BY <1>1, <1>12, <1>13, <1>14, <1>15, <1>16, <1>18, <1>19, OneStack

-----------------------------------------------------------------------------
(* Each step.                                                               *)

\* The fields of a call that goes on, and of one just made.
LEMMA GoesOn ==
    ASSUME NEW f \in FrameSet, NEW pc
    PROVE  LET t == [f EXCEPT !.pc = pc] IN
           t.fn = f.fn /\ t.of = f.of /\ t.by = f.by /\ t.pc = pc /\ t.to = f.to
  BY DEF FrameSet

\* The fields of a call that makes a request.
LEMMA Fetching ==
    ASSUME NEW f \in FrameSet, NEW to \in Names
    PROVE  LET t == [f EXCEPT !.pc = "fetch", !.to = to] IN
           /\ t \in FrameSet /\ t.fn = f.fn /\ t.of = f.of /\ t.by = f.by
           /\ t.pc = "fetch" /\ t.to = to
  BY DEF FrameSet

\* The fields of a call just made.
LEMMA FrameFields ==
    ASSUME NEW fn, NEW of, NEW by
    PROVE  LET g == Frame(fn, of, by) IN g.fn = fn /\ g.of = of /\ g.by = by /\ g.pc = "start"
  BY DEF Frame

\* Names of each kind are names.
LEMMA NamesAre ==
    /\ Domain \subseteq Names /\ Ccid \subseteq Names /\ Csid \subseteq Names /\ "" \in Names
    /\ Address \subseteq Names /\ Address = Domain \cup Ccid \cup Csid
    /\ Default \in Domain /\ Default # "" /\ Default \notin Csid
  BY ResolverAssumption DEF Address, Names

\* A Get is asked, never called: its answer goes to the handler.
LEMMA AskedAlone ==
    ASSUME Stacks, NEW r \in Request, Busy(r), Top(r).fn \in {"Get", "Resolve", "HttpRequest"}
    PROVE  ~ (Len(stack[r]) > 1)
  <1>1. Len(stack[r]) > 1 => Top(r).fn \in Called
    BY TopIs
  <1> QED  BY <1>1 DEF Called

\* Get answers from the table, fails, or asks the client.
LEMMA GetGoesOn == ASSUME Resolved, NEW r \in Request, Get(r) PROVE Onward
  <1>1. Busy(r) /\ Top(r).fn = "Get" /\ Stacks /\ Entities /\ Overtaken
    BY DEF Get, In, Resolved
  <1>2. /\ Top(r) \in FrameSet /\ Legal(Top(r), Seen(r)) /\ Top(r).of \in Ccid
        /\ ~ (Len(stack[r]) > 1) /\ Top(r).of \in Names /\ Top(r).by \in Names
    BY <1>1, TopIs, AskedAlone DEF Legal, FrameSet
  <1>3. CASE Return(r, entities[Top(r).of])
    <2>1. entities[Top(r).of] \in Results
      BY <1>1, <1>2, ResultTypes DEF Entities
    <2> QED  BY <1>1, <1>2, <1>3, <2>1, ReturnOnward
  <1>4. CASE Return(r, Error)
    BY <1>1, <1>2, <1>4, ResultTypes, ReturnOnward
  <1>5. CASE entities[Top(r).of] = None /\ Call(r, "got", "GetEntity", Top(r).of, Top(r).by)
    <2> DEFINE t == [Top(r) EXCEPT !.pc = "got"]
               g == Frame("GetEntity", Top(r).of, Top(r).by)
    <2>1. t.fn = "Get" /\ t.of = Top(r).of /\ t.pc = "got"
      BY <1>1, <1>2, GoesOn
    <2>2. g.fn = "GetEntity" /\ g.of = Top(r).of
      BY FrameFields
    <2> HIDE DEF t, g
    <2>3. Legal(t, Seen(r)) /\ Legal(g, Seen(r)) /\ Linked(t, g)
      BY <1>2, <2>1, <2>2 DEF Legal, Linked
    <2>4. Top(r).of \notin registered
      BY <1>1, <1>2, <1>5 DEF Overtaken
    <2> USE DEF t, g
    <2>5. "got" \in {"got", "info", "resolved"} /\ "GetEntity" \in Called
      BY DEF Called
    <2> QED  BY <1>1, <1>2, <1>5, <2>3, <2>4, <2>5, CallOnward
  <1> QED  BY <1>3, <1>4, <1>5 DEF Get, InTable

\* Get returns the client's failure.
LEMMA GetFailedGoesOn == ASSUME Resolved, NEW r \in Request, GetFailed(r) PROVE Onward
  <1>1. Busy(r) /\ Top(r).fn = "Get" /\ Stacks /\ Return(r, Error)
    BY DEF GetFailed, In, Resolved
  <1> QED  BY <1>1, AskedAlone, ResultTypes, ReturnOnward

\* Get returns the entity it has stored.
LEMMA GetStoredGoesOn == ASSUME Resolved, NEW r \in Request, GetStored(r) PROVE Onward
  <1>1. Busy(r) /\ Top(r).fn = "Get" /\ Stacks /\ Return(r, result[r])
    BY DEF GetStored, In, Resolved
  <1>2. result[r] \in Results
    BY <1>1, TopIs
  <1> QED  BY <1>1, <1>2, AskedAlone, ReturnOnward

\* Resolve answers from the table, fails, or asks the client.
LEMMA ResolveGoesOn == ASSUME Resolved, NEW r \in Request, Resolve(r) PROVE Onward
  <1>1. Busy(r) /\ Top(r).fn = "Resolve" /\ Stacks /\ Servers
    BY DEF Resolve, In, Resolved
  <1>2. /\ Top(r) \in FrameSet /\ Legal(Top(r), Seen(r))
        /\ ~ (Len(stack[r]) > 1) /\ Top(r).of \in Names /\ Top(r).by \in Names
    BY <1>1, TopIs, AskedAlone DEF FrameSet
  <1>3. ASSUME NEW d \in Rows(Top(r).of), Return(r, Server(servers[d], d))
        PROVE  Onward
    <2>1. Server(servers[d], d) \in Results
      BY <1>1, NamesAre DEF Rows, Servers, Server, Results
    <2> QED  BY <1>1, <1>2, <1>3, <2>1, ReturnOnward
  <1>4. CASE Return(r, Error)
    BY <1>1, <1>2, <1>4, ResultTypes, ReturnOnward
  <1>5. CASE Top(r).by # "" /\ Call(r, "got", "GetServer", Top(r).of, Top(r).by)
    <2> DEFINE t == [Top(r) EXCEPT !.pc = "got"]
               g == Frame("GetServer", Top(r).of, Top(r).by)
    <2>1. t.fn = "Resolve" /\ t.of = Top(r).of /\ t.by = Top(r).by /\ t.pc = "got"
      BY <1>1, <1>2, GoesOn
    <2>2. g.fn = "GetServer" /\ g.of = Top(r).of /\ g.pc = "start"
      BY FrameFields
    <2> HIDE DEF t, g
    <2>3. Legal(t, Seen(r)) /\ Legal(g, Seen(r)) /\ Linked(t, g)
      BY <1>1, <1>2, <1>5, <2>1, <2>2 DEF Legal, Linked
    <2> USE DEF t, g
    <2>4. "got" \in {"got", "info", "resolved"} /\ "GetServer" \in Called
      BY DEF Called
    <2> QED  BY <1>1, <1>2, <1>5, <2>3, <2>4, CallOnward
  <1> QED  BY <1>3, <1>4, <1>5 DEF Resolve

\* Resolve returns the client's failure.
LEMMA ResolveFailedGoesOn == ASSUME Resolved, NEW r \in Request, ResolveFailed(r) PROVE Onward
  <1>1. Busy(r) /\ Top(r).fn = "Resolve" /\ Stacks /\ Return(r, Error)
    BY DEF ResolveFailed, In, Resolved
  <1> QED  BY <1>1, AskedAlone, ResultTypes, ReturnOnward

\* Resolve returns the server it has stored.
LEMMA ResolveStoredGoesOn == ASSUME Resolved, NEW r \in Request, ResolveStored(r) PROVE Onward
  <1>1. Busy(r) /\ Top(r).fn = "Resolve" /\ Stacks /\ Return(r, result[r])
    BY DEF ResolveStored, In, Resolved
  <1>2. result[r] \in Results
    BY <1>1, TopIs
  <1> QED  BY <1>1, <1>2, AskedAlone, ReturnOnward

\* What is cached of an id, the request may have been told.
LEMMA CachedSeen ==
    ASSUME Entities, Servers, Fresh, NEW r \in Request, NEW x \in Ids, Cached(x) # None
    PROVE  Cached(x).at \in Seen(r)[x]
  <1>1. Cached(x) \in AnyEntity \/ Cached(x) \in AnyServer
    BY NamesAre DEF Cached, Entities, Servers, Ids
  <1>2. Cached(x).at \in Told /\ Cached(x) # Error
    BY <1>1, Parts, ResultTypes
  <1>3. CASE SendsTo(stack[r], x)
    <2>1. Held(x) \subseteq heard[r]
      BY <1>3, AsStacks DEF Fresh
    <2>2. Cached(x).at \in Held(x)
      BY <1>2 DEF Held
    <2> QED  BY <1>3, <2>1, <2>2 DEF Seen, View
  <1>4. CASE ~SendsTo(stack[r], x)
    BY <1>2, <1>4 DEF Seen, View
  <1> QED  BY <1>3, <1>4

\* GetEntity answers from the cache or asks for the resource.
LEMMA GetEntityGoesOn == ASSUME Resolved, NEW r \in Request, GetEntity(r) PROVE Onward
  <1>1. Busy(r) /\ Top(r).fn = "GetEntity" /\ Stacks /\ Entities /\ Servers /\ Fresh
    BY DEF GetEntity, In, Resolved
  <1>2. /\ Top(r) \in FrameSet /\ Legal(Top(r), Seen(r)) /\ Top(r).of \in Ccid
        /\ Top(r).of \in Names /\ Top(r).by \in Names
    BY <1>1, TopIs DEF Legal, FrameSet
  <1>3. CASE known[Top(r).of] # None /\ Return(r, known[Top(r).of])
    <2> DEFINE w == known[Top(r).of]
    <2>1. w \in AnyEntity
      BY <1>1, <1>2, <1>3 DEF Entities
    <2>2. w \in Results
      BY <2>1, ResultTypes
    <2>3. w.at \in Seen(r)[Top(r).of]
      BY <1>1, <1>2, <1>3, <2>1, Parts, CachedSeen DEF Ids, Cached
    <2>4. Answer(Top(r), w, Seen(r))
      BY <1>1, <2>1, <2>3 DEF Answer, AnEntity
    <2> QED  BY <1>1, <1>3, <2>2, <2>4, ReturnOnward
  <1>4. CASE Call(r, "got", "GetResource", Top(r).of, HintOrDefault(Top(r).by))
    <2> DEFINE t == [Top(r) EXCEPT !.pc = "got"]
               g == Frame("GetResource", Top(r).of, HintOrDefault(Top(r).by))
    <2>1. t.fn = "GetEntity" /\ t.of = Top(r).of /\ t.pc = "got"
      BY <1>1, <1>2, GoesOn
    <2>2. /\ g.fn = "GetResource" /\ g.of = Top(r).of /\ g.pc = "start"
          /\ g.by = HintOrDefault(Top(r).by)
      BY FrameFields
    <2>3. HintOrDefault(Top(r).by) # "" /\ HintOrDefault(Top(r).by) \in Names
      BY <1>2, NamesAre DEF HintOrDefault
    <2> HIDE DEF t, g
    <2>4. Legal(t, Seen(r)) /\ Legal(g, Seen(r)) /\ Linked(t, g)
      BY <1>2, <2>1, <2>2, <2>3 DEF Legal, Linked
    <2> USE DEF t, g
    <2>5. "got" \in {"got", "info", "resolved"} /\ "GetResource" \in Called
      BY DEF Called
    <2> QED  BY <1>1, <1>2, <1>4, <2>3, <2>4, <2>5, CallOnward
  <1> QED  BY <1>3, <1>4 DEF GetEntity

\* What the entity's caller and the cache are told is an entity.
LEMMA EntityTold ==
    ASSUME Stacks, NEW r \in Request,
           In(r, "GetEntity", "got") \/ In(r, "Get", "got"), ~Failed(r)
    PROVE  Top(r).of \in Ccid /\ AnEntity(Top(r).of, result[r], Seen(r))
  <1>1. Expected(Top(r), result[r], Seen(r)) /\ Legal(Top(r), Seen(r))
    BY TopIs DEF In
  <1>2. Top(r).fn \in {"Get", "GetEntity"} /\ Top(r).pc = "got" /\ result[r] # Error
    BY DEF In, Failed
  <1> QED  BY <1>1, <1>2 DEF Expected, Legal

\* GetEntity returns what it has been told.
LEMMA GotEntityGoesOn == ASSUME Resolved, NEW r \in Request, GotEntity(r) PROVE Onward
  <1>1. Busy(r) /\ In(r, "GetEntity", "got") /\ Stacks /\ Return(r, result[r])
    BY DEF GotEntity, In, Resolved
  <1>2. result[r] \in Results /\ Top(r).fn = "GetEntity"
    BY <1>1, TopIs DEF In
  <1>3. Answer(Top(r), result[r], Seen(r))
    BY <1>1, <1>2, EntityTold DEF Answer, Failed
  <1> QED  BY <1>1, <1>2, <1>3, ReturnOnward

\* What the server's caller and the cache are told is a server.
LEMMA ServerTold ==
    ASSUME Stacks, NEW r \in Request,
           In(r, "GetServer", "got") \/ In(r, "Resolve", "got"), ~Failed(r)
    PROVE  AServer(Top(r).of, result[r], Seen(r))
  <1>1. Expected(Top(r), result[r], Seen(r))
    BY TopIs DEF In
  <1>2. Top(r).fn \in {"Resolve", "GetServer"} /\ Top(r).pc = "got" /\ result[r] # Error
    BY DEF In, Failed
  <1> QED  BY <1>1, <1>2 DEF Expected

\* GetServer answers from the cache, asks for the resource, or the domain itself.
LEMMA GetServerGoesOn == ASSUME Resolved, NEW r \in Request, GetServer(r) PROVE Onward
  <1>1. Busy(r) /\ Top(r).fn = "GetServer" /\ Stacks /\ Entities /\ Servers /\ Fresh
    BY DEF GetServer, In, Resolved
  <1>2. /\ Top(r) \in FrameSet /\ Legal(Top(r), Seen(r)) 
        /\ Top(r).of \in Names /\ Top(r).by \in Names
    BY <1>1, TopIs DEF Legal, FrameSet
  <1>3. CASE knownServer[Top(r).of] # None /\ Return(r, knownServer[Top(r).of])
    <2> DEFINE w == knownServer[Top(r).of]
    <2>1. w \in AnyServer
      BY <1>1, <1>2, <1>3 DEF Servers
    <2>2. w \in Results
      BY <2>1, ResultTypes
    <2>3. ASSUME Top(r).of \in Csid PROVE w.at \in Seen(r)[Top(r).of]
      <3>1. Cached(Top(r).of) = w /\ Top(r).of \in Ids
        BY <2>3, ResolverAssumption DEF Cached, Ids
      <3> QED  BY <1>1, <1>3, <3>1, CachedSeen
    <2>4. Answer(Top(r), w, Seen(r))
      BY <1>1, <2>1, <2>3 DEF Answer, AServer
    <2> QED  BY <1>1, <1>3, <2>2, <2>4, ReturnOnward
  <1>4. CASE Top(r).of \in Csid /\ Call(r, "got", "GetResource", Top(r).of, Default)
    <2> DEFINE t == [Top(r) EXCEPT !.pc = "got"]
               g == Frame("GetResource", Top(r).of, Default)
    <2>1. t.fn = "GetServer" /\ t.of = Top(r).of /\ t.pc = "got"
      BY <1>1, <1>2, GoesOn
    <2>2. g.fn = "GetResource" /\ g.of = Top(r).of /\ g.by = Default /\ g.pc = "start"
      BY FrameFields
    <2> HIDE DEF t, g
    <2>3. Legal(t, Seen(r)) /\ Legal(g, Seen(r)) /\ Linked(t, g)
      BY <1>2, <1>4, <2>1, <2>2 DEF Legal, Linked
    <2> USE DEF t, g
    <2>4. /\ "got" \in {"got", "info", "resolved"} /\ "GetResource" \in Called
          /\ Default \in Names
      BY NamesAre DEF Called
    <2> QED  BY <1>1, <1>2, <1>4, <2>3, <2>4, CallOnward
  <1>5. ASSUME NEW to \in Names, Top(r).of \notin Csid, Fetch(r, to) PROVE Onward
    <2> DEFINE t == [Top(r) EXCEPT !.pc = "fetch", !.to = to]
    <2>1. /\ t \in FrameSet /\ t.fn = Top(r).fn /\ t.of = Top(r).of /\ t.by = Top(r).by
          /\ t.pc = "fetch"
      BY <1>2, Fetching
    <2>2. /\ stack' = [stack EXCEPT ![r] = Front(@) \o <<t>>]
          /\ result' = [result EXCEPT ![r] = None] /\ UNCHANGED world /\ UNCHANGED heard
      BY <1>5 DEF Fetch, Top
    <2> HIDE DEF t
    <2>3. Legal(t, Seen(r))
      BY <1>1, <1>2, <1>5, <2>1 DEF Legal
    <2> QED  BY <1>1, <2>1, <2>2, <2>3, ResultTypes, FetchOnward
  <1>6. \/ knownServer[Top(r).of] # None /\ Return(r, knownServer[Top(r).of])
        \/ Top(r).of \in Csid /\ Call(r, "got", "GetResource", Top(r).of, Default)
        \/ \E to \in Names : Top(r).of \notin Csid /\ Fetch(r, to)
    BY <1>2 DEF GetServer
  <1> QED  BY <1>3, <1>4, <1>5, <1>6

\* GetServer returns what it has been told.
LEMMA GotServerGoesOn == ASSUME Resolved, NEW r \in Request, GotServer(r) PROVE Onward
  <1>1. In(r, "GetServer", "got") /\ Busy(r) /\ Stacks /\ Return(r, result[r])
    BY DEF GotServer, In, Resolved
  <1>2. result[r] \in Results /\ Top(r).fn = "GetServer"
    BY <1>1, TopIs DEF In
  <1>3. Answer(Top(r), result[r], Seen(r))
    BY <1>1, <1>2, ServerTold DEF Answer, Failed
  <1> QED  BY <1>1, <1>2, <1>3, ReturnOnward

\* A domain tells its server, or fails to.
LEMMA FetchServerGoesOn == ASSUME Resolved, NEW r \in Request, FetchServer(r) PROVE Onward
  <1>1. Busy(r) /\ Top(r).fn = "GetServer" /\ Top(r).pc = "fetch" /\ Stacks
    BY DEF FetchServer, In, Resolved
  <1>2. Top(r).of \notin Csid
    BY <1>1, TopIs DEF Legal
  <1>3. CASE Return(r, Error)
    <2>1. Answer(Top(r), Error, Seen(r))
      BY DEF Answer
    <2> QED  BY <1>1, <1>3, <2>1, ResultTypes, ReturnOnward
  <1>4. ASSUME NEW w \in AnyServer, Return(r, w) PROVE Onward
    <2>1. Answer(Top(r), w, Seen(r))
      BY <1>1, <1>2 DEF Answer, AServer
    <2> QED  BY <1>1, <1>4, <2>1, ResultTypes, ReturnOnward
  <1> QED  BY <1>3, <1>4 DEF FetchServer

\* GetResource asks for the server, or first for the resolver.
LEMMA GetResourceGoesOn == ASSUME Resolved, NEW r \in Request, GetResource(r) PROVE Onward
  <1>1. Busy(r) /\ Top(r).fn = "GetResource" /\ Stacks
    BY DEF GetResource, In, Resolved
  <1>2. Top(r) \in FrameSet /\ Top(r).of \in Names /\ Top(r).by \in Names
    BY <1>1, TopIs DEF FrameSet
  <1>3. CASE Top(r).by # "" /\ Call(r, "info", "GetServer", Top(r).by, "")
    <2> DEFINE t == [Top(r) EXCEPT !.pc = "info"]
               g == Frame("GetServer", Top(r).by, "")
    <2>1. t.fn = "GetResource" /\ t.by = Top(r).by /\ t.pc = "info"
      BY <1>1, <1>2, GoesOn
    <2>2. g.fn = "GetServer" /\ g.of = Top(r).by /\ g.pc = "start"
      BY DEF Frame
    <2>3. "" \in Names
      BY NamesAre
    <2> HIDE DEF t, g
    <2>4. Legal(t, Seen(r)) /\ Legal(g, Seen(r)) /\ Linked(t, g)
      BY <2>1, <2>2, <2>3 DEF Legal, Linked
    <2> USE DEF t, g
    <2>5. "info" \in {"got", "info", "resolved"} /\ "GetServer" \in Called
      BY DEF Called
    <2> QED  BY <1>1, <1>2, <1>3, <2>3, <2>4, <2>5, CallOnward
  <1>4. CASE Top(r).by = "" /\ Call(r, "resolved", "resolveResolver", Top(r).of, "")
    <2> DEFINE t == [Top(r) EXCEPT !.pc = "resolved"]
               g == Frame("resolveResolver", Top(r).of, "")
    <2>1. t.fn = "GetResource" /\ t.of = Top(r).of /\ t.by = "" /\ t.pc = "resolved"
      BY <1>1, <1>2, <1>4, GoesOn
    <2>2. g.fn = "resolveResolver" /\ g.of = Top(r).of /\ g.pc = "start"
      BY DEF Frame
    <2> HIDE DEF t, g
    <2>3. Legal(t, Seen(r)) /\ Legal(g, Seen(r)) /\ Linked(t, g)
      BY <2>1, <2>2 DEF Legal, Linked
    <2> USE DEF t, g
    <2>4. /\ "resolved" \in {"got", "info", "resolved"} /\ "resolveResolver" \in Called
          /\ "" \in Names
      BY DEF Called, Names
    <2> QED  BY <1>1, <1>2, <1>4, <2>3, <2>4, CallOnward
  <1> QED  BY <1>3, <1>4 DEF GetResource

\* A resolver told to GetResource is a name; a server told to it is one.
LEMMA ResourceTold ==
    ASSUME Stacks, NEW r \in Request, ~Failed(r)
    PROVE  /\ In(r, "GetResource", "resolved") =>
                  Top(r).by = "" /\ \E d \in Names : result[r] = Name(d)
           /\ In(r, "GetResource", "info") => result[r] \in AnyServer
  <1>1. Busy(r) => /\ Expected(Top(r), result[r], Seen(r))
                   /\ Legal(Top(r), Seen(r))
    BY TopIs
  <1> QED  BY <1>1 DEF In, Failed, Expected, Legal

\* GetResource has the resolver and asks for the server.
LEMMA ResolvedOwnerGoesOn == ASSUME Resolved, NEW r \in Request, ResolvedOwner(r) PROVE Onward
  <1>1. /\ In(r, "GetResource", "resolved") /\ Busy(r) /\ Top(r).fn = "GetResource"
        /\ Stacks
    BY DEF ResolvedOwner, In, Resolved
  <1>2. Top(r) \in FrameSet
    BY <1>1, TopIs
  <1>3. CASE Return(r, Error)
    <2>1. Answer(Top(r), Error, Seen(r))
      BY DEF Answer
    <2> QED  BY <1>1, <1>3, <2>1, ResultTypes, ReturnOnward
  <1>4. CASE ~Failed(r) /\ Call(r, "info", "GetServer", result[r].at, "")
    <2>0. Top(r).by = "" /\ \E d \in Names : result[r] = Name(d)
      BY <1>1, <1>4, ResourceTold
    <2>a. PICK d \in Names : result[r] = Name(d)
      BY <2>0
    <2>1. result[r].at = d
      BY <2>a, Parts
    <2> DEFINE t == [Top(r) EXCEPT !.pc = "info"]
               g == Frame("GetServer", d, "")
    <2>2. t.fn = "GetResource" /\ t.by = "" /\ t.pc = "info"
      BY <1>1, <1>2, <2>0, GoesOn
    <2>3. g.fn = "GetServer" /\ g.of = d /\ g.pc = "start"
      BY DEF Frame
    <2>4. "" \in Names
      BY NamesAre
    <2> HIDE DEF t, g
    <2>5. Legal(t, Seen(r)) /\ Legal(g, Seen(r)) /\ Linked(t, g)
      BY <2>2, <2>3, <2>4 DEF Legal, Linked
    <2> USE DEF t, g
    <2>6. "info" \in {"got", "info", "resolved"} /\ "GetServer" \in Called
      BY DEF Called
    <2>7. Call(r, "info", "GetServer", d, "")
      BY <1>4, <2>1
    <2> QED  BY <1>1, <1>2, <2>4, <2>5, <2>6, <2>7, CallOnward
  <1> QED  BY <1>3, <1>4 DEF ResolvedOwner

\* GetResource has the server and asks it for the resource.
LEMMA AskServerGoesOn == ASSUME Resolved, NEW r \in Request, AskServer(r) PROVE Onward
  <1>1. In(r, "GetResource", "info") /\ Busy(r) /\ Top(r).fn = "GetResource" /\ Stacks
    BY DEF AskServer, In, Resolved
  <1>2. Top(r) \in FrameSet
    BY <1>1, TopIs
  <1>3. CASE Return(r, Error)
    <2>1. Answer(Top(r), Error, Seen(r))
      BY DEF Answer
    <2> QED  BY <1>1, <1>3, <2>1, ResultTypes, ReturnOnward
  <1>4. CASE ~Failed(r) /\ Fetch(r, result[r].at)
    <2>0. result[r] \in AnyServer
      BY <1>1, <1>4, ResourceTold
    <2>a. PICK to : to = result[r].at
      OBVIOUS
    <2>1. to \in Names
      BY <2>0, <2>a, Parts, ResolverAssumption
    <2> DEFINE t == [Top(r) EXCEPT !.pc = "fetch", !.to = to]
    <2>2. /\ t \in FrameSet /\ t.fn = Top(r).fn /\ t.of = Top(r).of /\ t.by = Top(r).by
          /\ t.pc = "fetch"
      BY <1>2, <2>1, Fetching
    <2>3. /\ stack' = [stack EXCEPT ![r] = Front(@) \o <<t>>]
          /\ result' = [result EXCEPT ![r] = None] /\ UNCHANGED world /\ UNCHANGED heard
      BY <1>4, <2>a DEF Fetch, Top
    <2> HIDE DEF t
    <2>4. Legal(t, Seen(r))
      BY <1>1, <2>2 DEF Legal
    <2> QED  BY <1>1, <2>2, <2>3, <2>4, ResultTypes, FetchOnward
  <1> QED  BY <1>3, <1>4 DEF AskServer

\* A resource that a call asks for is an entity's or a server's, not a timeline's.
LEMMA ResourceCalled ==
    ASSUME NEW s, NEW v, NEW told, Sound(s, v, told), s # <<>>, Len(s) > 1,
           s[Len(s)].fn = "GetResource"
    PROVE  s[Len(s)].of \in Ccid \cup Csid
  <1>1. Len(s) \in Nat \ {0}
    BY SoundTop
  <1>2. PICK i : i = Len(s) - 1
    OBVIOUS
  <1>3. i \in 1 .. Len(s) /\ i < Len(s) /\ i + 1 = Len(s)
    BY <1>1, <1>2
  <1>4. Linked(s[i], s[Len(s)]) /\ Legal(s[i], told)
    BY <1>3 DEF Sound
  <1> QED  BY <1>4 DEF Linked, Legal

\* A server answers for a resource, or fails to.
LEMMA FetchResourceGoesOn == ASSUME Resolved, NEW r \in Request, FetchResource(r) PROVE Onward
  <1>1. Busy(r) /\ Top(r).fn = "GetResource" /\ Stacks
    BY DEF FetchResource, In, Resolved
  <1>2. Top(r) \in FrameSet /\ Top(r).to \in Names /\ Top(r).of \in Names
    BY <1>1, TopIs DEF FrameSet
  <1>3. Top(r) = stack[r][Len(stack[r])] /\ Sound(stack[r], result[r], Seen(r))
          /\ stack[r] # <<>>
    BY <1>1, TopIs
  <1>4. CASE Return(r, Error)
    <2>1. Answer(Top(r), Error, Seen(r))
      BY DEF Answer
    <2> QED  BY <1>1, <1>4, <2>1, ResultTypes, ReturnOnward
  <1>5. CASE Len(stack[r]) = 1 /\ Return(r, Sent(Top(r).to))
    <2>1. ~ (Len(stack[r]) > 1) /\ Sent(Top(r).to) \in Results
      BY <1>2, <1>5, ResultTypes
    <2> QED  BY <1>1, <1>5, <2>1, ReturnOnward
  <1>6. ASSUME Len(stack[r]) # 1, NEW w \in Answers(Top(r).of), Give(r, w),
               Heard(Top(r).of, w)
        PROVE  Onward
    <2>1. Top(r).of \in Ids
      <3>0. PICK n : n = Len(stack[r])
        OBVIOUS
      <3>1. n \in Nat \ {0} /\ n # 1
        BY <1>1, <1>6, <3>0, TopIs
      <3>2. n > 1
        BY <3>1
      <3> QED  BY <1>1, <1>3, <3>0, <3>2, ResourceCalled DEF Ids
    <2>2. /\ Top(r).of \in Ccid => w \in AnyEntity
          /\ Top(r).of \in Csid => w \in AnyServer
      BY <1>6, <1>6, ResolverAssumption DEF Answers
    <2>3. w \in Results /\ w.at \in Told
      BY <2>1, <2>2, Parts, ResultTypes DEF Ids
    <2>4. /\ heard' \in [Request -> SUBSET Told]
          /\ \A q \in Request : heard[q] \subseteq heard'[q]
          /\ \A q \in Request : SentTo(q, Top(r).of) => w.at \in heard'[q]
      BY <1>1, <1>6, <2>3 DEF Heard, Stacks
    <2>5. w.at \in View(stack[r], heard'[r])[Top(r).of]
      BY <2>1, <2>3, <2>4, AsStacks DEF View
    <2>6. Answer(Top(r), w, View(stack[r], heard'[r]))
      BY <1>1, <2>1, <2>2, <2>5 DEF Answer, AnEntity, AServer, Ids
    <2> QED  BY <1>1, <1>6, <2>3, <2>4, <2>6, GiveOnward
  <1> QED  BY <1>4, <1>5, <1>6 DEF FetchResource

\* The server never answers.
LEMMA HangGoesOn == ASSUME Resolved, NEW r \in Request, Hang(r) PROVE Onward
  <1>1. Busy(r) /\ Top(r).fn = "GetResource" /\ Stacks
    BY DEF Hang, Endless, Resolved
  <1>2. Top(r) \in FrameSet /\ result[r] \in Results
    BY <1>1, TopIs
  <1> DEFINE t == [Top(r) EXCEPT !.pc = "hung"]
  <1>3. /\ t.fn = Top(r).fn /\ t.of = Top(r).of /\ t.by = Top(r).by /\ t.pc = "hung"
        /\ t \in FrameSet
    BY <1>2 DEF FrameSet
  <1>4. stack' = [stack EXCEPT ![r] = Front(@) \o <<t>>]
    BY DEF Hang, Top
  <1>5. result' = [result EXCEPT ![r] = result[r]] /\ UNCHANGED world /\ UNCHANGED heard
    BY <1>1 DEF Hang, Stacks
  <1> HIDE DEF t
  <1>6. Legal(t, Seen(r))
    BY <1>1, <1>3 DEF Legal
  <1> QED  BY <1>1, <1>2, <1>3, <1>4, <1>5, <1>6, FetchOnward

\* Where a request for each kind of name may go.
LEMMA Homely ==
    ASSUME NEW x, NEW d, NEW told
    PROVE  /\ x \in Ids => (Home(x, d, told) <=> d \in told[x])
           /\ x = "" => (Home(x, d, told) <=> d = Default)
           /\ x \in Domain => (Home(x, d, told) <=> d = x)
  <1>0. Domain \cap Ids = {} /\ "" \notin Ids /\ "" \notin Domain
    BY ResolverAssumption DEF Address, Ids
  <1> QED  BY <1>0 DEF Home

\* resolveResolver names a domain, or asks for the entity or the server.
LEMMA ResolveResolverGoesOn ==
    ASSUME Resolved, NEW r \in Request, ResolveResolver(r)
    PROVE  Onward
  <1>1. Busy(r) /\ Top(r).fn = "resolveResolver" /\ Stacks
    BY DEF ResolveResolver, In, Resolved
  <1>2. Top(r) \in FrameSet /\ Top(r).of \in Names
    BY <1>1, TopIs DEF FrameSet
  <1>3. ASSUME NEW d \in Names, Home(Top(r).of, d, Seen(r)), Return(r, Name(d))
        PROVE  Onward
    <2>1. Answer(Top(r), Name(d), Seen(r))
      BY <1>1, <1>3 DEF Answer, AName
    <2>2. Name(d) \in Results
      BY ResultTypes
    <2> QED  BY <1>1, <1>3, <2>1, <2>2, ReturnOnward
  <1>4. ASSUME NEW fn \in {"GetEntity", "GetServer"}, Call(r, "got", fn, Top(r).of, ""),
               fn = "GetEntity" => Top(r).of \in Ccid, fn = "GetServer" => Top(r).of \in Csid
        PROVE  Onward
    <2> DEFINE t == [Top(r) EXCEPT !.pc = "got"]
               g == Frame(fn, Top(r).of, "")
    <2>1. t.fn = "resolveResolver" /\ t.of = Top(r).of /\ t.pc = "got"
      BY <1>1, <1>2, GoesOn
    <2>2. g.fn = fn /\ g.of = Top(r).of /\ g.pc = "start"
      BY DEF Frame
    <2> HIDE DEF t, g
    <2>4. Legal(t, Seen(r)) /\ Legal(g, Seen(r))
      BY <1>4, <2>1, <2>2 DEF Legal
    <2>5. Linked(t, g)
      BY <1>4, <2>1, <2>2 DEF Linked
    <2> USE DEF t, g
    <2>6. "got" \in {"got", "info", "resolved"} /\ fn \in Called /\ "" \in Names
      BY NamesAre DEF Called
    <2> QED  BY <1>1, <1>2, <1>4, <2>4, <2>5, <2>6, CallOnward
  <1>5. CASE Top(r).of = "" /\ Return(r, Name(Default))
    BY <1>3, <1>5, NamesAre, Homely
  <1>6. CASE Top(r).of \in Ccid /\ Call(r, "got", "GetEntity", Top(r).of, "")
    BY <1>4, <1>6
  <1>7. CASE Top(r).of \in Csid /\ Call(r, "got", "GetServer", Top(r).of, "")
    BY <1>4, <1>7
  <1>8. CASE Top(r).of \in Domain /\ Return(r, Name(Top(r).of))
    BY <1>3, <1>8, NamesAre, Homely
  <1>9. \/ Top(r).of = "" /\ Return(r, Name(Default))
        \/ Top(r).of \in Ccid /\ Call(r, "got", "GetEntity", Top(r).of, "")
        \/ Top(r).of \in Csid /\ Call(r, "got", "GetServer", Top(r).of, "")
        \/ Top(r).of \in Domain /\ Return(r, Name(Top(r).of))
    <2>1. /\ Ccid \cap Csid = {} /\ "" \notin Ccid /\ "" \notin Csid
      BY ResolverAssumption DEF Address
    <2>2. \/ Top(r).of = "" \/ Top(r).of \in Ccid \/ Top(r).of \in Csid \/ Top(r).of \in Domain
      BY <1>2 DEF Names, Address
    <2> QED  BY <2>1, <2>2 DEF ResolveResolver
  <1> QED  BY <1>5, <1>6, <1>7, <1>8, <1>9

\* resolveResolver names the domain of the entity or the server.
LEMMA ResolvedResolverGoesOn ==
    ASSUME Resolved, NEW r \in Request, ResolvedResolver(r)
    PROVE  Onward
  <1>1. /\ Busy(r) /\ Top(r).fn = "resolveResolver" /\ Top(r).pc = "got"
        /\ Stacks
    BY DEF ResolvedResolver, In, Resolved
  <1>2. /\ Expected(Top(r), result[r], Seen(r))
        /\ Top(r).of \in Ccid \cup Csid
    BY <1>1, TopIs DEF Legal
  <1>3. ASSUME NEW d \in Names, Home(Top(r).of, d, Seen(r)), Return(r, Name(d))
        PROVE  Onward
    <2>1. Answer(Top(r), Name(d), Seen(r))
      BY <1>1, <1>3 DEF Answer, AName
    <2>2. Name(d) \in Results
      BY ResultTypes
    <2> QED  BY <1>1, <1>3, <2>1, <2>2, ReturnOnward
  <1>4. CASE Return(r, Error)
    <2>1. Answer(Top(r), Error, Seen(r))
      BY DEF Answer
    <2> QED  BY <1>1, <1>4, <2>1, ResultTypes, ReturnOnward
  <1>5. CASE result[r] # Error /\ Return(r, Name(result[r].at))
    <2>1. \/ AnEntity(Top(r).of, result[r], Seen(r))
          \/ Top(r).of \in Csid /\ AServer(Top(r).of, result[r], Seen(r))
      BY <1>1, <1>2, <1>5 DEF Expected
    <2>2. result[r].at \in Told /\ result[r].at \in Seen(r)[Top(r).of]
      BY <2>1, Parts DEF AnEntity, AServer
    <2>3. Home(Top(r).of, result[r].at, Seen(r))
      BY <1>2, <2>2, Homely DEF Ids
    <2>4. result[r].at \in Names
      BY <2>2, ResolverAssumption
    <2> QED  BY <1>3, <1>5, <2>3, <2>4
  <1>6. Return(r, IF Failed(r) THEN Error ELSE Name(result[r].at))
    BY DEF ResolvedResolver
  <1>7. CASE Failed(r)
    BY <1>4, <1>6, <1>7
  <1>8. CASE ~Failed(r)
    BY <1>5, <1>6, <1>8 DEF Failed
  <1> QED  BY <1>7, <1>8

\* A request is sent where it may go.
LEMMA SentOnward ==
    ASSUME Stacks, NEW r \in Request, Busy(r), Top(r).fn = "HttpRequest", NEW to \in Names,
           Home(Top(r).of, to, Seen(r)), Fetch(r, to)
    PROVE  Onward
  <1>1. Top(r) \in FrameSet
    BY TopIs
  <1> DEFINE t == [Top(r) EXCEPT !.pc = "fetch", !.to = to]
  <1>2. /\ t \in FrameSet /\ t.fn = Top(r).fn /\ t.of = Top(r).of /\ t.by = Top(r).by
        /\ t.pc = "fetch" /\ t.to = to
    BY <1>1, Fetching
  <1>3. /\ stack' = [stack EXCEPT ![r] = Front(@) \o <<t>>]
        /\ result' = [result EXCEPT ![r] = None] /\ UNCHANGED world /\ UNCHANGED heard
    BY DEF Fetch, Top
  <1> HIDE DEF t
  <1>4. Legal(t, Seen(r))
    BY <1>2 DEF Legal
  <1> QED  BY <1>2, <1>3, <1>4, ResultTypes, FetchOnward

\* HttpRequest goes to the default resolver or asks for another.
LEMMA HttpRequestGoesOn == ASSUME Resolved, NEW r \in Request, HttpRequest(r) PROVE Onward
  <1>1. Busy(r) /\ Top(r).fn = "HttpRequest" /\ Stacks
    BY DEF HttpRequest, In, Resolved
  <1>2. Top(r) \in FrameSet /\ Top(r).of \in Names
    BY <1>1, TopIs DEF FrameSet
  <1>3. CASE Top(r).of \in {"", Default} /\ Fetch(r, Default)
    <2>1. Home(Top(r).of, Default, Seen(r))
      <3>1. CASE Top(r).of = ""
        BY <3>1, Homely
      <3>2. CASE Top(r).of = Default
        <4>1. Home(Default, Default, Seen(r))
          BY NamesAre, Homely
        <4> QED  BY <3>2, <4>1
      <3> QED  BY <1>3, <3>1, <3>2
    <2> QED  BY <1>1, <1>3, <2>1, NamesAre, SentOnward
  <1>4. CASE Call(r, "resolved", "resolveResolver", Top(r).of, "")
    <2> DEFINE t == [Top(r) EXCEPT !.pc = "resolved"]
               g == Frame("resolveResolver", Top(r).of, "")
    <2>1. t.fn = "HttpRequest" /\ t.of = Top(r).of /\ t.pc = "resolved"
      BY <1>1, <1>2, GoesOn
    <2>2. g.fn = "resolveResolver" /\ g.of = Top(r).of /\ g.pc = "start"
      BY DEF Frame
    <2> HIDE DEF t, g
    <2>3. Legal(t, Seen(r)) /\ Legal(g, Seen(r)) /\ Linked(t, g)
      BY <2>1, <2>2 DEF Legal, Linked
    <2> USE DEF t, g
    <2>4. /\ "resolved" \in {"got", "info", "resolved"} /\ "resolveResolver" \in Called
          /\ "" \in Names
      BY NamesAre DEF Called
    <2> QED  BY <1>1, <1>2, <1>4, <2>3, <2>4, CallOnward
  <1> QED  BY <1>3, <1>4 DEF HttpRequest

\* HttpRequest goes to the domain resolved.
LEMMA SendRequestGoesOn == ASSUME Resolved, NEW r \in Request, SendRequest(r) PROVE Onward
  <1>1. /\ Busy(r) /\ Top(r).fn = "HttpRequest" /\ Top(r).pc = "resolved"
        /\ Stacks
    BY DEF SendRequest, In, Resolved
  <1>2. ~ (Len(stack[r]) > 1) /\ Expected(Top(r), result[r], Seen(r))
    BY <1>1, TopIs, AskedAlone
  <1>3. CASE Return(r, Error)
    BY <1>1, <1>2, <1>3, ResultTypes, ReturnOnward
  <1>4. CASE ~Failed(r) /\ Fetch(r, result[r].at)
    <2>1. AName(Top(r).of, result[r], Seen(r))
      BY <1>1, <1>2, <1>4 DEF Expected, Failed
    <2>2. PICK d \in Names : result[r] = Name(d) /\ Home(Top(r).of, d, Seen(r))
      BY <2>1 DEF AName
    <2>3. Name(d).at = d
      BY Parts
    <2>4. Fetch(r, d)
      BY <1>4, <2>2, <2>3
    <2> QED  BY <1>1, <2>2, <2>4, SentOnward
  <1> QED  BY <1>3, <1>4 DEF SendRequest

\* The request is answered, or fails.
LEMMA FetchRequestGoesOn == ASSUME Resolved, NEW r \in Request, FetchRequest(r) PROVE Onward
  <1>1. Busy(r) /\ Top(r).fn = "HttpRequest" /\ Stacks
    BY DEF FetchRequest, In, Resolved
  <1>2. ~ (Len(stack[r]) > 1) /\ Sent(Top(r).to) \in Results /\ Error \in Results
    BY <1>1, TopIs, AskedAlone, ResultTypes DEF FrameSet
  <1> QED  BY <1>1, <1>2, ReturnOnward DEF FetchRequest

\* The steps of a request that leave the tables and the cache alone.
Reads(r) ==
    \/ Get(r) \/ GetFailed(r) \/ Resolve(r) \/ ResolveFailed(r) \/ GetEntity(r) \/ GetServer(r)
    \/ GetResource(r) \/ ResolvedOwner(r) \/ AskServer(r) \/ FetchResource(r)
    \/ ResolveResolver(r) \/ ResolvedResolver(r)
    \/ HttpRequest(r) \/ SendRequest(r) \/ FetchRequest(r) \/ Hang(r)

Writes(r) == GetStored(r) \/ ResolveStored(r) \/ GotEntity(r) \/ GotServer(r) \/ FetchServer(r)

\* Each of them told its stack soundly and nothing else.
LEMMA ReadsGoOn == ASSUME Resolved, NEW r \in Request, Reads(r) PROVE Onward /\ Kept
  <1>1. CASE Get(r)
    BY <1>1, GetGoesOn DEF Get
  <1>2. CASE GetFailed(r)
    BY <1>2, GetFailedGoesOn DEF GetFailed
  <1>3. CASE Resolve(r)
    BY <1>3, ResolveGoesOn DEF Resolve
  <1>4. CASE ResolveFailed(r)
    BY <1>4, ResolveFailedGoesOn DEF ResolveFailed
  <1>5. CASE GetEntity(r)
    BY <1>5, GetEntityGoesOn DEF GetEntity
  <1>6. CASE GetServer(r)
    BY <1>6, GetServerGoesOn DEF GetServer
  <1>7. CASE GetResource(r)
    BY <1>7, GetResourceGoesOn DEF GetResource
  <1>8. CASE ResolvedOwner(r)
    BY <1>8, ResolvedOwnerGoesOn DEF ResolvedOwner
  <1>9. CASE AskServer(r)
    BY <1>9, AskServerGoesOn DEF AskServer
  <1>10. CASE FetchResource(r)
    BY <1>10, FetchResourceGoesOn DEF FetchResource
  <1>11. CASE ResolveResolver(r)
    BY <1>11, ResolveResolverGoesOn DEF ResolveResolver
  <1>12. CASE ResolvedResolver(r)
    BY <1>12, ResolvedResolverGoesOn DEF ResolvedResolver
  <1>13. CASE HttpRequest(r)
    BY <1>13, HttpRequestGoesOn DEF HttpRequest
  <1>14. CASE SendRequest(r)
    BY <1>14, SendRequestGoesOn DEF SendRequest
  <1>15. CASE FetchRequest(r)
    BY <1>15, FetchRequestGoesOn DEF FetchRequest
  <1>16. CASE Hang(r)
    BY <1>16, HangGoesOn DEF Hang
  <1> QED
    BY <1>1, <1>2, <1>3, <1>4, <1>5, <1>6, <1>7, <1>8, <1>9, <1>10, <1>11, <1>12, <1>13,
       <1>14, <1>15, <1>16 DEF Reads

\* So do those that write, as far as the stacks go.
LEMMA WritesGoOn == ASSUME Resolved, NEW r \in Request, Writes(r) PROVE Onward
  BY GetStoredGoesOn, ResolveStoredGoesOn, GotEntityGoesOn, GotServerGoesOn, FetchServerGoesOn
     DEF Writes

-----------------------------------------------------------------------------
(* The tables and the cache.                                                *)

(***************************************************************************)
(* A step of a request that keeps the tables right, forgets no entity, and *)
(* caches of an id only what it has just learnt of it.                     *)
(***************************************************************************)
LEMMA OnwardResolved ==
    ASSUME Resolved, Onward, Entities', Servers',
           \A a \in Ccid : entities[a] # None => entities'[a] # None,
           \A x \in Ids :
               \/ Cached(x)' \in {Cached(x), None}
               \/ \E q \in Request : Learns(stack[q], x) /\ Cached(x)' = result[q]
    PROVE  Resolved'
  <1>1. registered' = registered /\ raced' = raced
    BY DEF Onward, world
  <1>2. Overtaken'
    BY <1>1 DEF Onward, Overtaken, Resolved
  <1>3. ASSUME NEW p \in Request, NEW x \in Ids, SentTo(p, x)', NEW v,
               v \notin {None, Error},
               v = Cached(x)' \/ \E q \in Request : Learning(q, x)' /\ v = result'[q]
        PROVE  v.at \in heard'[p]
    <2>1. SendsTo(stack'[p], x)
      BY <1>3 DEF SentTo, SendsTo, Busy
    <2>2. Held(x) \subseteq heard'[p]
      BY <2>1, AsStacks DEF Onward, Resolved, Fresh
    <2>3. (\/ v = Cached(x)
           \/ \E q \in Request : Learns(stack[q], x) /\ v = result[q]) => v.at \in Held(x)
      BY <1>3, AsStacks DEF Held
    <2>4. CASE v = Cached(x)'
      BY <1>3, <2>2, <2>3, <2>4
    <2>5. ASSUME NEW q \in Request, Learning(q, x)', v = result'[q] PROVE v.at \in heard'[p]
      <3>1. Learns(stack'[q], x)
        BY <2>5 DEF Learning, Learns, Top, Busy
      <3>2. \/ Learns(stack[q], x) /\ result'[q] = result[q]
            \/ result'[q].at \in heard'[p]
        BY <1>3, <2>1, <2>5, <3>1 DEF Onward
      <3> QED  BY <2>2, <2>3, <2>5, <3>2
    <2> QED  BY <1>3, <2>4, <2>5
  <1>4. Fresh'
    <2> SUFFICES ASSUME NEW p \in Request, NEW x \in Ids, SentTo(p, x)', NEW d \in Held(x)'
                 PROVE  d \in heard'[p]
      BY DEF Fresh
    <2>1. PICK v \in ({Cached(x)'} \cup {result'[q] : q \in {t \in Request : Learning(t, x)'}})
                         \ {None, Error} : d = v.at
      BY DEF Held
    <2>2. v = Cached(x)' \/ \E q \in Request : Learning(q, x)' /\ v = result'[q]
      BY <2>1
    <2> QED  BY <1>3, <2>1, <2>2
  <1> QED  BY <1>2, <1>4 DEF Onward, Resolved

\* What is put in a table of entities.
LEMMA EntityPut ==
    ASSUME NEW table \in [Ccid -> AnyEntity \cup {None}], NEW a \in Ccid,
           NEW v \in AnyEntity \cup {None}
    PROVE  LET after == [table EXCEPT ![a] = v] IN
           /\ after \in [Ccid -> AnyEntity \cup {None}] /\ after[a] = v
           /\ \A b \in Ccid : b # a => after[b] = table[b]
  OBVIOUS

\* The cache of an id is that of the entities or that of the servers.
LEMMA CachedIs ==
    ASSUME known' = known, NEW x \in Ids
    PROVE  /\ x \in Ccid => Cached(x)' = Cached(x)
           /\ x \notin Ccid => Cached(x) = knownServer[x] /\ Cached(x)' = knownServer'[x]
  BY DEF Cached

\* The entity stored is one, under the id it names.
LEMMA GetStoredResolved == ASSUME Resolved, NEW r \in Request, GetStored(r) PROVE Resolved'
  <1>0. Onward /\ Stacks /\ Entities /\ Servers
    BY GetStoredGoesOn DEF Resolved
  <1>1. result[r] \in AnyEntity /\ result[r].of \in Ccid
    BY <1>0, EntityTold, Parts DEF GetStored, AnEntity
  <1>2. entities' = [entities EXCEPT ![result[r].of] = result[r]]
    BY DEF GetStored
  <1>3. /\ entities' \in [Ccid -> AnyEntity \cup {None}] /\ entities'[result[r].of] = result[r]
        /\ \A b \in Ccid : b # result[r].of => entities'[b] = entities[b]
    BY <1>0, <1>1, <1>2, EntityPut DEF Entities
  <1>4. UNCHANGED <<servers, known, knownServer>>
    BY DEF GetStored, cache
  <1>5. Entities' /\ Servers'
    BY <1>0, <1>3, <1>4 DEF Entities, Servers
  <1>6. \A b \in Ccid : entities[b] # None => entities'[b] # None
    BY <1>1, <1>3, ResultTypes
  <1>7. \A x \in Ids : Cached(x)' = Cached(x)
    BY <1>4 DEF Cached
  <1> QED  BY <1>0, <1>5, <1>6, <1>7, OnwardResolved

\* The server stored is one, at the domain it names.
LEMMA ResolveStoredResolved ==
    ASSUME Resolved, NEW r \in Request, ResolveStored(r)
    PROVE  Resolved'
  <1>0. Onward /\ Stacks /\ Entities /\ Servers
    BY ResolveStoredGoesOn DEF Resolved
  <1>1. result[r] \in AnyServer
    BY <1>0, ServerTold DEF ResolveStored, AServer
  <1>2. result[r].at \in Names /\ result[r].of \in Csid
    BY <1>1, Parts, ResolverAssumption
  <1>3. servers' = [servers EXCEPT ![result[r].at] = result[r].of]
    BY DEF ResolveStored
  <1>4. UNCHANGED <<entities, known, knownServer>>
    BY DEF ResolveStored, cache
  <1>5. Entities' /\ Servers'
    BY <1>0, <1>2, <1>3, <1>4 DEF Entities, Servers
  <1>6. \A x \in Ids : Cached(x)' = Cached(x)
    BY <1>4 DEF Cached
  <1> QED  BY <1>0, <1>4, <1>5, <1>6, OnwardResolved

\* The entity cached is what was learnt of the id.
LEMMA GotEntityResolved == ASSUME Resolved, NEW r \in Request, GotEntity(r) PROVE Resolved'
  <1>0. Onward /\ Stacks /\ Entities /\ Servers /\ In(r, "GetEntity", "got")
    BY GotEntityGoesOn DEF Resolved, GotEntity
  <1>1. UNCHANGED <<entities, servers, knownServer>>
    BY DEF GotEntity, kept
  <1>2. /\ Top(r).of \in Ccid
        /\ known' = [known EXCEPT ![Top(r).of] = KeptUnlessError(known[Top(r).of], result[r])]
    BY <1>0, TopIs DEF GotEntity, UnderIdAsked, In, Legal
  <1>3. CASE Failed(r)
    <2>1. known' = known
      BY <1>0, <1>2, <1>3 DEF KeptUnlessError, Failed, Entities
    <2>2. Entities' /\ Servers' /\ \A x \in Ids : Cached(x)' = Cached(x)
      BY <1>0, <1>1, <2>1 DEF Entities, Servers, Cached
    <2> QED  BY <1>0, <1>1, <2>2, OnwardResolved
  <1>4. CASE ~Failed(r)
    <2>1. result[r] \in AnyEntity
      BY <1>0, <1>4, EntityTold DEF AnEntity
    <2>2. known' = [known EXCEPT ![Top(r).of] = result[r]]
      BY <1>2, <1>4 DEF KeptUnlessError, Failed
    <2>3. /\ known' \in [Ccid -> AnyEntity \cup {None}] /\ known'[Top(r).of] = result[r]
          /\ \A b \in Ccid : b # Top(r).of => known'[b] = known[b]
      BY <1>0, <1>2, <2>1, <2>2, EntityPut DEF Entities
    <2>4. Entities' /\ Servers'
      BY <1>0, <1>1, <2>3 DEF Entities, Servers
    <2>5. Learns(stack[r], Top(r).of)
      BY <1>0 DEF In, Learns, Top, Busy
    <2>6. \A x \in Ids :
              \/ Cached(x)' = Cached(x)
              \/ Learns(stack[r], x) /\ Cached(x)' = result[r]
      BY <1>1, <2>3, <2>5 DEF Cached
    <2> QED  BY <1>0, <1>1, <2>4, <2>6, OnwardResolved
  <1> QED  BY <1>3, <1>4

\* What is put under a name in the cache of servers.
LEMMA ServerPut ==
    ASSUME Servers, NEW x \in Names, NEW v \in AnyServer \cup {None},
           knownServer' = [knownServer EXCEPT ![x] = v], servers' = servers
    PROVE  /\ Servers' /\ knownServer'[x] = v
           /\ \A y \in Names : y # x => knownServer'[y] = knownServer[y]
  BY DEF Servers

\* The server cached under an id is what was learnt of it.
LEMMA GotServerResolved == ASSUME Resolved, NEW r \in Request, GotServer(r) PROVE Resolved'
  <1>0. Onward /\ Stacks /\ Entities /\ Servers /\ In(r, "GetServer", "got")
    BY GotServerGoesOn DEF Resolved, GotServer
  <1>1. UNCHANGED <<entities, servers, known>>
    BY DEF GotServer, kept
  <1>2. /\ Top(r).of \in Csid /\ Top(r).of \in Names
        /\ knownServer' =
             [knownServer EXCEPT ![Top(r).of] = KeptUnlessError(knownServer[Top(r).of], result[r])]
    BY <1>0, TopIs, NamesAre DEF GotServer, In, Legal
  <1>3. Entities'
    BY <1>0, <1>1 DEF Entities
  <1>4. CASE Failed(r)
    <2>1. knownServer' = knownServer
      BY <1>0, <1>2, <1>4 DEF KeptUnlessError, Failed, Servers
    <2>2. Servers' /\ \A x \in Ids : Cached(x)' = Cached(x)
      BY <1>0, <1>1, <2>1 DEF Servers, Cached
    <2> QED  BY <1>0, <1>1, <1>3, <2>2, OnwardResolved
  <1>5. CASE ~Failed(r)
    <2>1. result[r] \in AnyServer
      BY <1>0, <1>5, ServerTold DEF AServer
    <2>2. knownServer' = [knownServer EXCEPT ![Top(r).of] = result[r]]
      BY <1>2, <1>5 DEF KeptUnlessError, Failed
    <2>3. /\ Servers' /\ knownServer'[Top(r).of] = result[r]
          /\ \A y \in Names : y # Top(r).of => knownServer'[y] = knownServer[y]
      BY <1>0, <1>1, <1>2, <2>1, <2>2, ServerPut
    <2>4. Learns(stack[r], Top(r).of)
      BY <1>0 DEF In, Learns, Top, Busy
    <2>5. \A x \in Ids :
              \/ Cached(x)' = Cached(x)
              \/ Learns(stack[r], x) /\ Cached(x)' = result[r]
      BY <1>1, <2>3, <2>4, CachedIs, NamesAre DEF Ids
    <2> QED  BY <1>0, <1>1, <1>3, <2>3, <2>5, OnwardResolved
  <1> QED  BY <1>4, <1>5

\* The server cached under a domain is one, and under no id.
LEMMA FetchServerResolved == ASSUME Resolved, NEW r \in Request, FetchServer(r) PROVE Resolved'
  <1>0. Onward /\ Stacks /\ Entities /\ Servers /\ In(r, "GetServer", "fetch")
    BY FetchServerGoesOn DEF Resolved, FetchServer
  <1>1. UNCHANGED <<entities, servers, known>>
    BY DEF FetchServer, kept, cache
  <1>2. Entities'
    BY <1>0, <1>1 DEF Entities
  <1>3. CASE knownServer' = knownServer
    <2>1. Servers' /\ \A x \in Ids : Cached(x)' = Cached(x)
      BY <1>0, <1>1, <1>3 DEF Servers, Cached
    <2> QED  BY <1>0, <1>1, <1>2, <2>1, OnwardResolved
  <1>4. ASSUME NEW w \in AnyServer, knownServer' = [knownServer EXCEPT ![Top(r).of] = w]
        PROVE  Resolved'
    <2>1. Top(r).of \notin Csid /\ Top(r).of \in Names
      BY <1>0, TopIs DEF In, Legal, FrameSet
    <2>2. /\ Servers'
          /\ \A y \in Names : y # Top(r).of => knownServer'[y] = knownServer[y]
      BY <1>0, <1>1, <1>4, <2>1, ServerPut
    <2>3. \A x \in Ids : Cached(x)' = Cached(x)
      BY <1>1, <2>1, <2>2, CachedIs, NamesAre DEF Ids
    <2> QED  BY <1>0, <1>1, <1>2, <2>2, <2>3, OnwardResolved
  <1> QED  BY <1>3, <1>4 DEF FetchServer, cache

\* What is not written stays right.
LEMMA ReadsResolved == ASSUME Resolved, NEW r \in Request, Reads(r) PROVE Resolved'
  <1>0. Onward /\ Stacks /\ Entities /\ Servers /\ Kept
    BY ReadsGoOn DEF Resolved
  <1>1. UNCHANGED <<entities, servers, known, knownServer>>
    BY <1>0 DEF Kept, kept, cache
  <1>2. Entities' /\ Servers' /\ \A x \in Ids : Cached(x)' = Cached(x)
    BY <1>0, <1>1 DEF Entities, Servers, Cached
  <1> QED  BY <1>0, <1>1, <1>2, OnwardResolved

\* A request begins, and if it is for an id, with what is known of it.
LEMMA BeginResolved ==
    ASSUME Resolved, NEW r \in Request, NEW c \in Asked[r], Begin(r, c)
    PROVE  Resolved'
  <1>0. Stacks /\ Entities /\ Servers /\ result[r] \in Results
    BY DEF Resolved, Stacks
  <1>1. c \in CallOf /\ c.fn \in {"Get", "Resolve", "GetResource", "HttpRequest"}
        /\ (c.fn = "Get" => c.of \in Ccid)
    BY ResolverAssumption
  <1> DEFINE f == Frame(c.fn, c.of, c.by)
  <1>2. f \in FrameSet /\ f.fn = c.fn /\ f.of = c.of /\ f.by = c.by /\ f.pc = "start"
    BY <1>1 DEF CallOf, Frame, FrameSet, Names
  <1>3. stack' = [stack EXCEPT ![r] = <<f>>]
    BY DEF Begin
  <1> HIDE DEF f
  <1>4. PICK z : z = <<f>>
    OBVIOUS
  <1>5. z \in Seq(FrameSet) /\ Len(z) = 1 /\ z[1] = f
    BY <1>2, <1>4
  <1>6. \A x \in Ids : Held(x) \in SUBSET Told
    <2> SUFFICES ASSUME NEW x \in Ids, NEW d \in Held(x) PROVE d \in Told
      OBVIOUS
    <2>1. PICK v \in ({Cached(x)} \cup {result[q] : q \in {t \in Request : Learning(t, x)}})
                         \ {None, Error} : d = v.at
      BY DEF Held
    <2>2. CASE v = Cached(x)
      <3>1. v \in AnyEntity \/ v \in AnyServer
        BY <1>0, <2>1, <2>2, NamesAre DEF Cached, Entities, Servers, Ids
      <3> QED  BY <2>1, <3>1, Parts
    <2>3. ASSUME NEW q \in Request, Learning(q, x), v = result[q] PROVE d \in Told
      <3>1. Busy(q) /\ Top(q).fn \in {"GetEntity", "GetServer"} /\ Top(q).pc = "got"
        BY <2>3 DEF Learning
      <3>2. Expected(Top(q), result[q], Seen(q)) /\ result[q] # Error
        BY <1>0, <2>1, <2>3, <3>1, TopIs
      <3>3. result[q] \in AnyEntity \/ result[q] \in AnyServer
        BY <3>1, <3>2 DEF Expected, AnEntity, AServer
      <3> QED  BY <2>1, <2>3, <3>3, Parts
    <2> QED  BY <2>1, <2>2, <2>3
  <1> DEFINE h == IF c.fn = "HttpRequest" /\ c.of \in Ccid \cup Csid THEN Held(c.of) ELSE {}
  <1>7. heard' = [heard EXCEPT ![r] = h] /\ h \in SUBSET Told
    BY <1>6 DEF Begin, Ids
  <1>8. \A x \in Ids : SendsTo(z, x) => h = Held(x)
    BY <1>2, <1>5 DEF SendsTo, Ids
  <1> HIDE DEF h
  <1>9. /\ heard' \in [Request -> SUBSET Told] /\ heard'[r] = h
        /\ \A q \in Request : q # r => heard[q] \subseteq heard'[q]
    BY <1>0, <1>7 DEF Stacks
  <1> DEFINE w == View(z, h)
  <1>10. Legal(f, w) /\ Expected(f, result[r], w)
    BY <1>1, <1>2 DEF Legal, Expected
  <1> HIDE DEF w
  <1>11. Sound(z, result[r], w)
    <2>1. \A i \in 1 .. Len(z) : i = 1
      BY <1>5
    <2>2. \A i \in 1 .. Len(z) : Legal(z[i], w) /\ (i > 1 => z[i].fn \in Called)
      BY <1>5, <1>10, <2>1
    <2>3. \A i \in 1 .. Len(z) : ~ (i < Len(z))
      BY <1>5, <2>1
    <2>4. \A i, j \in 1 .. Len(z) : ~ (i < j)
      BY <2>1
    <2>5. Expected(z[Len(z)], result[r], w)
      BY <1>5, <1>10
    <2> QED  BY <1>0, <1>5, <2>2, <2>3, <2>4, <2>5 DEF Sound
  <1>12. (\A a : ~WaitsFor(z, a)) /\ (\A x : ~Learns(z, x))
    BY <1>2, <1>5 DEF WaitsFor, Learns, Last
  <1>13. UNCHANGED <<entities, servers, known, knownServer, registered, raced, result>>
    BY DEF Begin, Kept, kept, cache, world
  <1>14. stack' = [stack EXCEPT ![r] = z] /\ result' = [result EXCEPT ![r] = result[r]]
    BY <1>0, <1>3, <1>4, <1>13 DEF Stacks
  <1>15. UNCHANGED world
    BY <1>13 DEF world
  <1>16. Sound(z, result[r], View(z, heard'[r]))
    BY <1>9, <1>11 DEF w
  <1>17. \A x \in Ids : SendsTo(z, x) => Held(x) \subseteq heard'[r]
    BY <1>8, <1>9
  <1>18. Onward
    BY <1>0, <1>5, <1>9, <1>12, <1>14, <1>15, <1>16, <1>17, OneStack
  <1>19. Entities' /\ Servers' /\ \A x \in Ids : Cached(x)' = Cached(x)
    BY <1>0, <1>13 DEF Entities, Servers, Cached
  <1> QED  BY <1>13, <1>18, <1>19, OnwardResolved

-----------------------------------------------------------------------------
(* Entities register here; the cache forgets.                               *)

\* What is known of the ids is no more than before.
LEMMA LessKnown ==
    ASSUME Resolved, UNCHANGED <<stack, result, heard>>,
           \A x \in Ids : Cached(x)' \in {Cached(x), None}
    PROVE  Stacks' /\ Fresh'
  <1>1. Stacks'
    BY DEF Resolved, Stacks, Seen
  <1>2. ASSUME NEW x \in Ids PROVE Held(x)' \subseteq Held(x)
    <2>1. \A q : Learning(q, x)' <=> Learning(q, x)
      BY DEF Learning, Busy, Top
    <2> QED  BY <1>2, <2>1 DEF Held
  <1>3. \A p, x : SentTo(p, x)' <=> SentTo(p, x)
    BY DEF SentTo, Busy
  <1>4. Fresh'
    BY <1>2, <1>3 DEF Resolved, Fresh
  <1> QED  BY <1>1, <1>4

\* An entity registers here: whoever was getting it is among those that raced.
LEMMA RegisterResolved == ASSUME Resolved, NEW e \in Posted, Register(e) PROVE Resolved'
  <1>0. UNCHANGED <<servers, known, knownServer, stack, result, heard>>
    BY DEF Register, cache
  <1>1. PICK a : a = e.of
    OBVIOUS
  <1>2. e \in AnyEntity /\ a \in Ccid /\ e # None
    BY <1>1, ResolverAssumption, Parts, ResultTypes
  <1>3. /\ entities' \in [Ccid -> AnyEntity \cup {None}] /\ entities'[a] = e
        /\ \A b \in Ccid : b # a => entities'[b] = entities[b]
    BY <1>1, <1>2, EntityPut DEF Register, Resolved, Entities
  <1>4. registered' = registered \cup {a} /\ registered' \subseteq Ccid
    BY <1>1, <1>2 DEF Register, Resolved, Overtaken
  <1>5. /\ raced' \in [Ccid -> SUBSET Request] /\ raced'[a] = Getting(a)
        /\ \A b \in Ccid : b # a => raced'[b] = raced[b]
    BY <1>1, <1>2 DEF Register, Getting, Resolved, Overtaken
  <1>6. Overtaken'
    <2> SUFFICES ASSUME NEW b \in registered'
                 PROVE /\ entities'[b] # None
                       /\ \A r \in Request : WaitsFor(stack[r], b) => r \in raced'[b]
      BY <1>0, <1>4, <1>5 DEF Overtaken
    <2>1. CASE b = a
      BY <1>2, <1>3, <1>5, <2>1 DEF WaitsFor, Getting, Busy
    <2>2. CASE b # a
      BY <1>3, <1>4, <1>5, <2>2 DEF Resolved, Overtaken
    <2> QED  BY <2>1, <2>2
  <1>7. Entities' /\ Servers' /\ \A x \in Ids : Cached(x)' = Cached(x)
    BY <1>0, <1>3 DEF Resolved, Entities, Servers, Cached
  <1>8. Stacks' /\ Fresh'
    BY <1>0, <1>7, LessKnown
  <1> QED  BY <1>6, <1>7, <1>8 DEF Resolved

\* The cache forgets an entry.
LEMMA ExpireResolved == ASSUME Resolved, Expire PROVE Resolved'
  <1>0. UNCHANGED <<entities, servers, stack, result, registered, raced, heard>>
    BY DEF Expire, kept, world
  <1>1. Overtaken'
    BY <1>0 DEF Resolved, Overtaken
  <1>2. ASSUME NEW a \in Ccid, known' = [known EXCEPT ![a] = None], knownServer' = knownServer
        PROVE  Entities' /\ Servers' /\ \A x \in Ids : Cached(x)' \in {Cached(x), None}
    <2>1. /\ known' \in [Ccid -> AnyEntity \cup {None}] /\ known'[a] = None
          /\ \A b \in Ccid : b # a => known'[b] = known[b]
      BY <1>2, EntityPut DEF Resolved, Entities
    <2> QED  BY <1>0, <1>2, <2>1 DEF Resolved, Entities, Servers, Cached
  <1>3. ASSUME NEW x \in Names, knownServer' = [knownServer EXCEPT ![x] = None], known' = known
        PROVE  Entities' /\ Servers' /\ \A y \in Ids : Cached(y)' \in {Cached(y), None}
    <2>1. /\ Servers' /\ knownServer'[x] = None
          /\ \A y \in Names : y # x => knownServer'[y] = knownServer[y]
      BY <1>0, <1>3, ServerPut DEF Resolved
    <2>2. Entities'
      BY <1>0, <1>3 DEF Resolved, Entities
    <2>3. \A y \in Ids : Cached(y)' \in {Cached(y), None}
      BY <1>3, <2>1, CachedIs, NamesAre DEF Ids
    <2> QED  BY <2>1, <2>2, <2>3
  <1>4. Entities' /\ Servers' /\ \A x \in Ids : Cached(x)' \in {Cached(x), None}
    BY <1>2, <1>3 DEF Expire
  <1>5. Stacks' /\ Fresh'
    BY <1>0, <1>4, LessKnown
  <1> QED  BY <1>1, <1>4, <1>5 DEF Resolved

-----------------------------------------------------------------------------
(* The invariant.                                                           *)

\* It holds at first.
LEMMA InitResolved == Init => Resolved
  <1> SUFFICES ASSUME Init PROVE Resolved
    OBVIOUS
  <1>1. Entities /\ Servers
    BY NamesAre DEF Init, Entities, Servers
  <1>2. Overtaken
    BY DEF Init, Overtaken
  <1>3. Stacks
    <2>1. stack \in [Request -> Seq(FrameSet)] /\ result \in [Request -> Results]
      <3>1. stack = [r \in Request |-> <<>>] /\ result = [r \in Request |-> None]
        BY DEF Init
      <3>2. <<>> \in Seq(FrameSet) /\ None \in Results
        BY ResultTypes
      <3> QED  BY <3>1, <3>2
    <2>2. Len(<<>>) = 0 /\ <<>> \in Seq(FrameSet)
      OBVIOUS
    <2>3. \A told : Sound(<<>>, None, told)
      BY <2>2, ResultTypes DEF Sound
    <2>4. heard \in [Request -> SUBSET Told]
      BY DEF Init
    <2> QED  BY <2>1, <2>3, <2>4 DEF Init, Stacks
  <1>4. Fresh
    BY DEF Init, Fresh, SentTo, Busy
  <1> QED  BY <1>1, <1>2, <1>3, <1>4 DEF Resolved

\* A step of a request reads or writes.
LEMMA StepReadsOrWrites == ASSUME NEW r, Step(r) \/ Hang(r) PROVE Reads(r) \/ Writes(r)
  BY DEF Step, Reads, Writes

\* Every step keeps it.
LEMMA NextResolved == Resolved /\ [Next]_vars => Resolved'
  <1> SUFFICES ASSUME Resolved, [Next]_vars PROVE Resolved'
    OBVIOUS
  <1>1. CASE UNCHANGED vars
    <2>1. UNCHANGED <<entities, servers, known, knownServer, stack, result, registered, raced,
                      heard>>
      BY <1>1 DEF vars
    <2>2. Entities' /\ Servers' /\ Overtaken' /\ \A x \in Ids : Cached(x)' = Cached(x)
      BY <2>1 DEF Resolved, Entities, Servers, Overtaken, Cached
    <2> QED  BY <2>1, <2>2, LessKnown DEF Resolved
  <1>2. ASSUME NEW e \in Posted, Register(e) PROVE Resolved'
    BY <1>2, RegisterResolved
  <1>3. CASE Expire
    BY <1>3, ExpireResolved
  <1>4. ASSUME NEW r \in Request, Reads(r) PROVE Resolved'
    BY <1>4, ReadsResolved
  <1>5. ASSUME NEW r \in Request, Writes(r) PROVE Resolved'
    BY <1>5, GetStoredResolved, ResolveStoredResolved, GotEntityResolved, GotServerResolved,
       FetchServerResolved DEF Writes
  <1>6. ASSUME NEW r \in Request, NEW c \in Asked[r], Begin(r, c) PROVE Resolved'
    BY <1>6, BeginResolved
  <1> QED
    BY <1>1, <1>2, <1>3, <1>4, <1>5, <1>6, StepReadsOrWrites DEF Next, Quiet

(***************************************************************************)
(* Every stack is sound, what each call waits for is what it is answered,  *)
(* and what is cached of an id every request on its way to the id has      *)
(* heard (client.go:53-329, entity.go:59-110, server.go:30-95).            *)
(***************************************************************************)
THEOREM ResolvedAlways == Spec => []Resolved
  <1>1. Init => Resolved
    BY InitResolved
  <1>2. Resolved /\ [Next]_vars => Resolved'
    BY NextResolved
  <1> QED  BY <1>1, <1>2, PTL DEF Spec

\* The tables, the cache, the stacks and the results have their types.
THEOREM TypeCorrect == Spec => []TypeOK
  <1>1. Resolved => TypeOK
    <2> SUFFICES ASSUME Resolved PROVE TypeOK
      OBVIOUS
    <2>1. ASSUME NEW r \in Request, NEW i \in 1 .. Len(stack[r]) PROVE stack[r][i] \in FrameSet
      BY ElementOfSeq DEF Resolved, Stacks
    <2>2. \A r \in Request : result[r] \in Results /\ heard[r] \subseteq Told
      BY DEF Resolved, Stacks
    <2> QED
      BY <2>1, <2>2 DEF TypeOK, FrameSet, Resolved, Entities, Servers, Overtaken
  <1> QED  BY <1>1, ResolvedAlways, PTL

(***************************************************************************)
(* No call is made to find out what it was called for itself: the rank of  *)
(* a call is below its caller's, so that two calls of one stack that are   *)
(* for the same would rank the same (client.go:53-77, 169-269).            *)
(***************************************************************************)
THEOREM NoCallWithinItselfAlways == Spec => []NoCallWithinItself
  <1>1. Resolved => NoCallWithinItself
    <2> SUFFICES ASSUME Resolved, NEW r \in Request,
                        NEW i \in 1 .. Len(stack[r]), NEW j \in 1 .. Len(stack[r]),
                        stack[r][i].fn = stack[r][j].fn, stack[r][i].of = stack[r][j].of,
                        stack[r][i].by = stack[r][j].by
                 PROVE  i = j
      BY DEF NoCallWithinItself
    <2>1. Rank(stack[r][i]) = Rank(stack[r][j])
      BY SameCallSameRank
    <2>2. /\ i < j => Rank(stack[r][j]) < Rank(stack[r][i])
          /\ j < i => Rank(stack[r][i]) < Rank(stack[r][j])
      BY DEF Resolved, Stacks, Sound
    <2>3. Rank(stack[r][i]) \in Nat /\ Rank(stack[r][j]) \in Nat
      BY RankIsNumber
    <2>4. ~ (i < j) /\ ~ (j < i)
      BY <2>1, <2>2, <2>3
    <2> QED  BY <2>4
  <1> QED  BY <1>1, ResolvedAlways, PTL

(***************************************************************************)
(* A request for the server of an id goes to a domain that was known as    *)
(* the id's when the request began, or that a server asked about that id   *)
(* has told since; whatever else is answered, cached or run out            *)
(* (client.go:53-167).                                                     *)
(***************************************************************************)
THEOREM RequestGoesWhereToldAlways == Spec => []RequestGoesWhereTold
  <1>1. Resolved => RequestGoesWhereTold
    <2> SUFFICES ASSUME Resolved, NEW r \in Request, In(r, "HttpRequest", "fetch")
                 PROVE  /\ Top(r).of \in Ccid \cup Csid => Top(r).to \in heard[r]
                        /\ Top(r).of \in Domain => Top(r).to = Top(r).of
                        /\ Top(r).of = "" => Top(r).to = Default
      BY DEF RequestGoesWhereTold
    <2>1. Stacks /\ Busy(r) /\ Top(r).fn = "HttpRequest" /\ Top(r).pc = "fetch"
      BY DEF Resolved, In
    <2>2. Home(Top(r).of, Top(r).to, Seen(r))
      BY <2>1, TopIs DEF Legal
    <2>3. stack[r] # <<>> /\ Top(r) = stack[r][1]
      <3>1. PICK n : n = Len(stack[r])
        OBVIOUS
      <3>2. n \in Nat \ {0} /\ ~ (n > 1) /\ Top(r) = stack[r][n] /\ stack[r] # <<>>
        BY <2>1, <3>1, AskedAlone, TopIs
      <3>3. n = 1
        BY <3>2
      <3> QED  BY <3>2, <3>3
    <2>4. Top(r).of \in Ids => Seen(r)[Top(r).of] = heard[r]
      BY <2>1, <2>3 DEF Seen, View, SendsTo
    <2> QED  BY <2>2, <2>4, Homely DEF Ids
  <1> QED  BY <1>1, ResolvedAlways, PTL

-----------------------------------------------------------------------------
(* What a registration may be lost to.                                      *)

\* A step but GetStored and Register leaves the entity table alone.
LEMMA EntitiesStay ==
    ASSUME [Next]_vars, \A r \in Request : ~GetStored(r), \A e \in Posted : ~Register(e), Resolved
    PROVE  entities' = entities
  <1>1. CASE UNCHANGED vars
    BY <1>1 DEF vars
  <1>2. CASE Expire
    BY <1>2 DEF Expire, kept
  <1>3. ASSUME NEW r \in Request, Reads(r) PROVE entities' = entities
    BY <1>3, ReadsGoOn DEF Kept, kept
  <1>4. ASSUME NEW r \in Request, Writes(r) PROVE entities' = entities
    BY <1>4 DEF Writes, ResolveStored, GotEntity, GotServer, FetchServer, kept
  <1>5. ASSUME NEW r \in Request, NEW c \in Asked[r], Begin(r, c) PROVE entities' = entities
    BY <1>5 DEF Begin, Kept, kept
  <1> QED
    BY <1>1, <1>2, <1>3, <1>4, <1>5, StepReadsOrWrites DEF Next, Quiet

(***************************************************************************)
(* What is registered here is replaced by another registration, of any     *)
(* document, new or old; by a request that was getting the entity while it *)
(* registered, and had found no row; or by an answer about another entity  *)
(* that names this one (entity.go:59-103).                                 *)
(***************************************************************************)
THEOREM RegistrationLastsAlways == Spec => RegistrationLasts
  <1> DEFINE Kind == \A a \in registered :
                        entities'[a] # entities[a] =>
                            \/ \E e \in Posted : Register(e)
                            \/ \E r \in Request :
                                  /\ In(r, "Get", "got") /\ result[r].of = a
                                  /\ Top(r).of = a => r \in raced[a]
  <1>1. Resolved /\ [Next]_vars => [Kind]_vars
    <2> SUFFICES ASSUME Resolved, [Next]_vars, NEW a \in registered,
                        entities'[a] # entities[a], \A e \in Posted : ~Register(e)
                 PROVE  \E r \in Request : /\ In(r, "Get", "got") /\ result[r].of = a
                                           /\ Top(r).of = a => r \in raced[a]
      OBVIOUS
    <2>0. Stacks /\ Overtaken /\ Entities /\ a \in Ccid
      BY DEF Resolved, Overtaken
    <2>1. PICK r \in Request : GetStored(r)
      BY EntitiesStay
    <2>2. In(r, "Get", "got") /\ Busy(r) /\ Top(r).fn = "Get" /\ Top(r).pc = "got"
      BY <2>1 DEF GetStored, In
    <2>3. result[r].of = a
      BY <2>0, <2>1 DEF GetStored, Entities
    <2>4. ASSUME Top(r).of = a PROVE r \in raced[a]
      <3>1. PICK n : n = Len(stack[r])
        OBVIOUS
      <3>2. n \in Nat \ {0} /\ ~ (n > 1) /\ Top(r) = stack[r][n] /\ stack[r] # <<>>
        BY <2>0, <2>2, <3>1, AskedAlone, TopIs
      <3>3. n = 1
        BY <3>2
      <3>4. WaitsFor(stack[r], a)
        BY <2>2, <2>4, <3>2, <3>3 DEF WaitsFor
      <3> QED  BY <2>0, <3>4 DEF Overtaken
    <2> QED  BY <2>2, <2>3, <2>4
  <1>2. [][Kind]_vars => RegistrationLasts
    BY DEF RegistrationLasts
  <1> QED  BY <1>1, <1>2, ResolvedAlways, PTL DEF Spec
=============================================================================
