------------------------------ MODULE Resolver ------------------------------
(***************************************************************************)
(* How the server finds other servers and the entities on them: the client *)
(* (client/client.go), whose functions call each other, and the two        *)
(* repositories before it that keep what it found                          *)
(* (internal/infra/repository/entity.go, server.go).                       *)
(*                                                                         *)
(* Requests run concurrently and share the client's cache and the tables.  *)
(* A request is a stack of calls; a step runs the innermost one up to its  *)
(* next call, query or answer.                                             *)
(*                                                                         *)
(* Nothing of what other servers answer is checked, nor of the document    *)
(* that registers an entity: an answer about one id may name another one,  *)
(* and the domain told may be any, or no domain at all.                    *)
(***************************************************************************)
EXTENDS Naturals, Sequences, SequencesExt

CONSTANTS
    Domain, Ccid, Csid,  \* names of servers, ids of entities, ids of servers
    Here,                \* the domain of this server
    Default,             \* the default resolver, configured as gatewayAddr
    Told,                \* what documents and answers name as a domain
    Posted,              \* the affiliation documents posted here, each any number of times
    Request,             \* concurrent requests, of which each asks once
    Asked                \* Asked[r]: the calls the request r may be made for

Address == Domain \cup Ccid \cup Csid
Names   == Address \cup {""}

\* What calls return: of is the id told, at the domain.
None         == [is |-> "none", of |-> "", at |-> ""]
Error        == [is |-> "error", of |-> "", at |-> ""]
Entity(a, d) == [is |-> "entity", of |-> a, at |-> d]
Server(c, d) == [is |-> "server", of |-> c, at |-> d]
Name(d)      == [is |-> "name", of |-> "", at |-> d]
Sent(d)      == [is |-> "sent", of |-> "", at |-> d]
Results      == [is: {"none", "error", "entity", "server", "name", "sent"}, of: Names, at: Names]

AnyEntity == {Entity(a, d) : a \in Ccid, d \in Told}
AnyServer == {Server(c, d) : c \in Csid, d \in Told}

Functions == {"Get", "Resolve", "HttpRequest", "GetResource", "GetEntity", "GetServer",
              "resolveResolver"}
CallOf == [fn: Functions, of: Names, by: Names]

(***************************************************************************)
(* That the default resolver is a domain is what keeps the client from     *)
(* calling itself for ever: with an id, or with none, GetServer or         *)
(* GetEntity would need the default resolver to find the default resolver. *)
(* An id has no dot and begins with con or ccs (utils.go:69-75).  The      *)
(* handlers ask entity.Get for ids of entities alone (handler.go:178).     *)
(***************************************************************************)
ASSUME ResolverAssumption ==
    /\ Here \in Domain /\ Default \in Domain
    /\ Domain \cap Ccid = {} /\ Domain \cap Csid = {} /\ Ccid \cap Csid = {}
    /\ "" \notin Address
    /\ Told \subseteq Names /\ Posted \subseteq AnyEntity
    /\ Asked \in [Request -> SUBSET CallOf]
    /\ \A r \in Request : \A c \in Asked[r] :
        /\ c.fn \in {"Get", "Resolve", "GetResource", "HttpRequest"}
        /\ c.fn = "Get" => c.of \in Ccid

VARIABLES
    entities,     \* the entity table: the entity kept under each id
    servers,      \* the server table: the id kept with each domain, "" without a row
    known,        \* the client's cache: entities by the address asked for
    knownServer,  \* the client's cache: servers by the domain or id asked for
    stack,        \* the calls of each request, innermost last
    result,       \* what the call of a request that ended last returned to its caller
    registered,   \* the entities that have registered here
    raced,        \* the requests that were getting an entity when it registered last
    heard         \* what there has been to hear, since it began, of the id a request is
                  \* sent to: what was known of it then and what was told of it since

kept   == <<entities, servers>>
cache  == <<known, knownServer>>
world  == <<registered, raced>>
vars   == <<entities, servers, known, knownServer, stack, result, registered, raced, heard>>

Frame(fn, of, by) == [fn |-> fn, of |-> of, by |-> by, pc |-> "start", to |-> ""]

Init ==
    /\ entities = [a \in Ccid |-> None]
    /\ servers = [d \in Names |-> ""]
    /\ known = [a \in Ccid |-> None]
    /\ knownServer = [x \in Names |-> None]
    /\ stack = [r \in Request |-> <<>>]
    /\ result = [r \in Request |-> None]
    /\ registered = {}
    /\ raced = [a \in Ccid |-> {}]
    /\ heard = [r \in Request |-> {}]

-----------------------------------------------------------------------------
Busy(r) == stack[r] # <<>>
Top(r)  == Last(stack[r])
In(r, fn, pc) == Busy(r) /\ Top(r).fn = fn /\ Top(r).pc = pc

\* The innermost call ends; what it found out may be told to others too.
Give(r, value) ==
    /\ stack' = [stack EXCEPT ![r] = Front(@)]
    /\ result' = [result EXCEPT ![r] = value]
    /\ UNCHANGED world

Return(r, value) == Give(r, value) /\ UNCHANGED heard

\* The innermost call goes on at pc once the call it makes has returned.
Call(r, pc, fn, of, by) ==
    /\ stack' = [stack EXCEPT ![r] =
           Front(@) \o <<[Last(@) EXCEPT !.pc = pc], Frame(fn, of, by)>>]
    /\ result' = [result EXCEPT ![r] = None]
    /\ UNCHANGED <<world, heard>>

\* The innermost call makes an HTTP request to the server at to.
Fetch(r, to) ==
    /\ stack' = [stack EXCEPT ![r] = Front(@) \o <<[Last(@) EXCEPT !.pc = "fetch", !.to = to]>>]
    /\ result' = [result EXCEPT ![r] = None]
    /\ UNCHANGED <<world, heard>>

Failed(r) == result[r] = Error
Kept == UNCHANGED <<kept, cache>>

-----------------------------------------------------------------------------
(* Entities register, caches expire, requests begin.                        *)

Getting(a) == {r \in Request : Busy(r) /\ stack[r][1].fn = "Get" /\ stack[r][1].of = a}

\* Whatever affiliation document is posted, a new one or one that was posted before.
Register(e) ==
    /\ entities' = [entities EXCEPT ![e.of] = e]
    /\ registered' = registered \cup {e.of}
    /\ raced' = [raced EXCEPT ![e.of] = Getting(e.of)]
    /\ UNCHANGED <<servers, cache, stack, result, heard>>

Expire ==
    /\ \/ \E a \in Ccid : known' = [known EXCEPT ![a] = None] /\ UNCHANGED knownServer
       \/ \E x \in Names : knownServer' = [knownServer EXCEPT ![x] = None] /\ UNCHANGED known
    /\ UNCHANGED <<kept, stack, result, world, heard>>

\* What is known of the id x: what is cached, and what is about to be.
Cached(x) == IF x \in Ccid THEN known[x] ELSE knownServer[x]
Learning(r, x) ==
    Busy(r) /\ Top(r).fn \in {"GetEntity", "GetServer"} /\ Top(r).pc = "got" /\ Top(r).of = x
Held(x) == {v.at : v \in ({Cached(x)} \cup {result[r] : r \in {s \in Request : Learning(s, x)}})
                             \ {None, Error}}

Begin(r, c) ==
    /\ ~Busy(r) /\ result[r] = None
    /\ stack' = [stack EXCEPT ![r] = <<Frame(c.fn, c.of, c.by)>>]
    /\ heard' = [heard EXCEPT ![r] =
           IF c.fn = "HttpRequest" /\ c.of \in Ccid \cup Csid THEN Held(c.of) ELSE {}]
    /\ Kept /\ UNCHANGED <<world, result>>

\* The requests on their way to the id x hear what is told of it.
SentTo(r, x) == Busy(r) /\ stack[r][1].fn = "HttpRequest" /\ stack[r][1].of = x

Heard(x, value) ==
    heard' = [r \in Request |-> IF SentTo(r, x) THEN heard[r] \cup {value.at} ELSE heard[r]]

-----------------------------------------------------------------------------
(* EntityRepository.Get                                                     *)

\* Mutant: the table is asked only without a hint.
InTableUnhinted(a, hint) == entities[a] # None /\ hint = ""
InTable(a, hint) == entities[a] # None

Get(r) ==
    LET f == Top(r) IN
    /\ In(r, "Get", "start")
    /\ IF InTable(f.of, f.by) THEN Return(r, entities[f.of])
       ELSE IF f.by \in {"", Here} THEN Return(r, Error)
       ELSE Call(r, "got", "GetEntity", f.of, f.by)
    /\ Kept

GetFailed(r) ==
    /\ In(r, "Get", "got")
    /\ Return(r, Error)
    /\ Kept

\* The remote entity is inserted under the id it names, or overwrites a row that is there
\* by now.
GetStored(r) ==
    /\ In(r, "Get", "got") /\ ~Failed(r)
    /\ entities' = [entities EXCEPT ![result[r].of] = result[r]]
    /\ Return(r, result[r])
    /\ UNCHANGED <<servers, cache>>

-----------------------------------------------------------------------------
(* ServerRepository.Resolve                                                 *)

Rows(x) == {d \in Names : servers[d] # "" /\ (d = x \/ servers[d] = x)}

Resolve(r) ==
    LET f == Top(r) IN
    /\ In(r, "Resolve", "start")
    /\ IF Rows(f.of) # {} THEN \E d \in Rows(f.of) : Return(r, Server(servers[d], d))
       ELSE IF f.by = "" THEN Return(r, Error)
       ELSE Call(r, "got", "GetServer", f.of, f.by)
    /\ Kept

ResolveFailed(r) ==
    /\ In(r, "Resolve", "got")
    /\ Return(r, Error)
    /\ Kept

ResolveStored(r) ==
    /\ In(r, "Resolve", "got") /\ ~Failed(r)
    /\ servers' = [servers EXCEPT ![result[r].at] = result[r].of]
    /\ Return(r, result[r])
    /\ UNCHANGED <<entities, cache>>

-----------------------------------------------------------------------------
(* The client's functions.                                                  *)

\* Mutant: the default resolver is left to GetResource.
HintAlone(hint) == hint
HintOrDefault(hint) == IF hint = "" THEN Default ELSE hint

GetEntity(r) ==
    LET f == Top(r) IN
    /\ In(r, "GetEntity", "start")
    /\ IF known[f.of] # None THEN Return(r, known[f.of])
       ELSE Call(r, "got", "GetResource", f.of, HintOrDefault(f.by))
    /\ Kept

\* Mutant: the answer is kept before its error is looked at.
KeptAlways(old, value) == value
KeptUnlessError(old, value) == IF value = Error THEN old ELSE value
\* Mutant: the answer is kept under the id it names.
UnderIdTold(f, value) == IF value = Error THEN f.of ELSE value.of
UnderIdAsked(f, value) == f.of

GotEntity(r) ==
    /\ In(r, "GetEntity", "got")
    /\ Return(r, result[r])
    /\ known' = [known EXCEPT ![UnderIdAsked(Top(r), result[r])] = KeptUnlessError(@, result[r])]
    /\ UNCHANGED <<kept, knownServer>>

\* A domain is asked itself, or the hint in its place; an id is asked about.
GetServer(r) ==
    LET f == Top(r) IN
    /\ In(r, "GetServer", "start")
    /\ IF knownServer[f.of] # None THEN Return(r, knownServer[f.of])
       ELSE IF f.of \in Csid THEN Call(r, "got", "GetResource", f.of, Default)
       ELSE Fetch(r, IF f.by = "" THEN f.of ELSE f.by)
    /\ Kept

GotServer(r) ==
    /\ In(r, "GetServer", "got")
    /\ Return(r, result[r])
    /\ knownServer' = [knownServer EXCEPT ![Top(r).of] = KeptUnlessError(@, result[r])]
    /\ UNCHANGED <<kept, known>>

FetchServer(r) ==
    LET f == Top(r) IN
    /\ In(r, "GetServer", "fetch")
    /\ \/ Return(r, Error) /\ UNCHANGED cache
       \/ /\ f.to \in Domain
          /\ \E answer \in AnyServer :
                /\ Return(r, answer)
                /\ knownServer' = [knownServer EXCEPT ![f.of] = answer]
          /\ UNCHANGED known
    /\ UNCHANGED kept

GetResource(r) ==
    LET f == Top(r) IN
    /\ In(r, "GetResource", "start")
    /\ IF f.by # "" THEN Call(r, "info", "GetServer", f.by, "")
       ELSE Call(r, "resolved", "resolveResolver", f.of, "")
    /\ Kept

ResolvedOwner(r) ==
    /\ In(r, "GetResource", "resolved")
    /\ IF Failed(r) THEN Return(r, Error) ELSE Call(r, "info", "GetServer", result[r].at, "")
    /\ Kept

AskServer(r) ==
    /\ In(r, "GetResource", "info")
    /\ IF Failed(r) THEN Return(r, Error) ELSE Fetch(r, result[r].at)
    /\ Kept

\* The answer is decoded into what the caller asks for.
Answers(x) == IF x \in Ccid THEN AnyEntity ELSE AnyServer

\* At the bottom of the stack it is the manifest of a timeline.
FetchResource(r) ==
    LET f == Top(r) IN
    /\ In(r, "GetResource", "fetch")
    /\ \/ Return(r, Error)
       \/ f.to \in Domain /\ Len(stack[r]) = 1 /\ Return(r, Sent(f.to))
       \/ /\ f.to \in Domain /\ Len(stack[r]) # 1
          /\ \E answer \in Answers(f.of) : Give(r, answer) /\ Heard(f.of, answer)
    /\ Kept

\* Mutant: the request for a well-known document is not bound to a timeout either.
Unbounded(fn) == fn \in {"GetResource", "GetServer"}
\* GetResource's HTTP client has no timeout and its request no context.
Endless(fn) == fn = "GetResource"

\* The server accepts the request and never answers.
Hang(r) ==
    /\ Busy(r) /\ Top(r).pc = "fetch" /\ Endless(Top(r).fn) /\ Top(r).to \in Domain
    /\ stack' = [stack EXCEPT ![r] = Front(@) \o <<[Last(@) EXCEPT !.pc = "hung"]>>]
    /\ Kept /\ UNCHANGED <<world, result, heard>>

Hung(r) == In(r, "GetResource", "hung")

ResolveResolver(r) ==
    LET f == Top(r) IN
    /\ In(r, "resolveResolver", "start")
    /\ CASE f.of = ""      -> Return(r, Name(Default))
         [] f.of \in Ccid  -> Call(r, "got", "GetEntity", f.of, "")
         [] f.of \in Csid  -> Call(r, "got", "GetServer", f.of, "")
         [] OTHER          -> Return(r, Name(f.of))
    /\ Kept

ResolvedResolver(r) ==
    /\ In(r, "resolveResolver", "got")
    /\ Return(r, IF Failed(r) THEN Error ELSE Name(result[r].at))
    /\ Kept

\* HttpRequest and HttpRequestText.
HttpRequest(r) ==
    LET f == Top(r) IN
    /\ In(r, "HttpRequest", "start")
    /\ IF f.of \in {"", Default} THEN Fetch(r, Default)
       ELSE Call(r, "resolved", "resolveResolver", f.of, "")
    /\ Kept

SendRequest(r) ==
    /\ In(r, "HttpRequest", "resolved")
    /\ IF Failed(r) \/ result[r].at = "" THEN Return(r, Error) ELSE Fetch(r, result[r].at)
    /\ Kept

FetchRequest(r) ==
    /\ In(r, "HttpRequest", "fetch")
    /\ (Top(r).to \in Domain /\ Return(r, Sent(Top(r).to))) \/ Return(r, Error)
    /\ Kept

-----------------------------------------------------------------------------
Step(r) ==
    \/ Get(r) \/ GetFailed(r) \/ GetStored(r)
    \/ Resolve(r) \/ ResolveFailed(r) \/ ResolveStored(r)
    \/ GetEntity(r) \/ GotEntity(r)
    \/ GetServer(r) \/ GotServer(r) \/ FetchServer(r)
    \/ GetResource(r) \/ ResolvedOwner(r) \/ AskServer(r) \/ FetchResource(r)
    \/ ResolveResolver(r) \/ ResolvedResolver(r)
    \/ HttpRequest(r) \/ SendRequest(r) \/ FetchRequest(r)

\* Every request is over, or will never be.
Quiet ==
    /\ \A r \in Request : Hung(r) \/ (~Busy(r) /\ result[r] # None)
    /\ UNCHANGED vars

Next ==
    \/ Quiet
    \/ \E e \in Posted : Register(e)
    \/ Expire
    \/ \E r \in Request : Step(r) \/ Hang(r) \/ \E c \in Asked[r] : Begin(r, c)

Spec == Init /\ [][Next]_vars

\* A request runs on, and a request to another server is answered, fails or times out.
FairSpec == Spec /\ \A r \in Request : WF_vars(Step(r))

-----------------------------------------------------------------------------
\* Types of the tables, the cache and the stacks.
TypeOK ==
    /\ entities \in [Ccid -> AnyEntity \cup {None}] /\ servers \in [Names -> Csid \cup {""}]
    /\ known \in [Ccid -> AnyEntity \cup {None}] /\ knownServer \in [Names -> AnyServer \cup {None}]
    /\ \A r \in Request : \A i \in 1 .. Len(stack[r]) :
        stack[r][i] \in [fn: Functions, of: Names, by: Names, to: Names,
                         pc: {"start", "got", "info", "resolved", "fetch", "hung"}]
    /\ \A r \in Request : result[r] \in Results /\ heard[r] \subseteq Told
    /\ registered \subseteq Ccid /\ raced \in [Ccid -> SUBSET Request]

(***************************************************************************)
(* No call is made, directly or through others, to find out what it was    *)
(* called for itself: GetEntity, GetServer and GetResource recur only as   *)
(* far as the default resolver (client.go:53-77, 169-269).                 *)
(***************************************************************************)
NoCallWithinItself ==
    \A r \in Request : \A i, j \in 1 .. Len(stack[r]) :
        (stack[r][i].fn = stack[r][j].fn /\ stack[r][i].of = stack[r][j].of
            /\ stack[r][i].by = stack[r][j].by) => i = j

(***************************************************************************)
(* A request for the server of an id is sent to a domain that was known as *)
(* that id's when the request began, or has been told since by a server    *)
(* that was asked about that id: nothing told of another id decides about  *)
(* it, nor what had run out of the cache before (client.go:53-167).        *)
(***************************************************************************)
RequestGoesWhereTold ==
    \A r \in Request :
        In(r, "HttpRequest", "fetch") =>
            LET f == Top(r) IN
            /\ f.of \in Ccid \cup Csid => f.to \in heard[r]
            /\ f.of \in Domain => f.to = f.of
            /\ f.of = "" => f.to = Default

(***************************************************************************)
(* What an entity registered here is replaced by another registration, or  *)
(* by a request that was getting that entity while it registered, or by an *)
(* answer about another entity that names it; no later request for it      *)
(* replaces it, whatever its hint (entity.go:59-103).                      *)
(***************************************************************************)
RegistrationLasts ==
    [][\A a \in registered :
          entities'[a] # entities[a] =>
              \/ \E e \in Posted : Register(e)
              \/ \E r \in Request :
                    /\ In(r, "Get", "got") /\ result[r].of = a
                    /\ Top(r).of = a => r \in raced[a]]_vars

(***************************************************************************)
(* Every call returns, but for one whose resource is never answered        *)
(* (client.go:292).                                                        *)
(***************************************************************************)
EveryCallReturns == \A r \in Request : Busy(r) ~> (~Busy(r) \/ Hung(r))
=============================================================================
