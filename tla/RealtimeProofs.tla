---------------------------- MODULE RealtimeProofs ----------------------------
(***************************************************************************)
(* What holds of a realtime connection for any number of events, listens   *)
(* and prefixes: the types, that a connection that is passed no event      *)
(* never stops the process, and that what the client gets of a listen is   *)
(* in order and none of it comes too often.                                *)
(*                                                                         *)
(* The last needs the whole way of an event: written events, the one the   *)
(* handler writes, the one the loop passes on, the one a subscription      *)
(* offers and the messages in its channel.  Along this way the events of a *)
(* subscription never go down, and the copies of one event are, taken      *)
(* together, never more than Redis has delivered.                          *)
(***************************************************************************)
EXTENDS Realtime, SequenceTheorems, FunctionTheorems, FiniteSetTheorems, TLAPS

SubState == [pc: {"subscribe", "select", "send", "ended"}, prefixes: SUBSET Prefix,
             cancelled: BOOLEAN, inbox: Seq(Event), item: Passed \cup {Nothing}]
ReaderState == [pc: {"read", "listen", "quit", "ended"}, prefixes: SUBSET Prefix]
HandlerState == [pc: {"select", "write", "close_output", "close_input", "close_socket",
                      "leave", "ended"}, item: Passed \cup {Nothing}]
LoopState == [pc: {"select", "respond", "ended"}, item: Passed \cup {Nothing}]
Sockets == {"open", "stalled", "gone", "closed"}

Typed ==
    /\ published \in 0 .. Events
    /\ socket \in Sockets
    /\ reader \in ReaderState /\ IsFiniteSet(reader.prefixes)
    /\ handler \in HandlerState
    /\ loop \in LoopState
    /\ subs \in Seq(SubState) /\ Len(subs) <= MaxListens
    /\ \A k \in 1 .. Len(subs) : IsFiniteSet(subs[k].prefixes)
    /\ ctxDone \in BOOLEAN /\ panicked \in BOOLEAN
    /\ written \in Seq(Passed)
    /\ reader.pc = "listen" => Len(subs) < MaxListens

Writes(k)  == handler.pc = "write" /\ handler.item.via = k
Passes(k)  == loop.pc = "respond" /\ loop.item.via = k
Offers(k)  == subs[k].pc = "send"

\* An event on its way came through a subscription there is.
Carried ==
    /\ handler.pc = "write" => handler.item \in Passed /\ handler.item.via <= Len(subs)
    /\ loop.pc = "respond" => loop.item \in Passed /\ loop.item.via <= Len(subs)
    /\ \A k \in 1 .. Len(subs) :
          Offers(k) => subs[k].item \in Passed /\ subs[k].item.via = k
    /\ \A i \in 1 .. Len(written) : written[i].via <= Len(subs)

(***************************************************************************)
(* The events of subscription k along their way.                           *)
(***************************************************************************)
WrittenUpTo(k, e) == \A i \in Through(k) : written[i].event <= e
HandlerUpTo(k, e) == WrittenUpTo(k, e) /\ (Writes(k) => handler.item.event <= e)
LoopUpTo(k, e)    == HandlerUpTo(k, e) /\ (Passes(k) => loop.item.event <= e)
OfferUpTo(k, e)   == LoopUpTo(k, e) /\ (Offers(k) => subs[k].item.event <= e)

Ordered(k) ==
    /\ \A i, j \in Through(k) : i < j => written[i].event <= written[j].event
    /\ Writes(k) => WrittenUpTo(k, handler.item.event)
    /\ Passes(k) => HandlerUpTo(k, loop.item.event)
    /\ Offers(k) => LoopUpTo(k, subs[k].item.event)
    /\ \A i \in 1 .. Len(subs[k].inbox) :
          /\ OfferUpTo(k, subs[k].inbox[i])
          /\ \A j \in 1 .. Len(subs[k].inbox) : i < j => subs[k].inbox[i] <= subs[k].inbox[j]
          /\ subs[k].inbox[i] <= published
    /\ OfferUpTo(k, published)

(***************************************************************************)
(* How many copies of e subscription k has brought so far.                 *)
(***************************************************************************)
One(there) == IF there THEN 1 ELSE 0
WrittenOf(k, e) == Cardinality({i \in Through(k) : written[i].event = e})
Places(s, e)    == {i \in 1 .. Len(s) : s[i] = e}
Brought(k, e) ==
    WrittenOf(k, e) + One(Writes(k) /\ handler.item.event = e)
      + One(Passes(k) /\ loop.item.event = e) + One(Offers(k) /\ subs[k].item.event = e)
      + Cardinality(Places(subs[k].inbox, e))

Delivered(k, e) == IF e <= published THEN Len(Copies(e, subs[k].prefixes)) ELSE 0

\* A connection closes over an event that could not be written unless the reader has left.
ClosedByEvent ==
    /\ handler.pc \notin {"select", "write"} => reader.pc = "ended" \/ handler.item # Nothing
    /\ PanicNeedsEvent

OnTheWay ==
    /\ Typed /\ Carried
    /\ \A k \in 1 .. Len(subs) : Ordered(k) /\ \A e \in Event : Brought(k, e) <= Delivered(k, e)
    /\ ClosedByEvent

-----------------------------------------------------------------------------
(***************************************************************************)
(* The list of subscriptions.                                              *)
(***************************************************************************)

\* A function on the first n numbers is a sequence.
LEMMA Listed == ASSUME NEW S, NEW n \in Nat, NEW f \in [1 .. n -> S]
                PROVE  f \in Seq(S) /\ Len(f) = n
  BY SeqDef

\* Subscriptions and their fields.
LEMMA SubTyped ==
    ASSUME Typed, NEW k \in 1 .. Len(subs)
    PROVE  /\ subs[k] \in SubState
           /\ Len(subs) \in Nat
           /\ subs[k].inbox \in Seq(Event)
<1>1. subs[k] \in SubState /\ Len(subs) \in Nat
  BY DEF Typed
<1> QED
  BY <1>1 DEF SubState

\* The copies of an event are so many that they can be counted.
LEMMA CopiesTyped ==
    ASSUME NEW e \in Event, NEW prefixes \in SUBSET Prefix, IsFiniteSet(prefixes)
    PROVE  /\ Copies(e, prefixes) \in Seq(Event)
           /\ Len(Copies(e, prefixes)) \in Nat
           /\ \A i \in 1 .. Len(Copies(e, prefixes)) : Copies(e, prefixes)[i] = e
<1> DEFINE S == {x \in prefixes : e \in Match[x]}
<1>1. Cardinality(S) \in Nat
  BY FS_Subset, FS_CardinalityType
<1>2. Copies(e, prefixes) \in [1 .. Cardinality(S) -> Event]
  BY DEF Copies
<1>3. Copies(e, prefixes) \in Seq(Event) /\ Len(Copies(e, prefixes)) = Cardinality(S)
  BY <1>1, <1>2, Listed
<1> QED
  BY <1>1, <1>3 DEF Copies

\* Cancelling the last subscription changes nothing else about any of them.
LEMMA CancelledLast ==
    ASSUME Typed
    PROVE  /\ LastCancelled \in Seq(SubState) /\ Len(LastCancelled) = Len(subs)
           /\ \A k \in 1 .. Len(subs) :
                 /\ LastCancelled[k].pc = subs[k].pc
                 /\ LastCancelled[k].item = subs[k].item
                 /\ LastCancelled[k].inbox = subs[k].inbox
                 /\ LastCancelled[k].prefixes = subs[k].prefixes
<1>1. subs \in Seq(SubState) /\ Len(subs) \in Nat
  BY DEF Typed
<1>2. \A k \in 1 .. Len(subs) : subs[k] \in SubState
  BY <1>1
<1>3. LastCancelled \in [1 .. Len(subs) -> SubState]
  BY <1>1, <1>2 DEF LastCancelled, SubState
<1>4. LastCancelled \in Seq(SubState) /\ Len(LastCancelled) = Len(subs)
  BY <1>1, <1>3, Listed, SMTT(30)
<1>5. \A k \in 1 .. Len(subs) : LastCancelled[k] = 
            [subs[k] EXCEPT !.cancelled = @ \/ k = Len(subs)]
  BY DEF LastCancelled
<1>6. ASSUME NEW k \in 1 .. Len(subs)
      PROVE  /\ LastCancelled[k].pc = subs[k].pc
             /\ LastCancelled[k].item = subs[k].item
             /\ LastCancelled[k].inbox = subs[k].inbox
             /\ LastCancelled[k].prefixes = subs[k].prefixes
  BY <1>2, <1>5 DEF SubState
<1> QED
  BY <1>4, <1>6

\* The subscription that goes on to state s.
Becomes(k, s) ==
    /\ Len(subs') = Len(subs)
    /\ subs'[k] = s
    /\ \A j \in 1 .. Len(subs) : j # k => subs'[j] = subs[j]

\* One subscription goes on.
LEMMA OneGoesOn ==
    ASSUME Typed, NEW k \in 1 .. Len(subs), NEW s \in SubState, s.prefixes = subs[k].prefixes,
           subs' = [subs EXCEPT ![k] = s]
    PROVE  /\ subs' \in Seq(SubState)
           /\ \A j \in 1 .. Len(subs') : IsFiniteSet(subs'[j].prefixes)
           /\ Becomes(k, s)
<1>1. subs \in Seq(SubState)
  BY DEF Typed
<1>2. /\ subs' \in Seq(SubState) /\ Len(subs') = Len(subs)
      /\ \A j \in 1 .. Len(subs) : subs'[j] = IF j = k THEN s ELSE subs[j]
  BY <1>1, ExceptSeq
<1> QED
  BY <1>2 DEF Typed, Becomes

\* What a subscription is left at: its event is taken, it is started, it has received a
\* message, it has been stopped.
Taken(k)       == [subs[k] EXCEPT !.pc = "select", !.item = Nothing]
Started(k, pc) == [subs[k] EXCEPT !.pc = pc]
Received(k) ==
    [subs[k] EXCEPT !.pc = "send", !.item = [event |-> Head(subs[k].inbox), via |-> k],
                    !.inbox = Tail(@)]
Stopped(k) == [subs[k] EXCEPT !.pc = "ended", !.inbox = <<>>]

\* What the steps of a subscription leave it at.
LEMMA SubscriptionSteps ==
    ASSUME Typed, NEW k \in 1 .. Len(subs)
    PROVE  /\ TakeEvent(k) => subs' = [subs EXCEPT ![k] = Taken(k)]
           /\ Subscribe(k) => \E pc \in {"ended", "select"} :
                  subs' = [subs EXCEPT ![k] = Started(k, pc)]
           /\ Receive(k) => subs[k].inbox # <<>> /\ subs' = [subs EXCEPT ![k] = Received(k)]
           /\ Unsubscribe(k) => subs' = [subs EXCEPT ![k] = Stopped(k)]
<1>1. subs[k] \in SubState
  BY SubTyped
<1> QED
  BY <1>1 DEF TakeEvent, Subscribe, Receive, Unsubscribe, SubState, Taken, Started,
     Received, Stopped

\* These are states of a subscription, with the prefixes it had.
LEMMA SubscriptionStates ==
    ASSUME Typed, NEW k \in 1 .. Len(subs)
    PROVE  /\ Taken(k) \in SubState /\ Taken(k).prefixes = subs[k].prefixes
           /\ \A pc \in {"ended", "select"} :
                 Started(k, pc) \in SubState /\ Started(k, pc).prefixes = subs[k].prefixes
           /\ subs[k].inbox # <<>> =>
                 Received(k) \in SubState /\ Received(k).prefixes = subs[k].prefixes
           /\ Stopped(k) \in SubState /\ Stopped(k).prefixes = subs[k].prefixes
<1>1. subs[k] \in SubState /\ subs[k].inbox \in Seq(Event)
  BY SubTyped
<1>2. <<>> \in Seq(Event)
  OBVIOUS
<1>3. ASSUME subs[k].inbox # <<>>
      PROVE  Head(subs[k].inbox) \in Event /\ Tail(subs[k].inbox) \in Seq(Event)
  BY <1>1, <1>3, HeadTailProperties
<1>4. k \in 1 .. MaxListens
  BY RealtimeAssumption, SubTyped DEF Typed
<1> DEFINE S == Seq(Event)
<1>5. <<>> \in S /\ (subs[k].inbox # <<>> => Tail(subs[k].inbox) \in S)
  BY <1>2, <1>3
<1>6. SubState = [pc: {"subscribe", "select", "send", "ended"}, prefixes: SUBSET Prefix,
                  cancelled: BOOLEAN, inbox: S, item: Passed \cup {Nothing}]
  BY DEF SubState
<1> HIDE DEF S
<1> QED
  BY <1>1, <1>3, <1>4, <1>5, <1>6 DEF Passed, Taken, Started, Received, Stopped

\* What a step does to each subscription, whichever it is.
Went(k) ==
    \/ subs' = [subs EXCEPT ![k] = Taken(k)]
    \/ \E pc \in {"ended", "select"} : subs' = [subs EXCEPT ![k] = Started(k, pc)]
    \/ subs[k].inbox # <<>> /\ subs' = [subs EXCEPT ![k] = Received(k)]
    \/ subs' = [subs EXCEPT ![k] = Stopped(k)]

\* A subscription that steps stays one.
LEMMA WentTyped ==
    ASSUME Typed, NEW k \in 1 .. Len(subs), Went(k)
    PROVE  /\ subs' \in Seq(SubState) /\ Len(subs') = Len(subs)
           /\ \A j \in 1 .. Len(subs') : IsFiniteSet(subs'[j].prefixes)
<1>1. \E s \in SubState : s.prefixes = subs[k].prefixes /\ subs' = [subs EXCEPT ![k] = s]
  BY SubscriptionStates DEF Went
<1> QED
  BY <1>1, OneGoesOn DEF Becomes

\* Publishing adds copies to the channels of some subscriptions.
LEMMA PublishedTyped ==
    ASSUME Typed, NEW e \in Event, Publish(e)
    PROVE  /\ subs' \in Seq(SubState) /\ Len(subs') = Len(subs)
           /\ \A k \in 1 .. Len(subs) :
                 \/ subs'[k] = subs[k]
                 \/ subs'[k] = [subs[k] EXCEPT !.inbox = @ \o Copies(e, subs[k].prefixes)]
<1> DEFINE Sent(k) == [subs[k] EXCEPT !.inbox = @ \o Copies(e, subs[k].prefixes)]
<1>1. PICK up : subs' = [k \in 1 .. Len(subs) |-> IF k \in up THEN Sent(k) ELSE subs[k]]
  BY DEF Publish
<1>2. ASSUME NEW k \in 1 .. Len(subs)
      PROVE  subs[k] \in SubState /\ Sent(k) \in SubState
  <2>1. subs[k] \in SubState /\ subs[k].inbox \in Seq(Event) /\ subs[k].prefixes \in SUBSET Prefix
    BY SubTyped DEF SubState
  <2>2. Copies(e, subs[k].prefixes) \in Seq(Event)
    BY <2>1, CopiesTyped DEF Typed
  <2>3. subs[k].inbox \o Copies(e, subs[k].prefixes) \in Seq(Event)
    BY <2>1, <2>2
  <2> QED
    BY <2>1, <2>3 DEF SubState
<1>3. Len(subs) \in Nat
  BY DEF Typed
<1>4. \A k \in 1 .. Len(subs) : subs'[k] = subs[k] \/ subs'[k] = Sent(k)
  BY <1>1
<1> HIDE DEF Sent
<1>5. subs' \in [1 .. Len(subs) -> SubState]
  BY <1>1, <1>2
<1>6. subs' \in Seq(SubState) /\ Len(subs') = Len(subs)
  BY <1>3, <1>5, Listed
<1> QED
  BY <1>4, <1>6 DEF Sent

\* A listen cancels the last subscription and adds one.
LEMMA ListenTyped ==
    ASSUME Typed, Listen
    PROVE  /\ subs' \in Seq(SubState) /\ Len(subs') = Len(subs) + 1
           /\ \A k \in 1 .. Len(subs) : subs'[k] = LastCancelled[k]
           /\ subs'[Len(subs) + 1] = Subscription(reader.prefixes)
<1>1. Subscription(reader.prefixes) \in SubState
  <2>1. reader.prefixes \in SUBSET Prefix /\ <<>> \in Seq(Event)
    BY DEF Typed, ReaderState
  <2> QED
    BY <2>1 DEF Subscription, SubState
<1>2. subs' = Append(LastCancelled, Subscription(reader.prefixes))
  BY DEF Listen
<1>3. LastCancelled \in Seq(SubState) /\ Len(LastCancelled) = Len(subs)
  BY CancelledLast
<1> DEFINE s == LastCancelled
           x == Subscription(reader.prefixes)
<1> HIDE DEF s, x
<1>4. /\ Append(s, x) \in Seq(SubState) /\ Len(Append(s, x)) = Len(s) + 1
      /\ \A i \in 1 .. Len(s) : Append(s, x)[i] = s[i]
      /\ Append(s, x)[Len(s) + 1] = x
  BY <1>1, <1>3, AppendProperties DEF s, x
<1> QED
  BY <1>2, <1>3, <1>4 DEF s, x

\* How a step changes the subscriptions.
LEMMA SubsStep ==
    ASSUME Typed, [Next]_vars
    PROVE  \/ UNCHANGED subs
           \/ \E e \in Event : Publish(e)
           \/ Listen
           \/ (ListenClosed \/ LoopDone) /\ subs' = LastCancelled
           \/ \E k \in 1 .. Len(subs) :
                 Went(k) /\ (TakeEvent(k) \/ Subscribe(k) \/ Receive(k) \/ Unsubscribe(k))
<1>1. ASSUME NEW k \in 1 .. Len(subs),
             TakeEvent(k) \/ Subscribe(k) \/ Receive(k) \/ Unsubscribe(k)
      PROVE  Went(k)
  <2>1. Receive(k) => subs[k].inbox # <<>>
    BY DEF Receive
  <2> QED
    BY <1>1, <2>1, SubscriptionSteps DEF Went
<1>2. CASE Outside
  BY <1>2 DEF Outside, Client, ReadNonsense, Quits, ReadListen
<1>3. CASE ReaderStep \/ HandlerStep \/ Quiet \/ UNCHANGED vars
  BY <1>3 DEF ReaderStep, HandlerStep, ReadFails, Quits, ReaderPanics, Write, Quit, CloseChannels,
     CloseSocket, Leave, Close, Quiet, vars
<1>4. CASE LoopStep
  BY <1>1, <1>4 DEF LoopStep, ListenClosed, Respond, LoopPanics, LoopDone
<1>5. CASE SubscriptionStep
  BY <1>1, <1>5 DEF SubscriptionStep
<1> QED
  BY <1>2, <1>3, <1>4, <1>5 DEF Next

\* Events on their way are events of subscriptions there are.
LEMMA ItemsTyped ==
    ASSUME Typed, Carried
    PROVE  /\ Passed = [event: 1 .. Events, via: 1 .. MaxListens]
           /\ handler.pc = "write" => handler.item \in Passed
           /\ loop.pc = "respond" => loop.item \in Passed
           /\ \A k \in 1 .. Len(subs) : Offers(k) => subs[k].item \in Passed
  BY DEF Carried, Passed, Event

\* Subscriptions are numbered from 1.
LEMMA ViaTyped == \A item \in Passed : item.via \in Nat /\ item.via >= 1
  BY RealtimeAssumption DEF Passed

\* The subscriptions keep their types,
LEMMA SubsTypedStep ==
    ASSUME Typed, [Next]_vars
    PROVE  /\ subs' \in Seq(SubState) /\ Len(subs') <= MaxListens /\ Len(subs') \in Nat
           /\ \A k \in 1 .. Len(subs') : IsFiniteSet(subs'[k].prefixes)
           /\ Len(subs') = Len(subs) \/ (Listen /\ Len(subs') = Len(subs) + 1)
<1>1. /\ Len(subs) \in Nat /\ MaxListens \in Nat /\ Len(subs) <= MaxListens
      /\ subs \in Seq(SubState) /\ \A k \in 1 .. Len(subs) : IsFiniteSet(subs[k].prefixes)
  BY RealtimeAssumption DEF Typed
<1>2. CASE UNCHANGED subs
  BY <1>1, <1>2
<1>3. ASSUME NEW e \in Event, Publish(e)
      PROVE  /\ subs' \in Seq(SubState) /\ Len(subs') = Len(subs)
             /\ \A k \in 1 .. Len(subs') : IsFiniteSet(subs'[k].prefixes)
  <2>1. /\ subs' \in Seq(SubState) /\ Len(subs') = Len(subs)
        /\ \A k \in 1 .. Len(subs) :
               \/ subs'[k] = subs[k]
               \/ subs'[k] = [subs[k] EXCEPT !.inbox = @ \o Copies(e, subs[k].prefixes)]
    BY <1>3, PublishedTyped
  <2>2. \A k \in 1 .. Len(subs) : subs[k] \in SubState
    BY SubTyped
  <2>3. \A k \in 1 .. Len(subs) : subs'[k].prefixes = subs[k].prefixes
    BY <2>1, <2>2 DEF SubState
  <2> QED
    BY <1>1, <2>1, <2>3
<1>4. CASE Listen
  <2>1. /\ subs' \in Seq(SubState) /\ Len(subs') = Len(subs) + 1
        /\ \A k \in 1 .. Len(subs) : subs'[k] = LastCancelled[k]
        /\ subs'[Len(subs) + 1] = Subscription(reader.prefixes)
    BY <1>4, ListenTyped
  <2>2. Len(subs) < MaxListens
    BY <1>4 DEF Typed, Listen
  <2>3. subs'[Len(subs) + 1].prefixes = reader.prefixes
    BY <2>1 DEF Subscription
  <2>4. \A k \in 1 .. Len(subs) : subs'[k].prefixes = subs[k].prefixes
    BY <2>1, CancelledLast
  <2>5. \A k \in 1 .. Len(subs') : k \in 1 .. Len(subs) \/ k = Len(subs) + 1
    BY <1>1, <2>1
  <2> QED
    BY <1>1, <1>4, <2>1, <2>2, <2>3, <2>4, <2>5 DEF Typed
<1>5. CASE subs' = LastCancelled
  BY <1>1, <1>5, CancelledLast
<1>6. CASE \E k \in 1 .. Len(subs) : Went(k)
  BY <1>1, <1>6, WentTyped
<1> QED
  BY <1>1, <1>2, <1>3, <1>4, <1>5, <1>6, SubsStep

\* and so do all types.
LEMMA TypedStep ==
    ASSUME Typed, Carried, [Next]_vars
    PROVE  Typed'
<1>1. /\ subs' \in Seq(SubState) /\ Len(subs') <= MaxListens /\ Len(subs') \in Nat
      /\ \A k \in 1 .. Len(subs') : IsFiniteSet(subs'[k].prefixes)
      /\ Len(subs') = Len(subs) \/ (Listen /\ Len(subs') = Len(subs) + 1)
  BY SubsTypedStep
<1>2. /\ reader' \in ReaderState /\ IsFiniteSet(reader'.prefixes)
      /\ reader'.pc = "listen" => reader' = reader \/ Len(subs) < MaxListens
      /\ reader'.pc = "listen" => ~Listen
  <2>1. \A prefixes \in Asked : prefixes \in SUBSET Prefix /\ IsFiniteSet(prefixes)
    BY RealtimeAssumption
  <2>2. IsFiniteSet({})
    BY FS_EmptySet
  <2>3. CASE \E prefixes \in Asked : ReadListen(prefixes)
    <3>1. PICK prefixes \in Asked : ReadListen(prefixes)
      BY <2>3
    <3>2. /\ reader' = [pc |-> "listen", prefixes |-> prefixes] /\ Len(subs) < MaxListens
          /\ reader.pc = "read"
      BY <3>1 DEF ReadListen
    <3> QED
      BY <2>1, <3>2 DEF ReaderState, Listen
  <2>4. CASE ReadFails \/ ReadNonsense \/ Quit
    <3>1. PICK pc \in {"quit", "ended"} : reader' = [pc |-> pc, prefixes |-> {}]
      BY <2>4 DEF ReadFails, ReadNonsense, Quits, Quit
    <3>2. reader'.pc # "listen" /\ reader'.prefixes = {} /\ reader' \in ReaderState
      BY <3>1 DEF ReaderState
    <3> QED
      BY <2>2, <3>2
  <2>5. CASE Listen
    BY <2>2, <2>5 DEF Listen, ReaderState
  <2>6. CASE UNCHANGED reader
    BY <2>6 DEF Typed, Listen
  <2> QED
    BY <2>3, <2>4, <2>5, <2>6 DEF Next, Outside, ReaderStep, HandlerStep, LoopStep,
       SubscriptionStep, Publish, Client, ReaderPanics, Write, CloseChannels,
       CloseSocket, Leave, Close, ListenClosed, Respond, LoopPanics, LoopDone, TakeEvent,
       Subscribe, Receive, Unsubscribe, Quiet, vars
<1>3. /\ published' \in 0 .. Events /\ socket' \in Sockets
      /\ ctxDone' \in BOOLEAN /\ panicked' \in BOOLEAN
  <2>1. CASE Outside
    <3>1. ASSUME NEW e \in Event, Publish(e)
          PROVE  published' \in 0 .. Events
      BY <3>1, RealtimeAssumption DEF Publish, Event
    <3> QED
      BY <2>1, <3>1 DEF Typed, Sockets, Outside, Publish, Client, ClientStalls, ClientGoesOn,
         ClientLeaves, ReadNonsense, Quits, ReadListen
  <2>2. CASE ReaderStep \/ HandlerStep
    BY <2>2 DEF Typed, Sockets, ReaderStep, HandlerStep, ReadFails, Quits, ReaderPanics, Write,
       Quit, CloseChannels, CloseSocket, Leave, Close
  <2>3. CASE LoopStep \/ SubscriptionStep \/ Quiet \/ UNCHANGED vars
    BY <2>3 DEF Typed, LoopStep, SubscriptionStep, Listen, ListenClosed, Respond, LoopPanics,
       LoopDone, TakeEvent, Subscribe, Receive, Unsubscribe, Quiet, vars
  <2> QED
    BY <2>1, <2>2, <2>3 DEF Next
<1>4. handler' \in HandlerState
  <2>1. CASE UNCHANGED handler
    BY <2>1 DEF Typed
  <2>2. CASE Respond
    BY <2>2, ItemsTyped DEF Respond, HandlerState
  <2>3. CASE HandlerStep
    BY <2>3 DEF HandlerStep, Typed, HandlerState, Write, Waiting, Quit, CloseChannels,
       CloseSocket, Leave, Close
  <2> QED
    BY <2>1, <2>2, <2>3 DEF Next, Outside, ReaderStep, LoopStep, SubscriptionStep, Publish,
       Client, ReadNonsense, Quits, ReadListen, ReadFails, ReaderPanics, Listen,
       ListenClosed, LoopPanics, LoopDone, TakeEvent, Subscribe, Receive, Unsubscribe, Quiet,
       vars
<1>5. loop' \in LoopState
  <2>1. CASE UNCHANGED loop
    BY <2>1 DEF Typed
  <2>2. CASE Respond \/ LoopDone
    BY <2>2 DEF Respond, LoopDone, Waiting, Ended, LoopState
  <2>3. ASSUME NEW k \in 1 .. Len(subs), TakeEvent(k)
        PROVE  loop' \in LoopState
    BY <2>3, ItemsTyped DEF TakeEvent, LoopState, Offers
  <2> QED
    BY <2>1, <2>2, <2>3 DEF Next, Outside, ReaderStep, HandlerStep, LoopStep,
       SubscriptionStep, Publish, Client, ReadNonsense, Quits, ReadListen, ReadFails,
       ReaderPanics, Write, Quit, CloseChannels, CloseSocket, Leave, Close, Listen,
       ListenClosed, LoopPanics, Subscribe, Receive, Unsubscribe, Quiet, vars
<1>6. written' \in Seq(Passed)
  <2>1. CASE UNCHANGED written
    BY <2>1 DEF Typed
  <2>2. CASE Write
    <3>1. written \in Seq(Passed)
      BY DEF Typed
    <3>2. CASE UNCHANGED written
      BY <3>1, <3>2
    <3>3. CASE written' = Append(written, handler.item)
      <4>1. handler.item \in Passed
        BY <2>2, ItemsTyped DEF Write
      <4> QED
        BY <3>1, <3>3, <4>1, AppendProperties
    <3> QED
      BY <2>2, <3>2, <3>3 DEF Write
  <2> QED
    BY <2>1, <2>2 DEF Next, Outside, ReaderStep, HandlerStep, LoopStep, SubscriptionStep,
       Publish, Client, ReadNonsense, Quits, ReadListen, ReadFails, ReaderPanics, Quit,
       CloseChannels, CloseSocket, Leave, Close, Listen, ListenClosed, Respond, LoopPanics,
       LoopDone, TakeEvent, Subscribe, Receive, Unsubscribe, Quiet, vars
<1> QED
  BY <1>1, <1>2, <1>3, <1>4, <1>5, <1>6 DEF Typed

-----------------------------------------------------------------------------
(***************************************************************************)
(* The events on their way.                                                *)
(***************************************************************************)

\* A step that moves no event, though it may drop those in a subscription's channel.
CalmSubs ==
    /\ \A k \in 1 .. Len(subs) :
          /\ Offers(k)' <=> Offers(k)
          /\ Offers(k) => subs'[k].item = subs[k].item
          /\ subs'[k].inbox \in {subs[k].inbox, <<>>}
          /\ subs'[k].prefixes = subs[k].prefixes
    /\ \A k \in 1 .. Len(subs') : k \notin 1 .. Len(subs) => ~Offers(k)' /\ subs'[k].inbox = <<>>
    /\ Len(subs) <= Len(subs')

Calm ==
    /\ UNCHANGED <<written, published>>
    /\ (handler.pc = "write")' <=> handler.pc = "write"
    /\ handler.pc = "write" => handler' = handler
    /\ (loop.pc = "respond")' <=> loop.pc = "respond"
    /\ loop.pc = "respond" => loop' = loop
    /\ CalmSubs

\* The subscription that steps, and the others.
LEMMA StepFields ==
    ASSUME Typed, NEW k \in 1 .. Len(subs)
    PROVE  /\ TakeEvent(k) => Becomes(k, Taken(k))
           /\ Subscribe(k) => \E pc \in {"ended", "select"} : Becomes(k, Started(k, pc))
           /\ Receive(k) => Becomes(k, Received(k))
           /\ Unsubscribe(k) => Becomes(k, Stopped(k))
  BY SubscriptionSteps, SubscriptionStates, OneGoesOn

\* The handler moves on with the item it has.
LEMMA Moved ==
    ASSUME NEW h \in HandlerState, NEW pc
    PROVE  [h EXCEPT !.pc = pc].pc = pc /\ [h EXCEPT !.pc = pc].item = h.item
  BY DEF HandlerState

\* A handler that has written does not write.
LEMMA WriteEnds == ASSUME Typed, Write PROVE handler'.pc # "write"
<1>1. handler \in HandlerState
  BY DEF Typed
<1>2. [handler EXCEPT !.pc = "close_output"].pc = "close_output"
  BY <1>1, Moved
<1>3. handler' = Waiting \/ handler' = [handler EXCEPT !.pc = "close_output"]
  BY DEF Write
<1>4. CASE handler' = Waiting
  BY <1>4 DEF Waiting
<1>5. CASE handler' = [handler EXCEPT !.pc = "close_output"]
  <2>1. handler'.pc = "close_output"
    BY <1>2, <1>5
  <2> QED
    BY <2>1
<1> QED
  BY <1>3, <1>4, <1>5

\* Every step but five kinds is calm.
LEMMA StepKinds ==
    ASSUME Typed, [Next]_vars
    PROVE  \/ \E e \in Event : Publish(e)
           \/ \E k \in 1 .. Len(subs) : Receive(k) \/ TakeEvent(k)
           \/ Respond \/ Write
           \/ Calm
<1>1. Len(subs) \in Nat /\ \A k \in 1 .. Len(subs) : subs[k] \in SubState
  BY SubTyped DEF Typed
<1>2. ASSUME UNCHANGED subs
      PROVE  CalmSubs
  BY <1>1, <1>2 DEF CalmSubs, Offers
<1>3. ASSUME subs' = LastCancelled
      PROVE  CalmSubs
  BY <1>1, <1>3, CancelledLast DEF CalmSubs, Offers
<1>4. CASE Outside
  BY <1>2, <1>4 DEF Outside, Client, ReadNonsense, Quits, ReadListen, Calm
<1>5. CASE ReaderStep \/ HandlerStep
  <2>1. CASE ReaderStep
    BY <1>2, <2>1 DEF ReaderStep, ReadFails, Quits, ReaderPanics, Calm
  <2>2. CASE Quit
    BY <1>2, <2>2 DEF Quit, Calm
  <2>3. CASE CloseChannels \/ CloseSocket \/ Leave
    <3>1. handler.pc # "write" /\ UNCHANGED <<published, loop, subs, written>>
      BY <2>3 DEF CloseChannels, CloseSocket, Leave, Close
    <3>2. handler'.pc # "write"
      <4>1. handler \in HandlerState
        BY DEF Typed
      <4>2. \E pc \in {"close_input", "close_socket", "leave", "ended"} :
               handler' = [handler EXCEPT !.pc = pc]
        BY <2>3 DEF CloseChannels, CloseSocket, Leave, Close
      <4> QED
        BY <4>1, <4>2, Moved
    <3> QED
      BY <1>2, <3>1, <3>2 DEF Calm
  <2> QED
    BY <1>5, <2>1, <2>2, <2>3 DEF HandlerStep
<1>6. CASE Quiet \/ UNCHANGED vars
  BY <1>2, <1>6 DEF Quiet, vars, Calm
<1>7. CASE LoopPanics \/ ListenClosed \/ LoopDone
  BY <1>2, <1>3, <1>7 DEF LoopPanics, ListenClosed, LoopDone, Ended, Calm
<1>8. CASE Listen
  <2>1. /\ Len(subs') = Len(subs) + 1
        /\ \A k \in 1 .. Len(subs) : subs'[k] = LastCancelled[k]
        /\ subs'[Len(subs) + 1] = Subscription(reader.prefixes)
    BY <1>8, ListenTyped
  <2>2. \A k \in 1 .. Len(subs') : k \notin 1 .. Len(subs) => k = Len(subs) + 1
    BY <1>1, <2>1
  <2>3. CalmSubs
    BY <1>1, <2>1, <2>2, CancelledLast DEF CalmSubs, Offers, Subscription
  <2> QED
    BY <1>8, <2>3 DEF Listen, Calm
<1>9. ASSUME NEW k \in 1 .. Len(subs), Subscribe(k) \/ Unsubscribe(k)
      PROVE  Calm
  <2>1. PICK s \in {Started(k, "ended"), Started(k, "select"), Stopped(k)} :
          Becomes(k, s) /\ (s = Stopped(k) \/ subs[k].pc = "subscribe")
    BY <1>9, StepFields DEF Subscribe
  <2>2. ~Offers(k)
    BY <1>9 DEF Subscribe, Unsubscribe, Offers
  <2>3. s.pc # "send" /\ s.inbox \in {subs[k].inbox, <<>>} /\ s.prefixes = subs[k].prefixes
    BY <1>1, <2>1 DEF Started, Stopped, SubState
  <2>4. CalmSubs
    BY <1>1, <2>1, <2>2, <2>3 DEF CalmSubs, Offers, Becomes
  <2> QED
    BY <1>9, <2>4 DEF Subscribe, Unsubscribe, Calm
<1> QED
  BY <1>4, <1>5, <1>6, <1>7, <1>8, <1>9 DEF Next, LoopStep, SubscriptionStep

\* What the four steps that move an event do.
LEMMA Moves ==
    ASSUME Typed, Carried, NEW k \in 1 .. Len(subs)
    PROVE  /\ Receive(k) =>
                 /\ subs[k].inbox # <<>> /\ ~Offers(k) /\ Offers(k)'
                 /\ subs'[k].item = [event |-> Head(subs[k].inbox), via |-> k]
                 /\ subs'[k].inbox = Tail(subs[k].inbox)
                 /\ UNCHANGED <<published, handler, loop, written>>
           /\ TakeEvent(k) =>
                 /\ Offers(k) /\ ~Offers(k)' /\ loop.pc = "select"
                 /\ loop' = [pc |-> "respond", item |-> subs[k].item]
                 /\ subs'[k].inbox = subs[k].inbox
                 /\ UNCHANGED <<published, handler, written>>
           /\ Receive(k) \/ TakeEvent(k) =>
                 /\ subs'[k].prefixes = subs[k].prefixes
                 /\ Len(subs') = Len(subs)
                 /\ \A j \in 1 .. Len(subs) : j # k => subs'[j] = subs[j]
<1>1. subs[k] \in SubState
  BY SubTyped
<1>2. ASSUME Receive(k)
      PROVE  /\ Becomes(k, Received(k)) /\ subs[k].inbox # <<>> /\ subs[k].pc = "select"
             /\ UNCHANGED <<published, handler, loop, written>>
  BY <1>2, StepFields DEF Receive
<1>3. ASSUME TakeEvent(k)
      PROVE  /\ Becomes(k, Taken(k)) /\ subs[k].pc = "send" /\ loop.pc = "select"
             /\ loop' = [pc |-> "respond", item |-> subs[k].item]
             /\ UNCHANGED <<published, handler, written>>
  BY <1>3, StepFields DEF TakeEvent
<1> QED
  BY <1>1, <1>2, <1>3, ZenonT(40) DEF Becomes, Received, Taken, Offers, SubState

\* Publishing, field by field.
LEMMA PublishFields ==
    ASSUME Typed, NEW e \in Event, Publish(e)
    PROVE  /\ e = published + 1 /\ published' = e /\ Len(subs') = Len(subs)
           /\ UNCHANGED <<handler, loop, written>>
           /\ \A k \in 1 .. Len(subs) :
                 /\ subs'[k].prefixes = subs[k].prefixes
                 /\ Offers(k)' <=> Offers(k)
                 /\ subs'[k].item = subs[k].item
                 /\ \/ subs'[k].inbox = subs[k].inbox
                    \/ subs'[k].inbox = subs[k].inbox \o Copies(e, subs[k].prefixes)
<1>1. /\ Len(subs') = Len(subs)
      /\ \A k \in 1 .. Len(subs) :
            \/ subs'[k] = subs[k]
            \/ subs'[k] = [subs[k] EXCEPT !.inbox = @ \o Copies(e, subs[k].prefixes)]
  BY PublishedTyped
<1>2. \A k \in 1 .. Len(subs) : subs[k] \in SubState
  BY SubTyped
<1>3. \A k \in 1 .. Len(subs) :
          /\ subs'[k].prefixes = subs[k].prefixes
          /\ subs'[k].pc = subs[k].pc
          /\ subs'[k].item = subs[k].item
          /\ \/ subs'[k].inbox = subs[k].inbox
             \/ subs'[k].inbox = subs[k].inbox \o Copies(e, subs[k].prefixes)
  BY <1>1, <1>2 DEF SubState
<1> QED
  BY <1>1, <1>3 DEF Publish, Offers

\* Carried is inductive.
LEMMA CarriedStep ==
    ASSUME Typed, Carried, [Next]_vars
    PROVE  Carried'
<1>1. Len(subs) \in Nat /\ Len(subs) <= MaxListens /\ MaxListens \in Nat
  BY RealtimeAssumption DEF Typed
<1>2. written \in Seq(Passed) /\ Len(written) \in Nat
  BY DEF Typed
<1>3. ASSUME NEW e \in Event, Publish(e)
      PROVE  Carried'
  BY <1>1, <1>3, PublishFields DEF Carried
<1>4. ASSUME NEW k \in 1 .. Len(subs), Receive(k)
      PROVE  Carried'
  <2>1. Head(subs[k].inbox) \in Event
    BY <1>4, SubTyped, Moves, HeadTailProperties
  <2>2. subs'[k].item \in Passed /\ subs'[k].item.via = k
    <3>1. subs'[k].item = [event |-> Head(subs[k].inbox), via |-> k]
      BY <1>4, Moves
    <3>2. k \in 1 .. MaxListens
      BY <1>1
    <3> QED
      BY <2>1, <3>1, <3>2 DEF Passed
  <2>3. \A j \in 1 .. Len(subs) : j # k => (Offers(j)' <=> Offers(j)) /\ subs'[j] = subs[j]
    <3>1. \A j \in 1 .. Len(subs) : j # k => subs'[j] = subs[j]
      BY <1>4, Moves
    <3> QED
      BY <3>1 DEF Offers
  <2>4. Len(subs') = Len(subs) /\ UNCHANGED <<handler, loop, written>>
    BY <1>4, Moves
  <2> QED
    BY <2>2, <2>3, <2>4 DEF Carried
<1>5. ASSUME NEW k \in 1 .. Len(subs), TakeEvent(k)
      PROVE  Carried'
  <2>1. \A j \in 1 .. Len(subs) : j # k => (Offers(j)' <=> Offers(j)) /\ subs'[j] = subs[j]
    BY <1>5, Moves, ZenonT(40) DEF Offers
  <2>2. /\ Offers(k) /\ ~Offers(k)' /\ loop' = [pc |-> "respond", item |-> subs[k].item]
        /\ Len(subs') = Len(subs) /\ UNCHANGED <<handler, written>>
    BY <1>5, Moves
  <2> QED
    BY <1>1, <2>1, <2>2 DEF Carried
<1>6. CASE Respond
  <2>1. /\ loop.pc = "respond" /\ handler' = [pc |-> "write", item |-> loop.item]
        /\ loop'.pc # "respond" /\ UNCHANGED <<subs, written>>
    BY <1>6 DEF Respond, Waiting
  <2>2. \A k \in 1 .. Len(subs) : Offers(k)' <=> Offers(k)
    BY <2>1 DEF Offers
  <2> QED
    BY <2>1, <2>2 DEF Carried
<1>7. CASE Write
  <2>1. handler.item \in Passed /\ handler.item.via <= Len(subs)
    BY <1>7 DEF Write, Carried
  <2>2. \A i \in 1 .. Len(written') : written'[i].via <= Len(subs)
    <3>1. CASE UNCHANGED written
      BY <3>1 DEF Carried
    <3>2. CASE written' = Append(written, handler.item)
      <4>1. /\ Len(written') = Len(written) + 1
            /\ \A i \in 1 .. Len(written) : written'[i] = written[i]
            /\ written'[Len(written) + 1] = handler.item
        BY <1>2, <2>1, <3>2, AppendProperties
      <4>2. \A i \in 1 .. Len(written') : i \in 1 .. Len(written) \/ i = Len(written) + 1
        BY <1>2, <4>1
      <4> QED
        BY <2>1, <4>1, <4>2 DEF Carried
    <3> QED
      BY <1>7, <3>1, <3>2 DEF Write
  <2>3. handler'.pc # "write" /\ UNCHANGED <<loop, subs>>
    BY <1>7, WriteEnds DEF Write
  <2> QED
    BY <2>2, <2>3 DEF Carried, Offers
<1>8. CASE Calm
  <2>1. Len(subs') \in Nat /\ Len(subs) <= Len(subs')
    BY <1>8, SubsTypedStep DEF Calm, CalmSubs
  <2>2. \A k \in 1 .. Len(subs') : Offers(k)' =>
            k \in 1 .. Len(subs) /\ Offers(k) /\ subs'[k].item = subs[k].item
    BY <1>8 DEF Calm, CalmSubs
  <2>3. \A item \in Passed : item.via \in Nat
    BY <1>1 DEF Passed
  <2>4. \A i \in 1 .. Len(written) : written[i].via \in Nat
    BY <1>2, <2>3
  <2>5. UNCHANGED written /\ \A i \in 1 .. Len(written') : written'[i].via <= Len(subs')
    BY <1>1, <1>8, <2>1, <2>4 DEF Carried, Calm
  <2>6. handler'.pc = "write" => handler'.item \in Passed /\ handler'.item.via <= Len(subs')
    BY <1>1, <1>8, <2>1, <2>3 DEF Carried, Calm
  <2>7. loop'.pc = "respond" => loop'.item \in Passed /\ loop'.item.via <= Len(subs')
    BY <1>1, <1>8, <2>1, <2>3 DEF Carried, Calm
  <2>8. \A k \in 1 .. Len(subs') :
            Offers(k)' => subs'[k].item \in Passed /\ subs'[k].item.via = k
    BY <2>2 DEF Carried
  <2> QED
    BY <2>5, <2>6, <2>7, <2>8 DEF Carried
<1> QED
  BY <1>3, <1>4, <1>5, <1>6, <1>7, <1>8, StepKinds

\* An event is something.
LEMMA PassedIsSomething == \A item \in Passed : item # Nothing
<1> SUFFICES ASSUME NEW item \in Passed PROVE item # Nothing
  OBVIOUS
<1>1. DOMAIN item = {"event", "via"}
  BY DEF Passed
<1>2. DOMAIN Nothing = {}
  BY DEF Nothing
<1> QED
  BY <1>1, <1>2

\* A connection that is passed no event closes only after its reader has left.
LEMMA ClosedStep ==
    ASSUME Typed, Carried, ClosedByEvent, [Next]_vars
    PROVE  ClosedByEvent'
<1>1. ASSUME handler'.pc \notin {"select", "write"}
      PROVE  reader'.pc = "ended" \/ handler'.item # Nothing
  <2>1. CASE Quit
    BY <2>1 DEF Quit
  <2>2. CASE Write
    <3>1. handler.item \in Passed /\ handler' = [handler EXCEPT !.pc = "close_output"]
      BY <1>1, <2>2, ItemsTyped DEF Write, Waiting
    <3> QED
      BY <3>1, PassedIsSomething DEF Typed, HandlerState
  <2>3. CASE UNCHANGED handler \/ CloseChannels \/ CloseSocket \/ Leave
    <3>1. handler.pc \notin {"select", "write"} /\ handler'.item = handler.item
      BY <1>1, <2>3 DEF CloseChannels, CloseSocket, Leave, Close, Typed, HandlerState
    <3>2. reader.pc = "ended" => reader'.pc = "ended"
      BY <3>1 DEF Next, Outside, ReaderStep, HandlerStep, LoopStep, SubscriptionStep, Publish,
         Client, ReadNonsense, Quits, ReadListen, ReadFails, ReaderPanics, Write, Quit,
         CloseChannels, CloseSocket, Leave, Close, Listen, ListenClosed, Respond, LoopPanics,
         LoopDone, TakeEvent, Subscribe, Receive, Unsubscribe, Quiet, vars
    <3> QED
      BY <3>1, <3>2 DEF ClosedByEvent
  <2>4. CASE Respond
    BY <1>1, <2>4 DEF Respond
  <2> QED
    BY <2>1, <2>2, <2>3, <2>4 DEF Next, Outside, ReaderStep, HandlerStep, LoopStep,
       SubscriptionStep, Publish, Client, ReadNonsense, Quits, ReadListen, ReadFails,
       ReaderPanics, Listen, ListenClosed, LoopPanics, LoopDone, TakeEvent, Subscribe,
       Receive, Unsubscribe, Quiet, vars
<1>2. PanicNeedsEvent'
  <2>1. CASE ReaderPanics
    BY <2>1 DEF ReaderPanics, InputClosed, ClosedByEvent, PanicNeedsEvent
  <2>2. CASE LoopPanics
    BY <2>2 DEF LoopPanics, PanicNeedsEvent
  <2>3. CASE UNCHANGED panicked
    <3>1. CASE ~panicked
      BY <2>3, <3>1 DEF PanicNeedsEvent
    <3>2. CASE panicked
      <4>1. UNCHANGED <<loop, reader, handler>>
        BY <3>2 DEF Next, Outside, ReaderStep, HandlerStep, LoopStep, SubscriptionStep,
           Publish, Client, ReadNonsense, Quits, ReadListen, ReadFails, ReaderPanics, Write,
           Quit, CloseChannels, CloseSocket, Leave, Close, Listen, ListenClosed, Respond,
           LoopPanics, LoopDone, TakeEvent, Subscribe, Receive, Unsubscribe, Quiet, vars
      <4> QED
        BY <3>2, <4>1 DEF ClosedByEvent, PanicNeedsEvent
    <3> QED
      BY <3>1, <3>2
  <2> QED
    BY <2>1, <2>2, <2>3 DEF Next, Outside, ReaderStep, HandlerStep, LoopStep,
       SubscriptionStep, Publish, Client, ReadNonsense, Quits, ReadListen, ReadFails, Write,
       Quit, CloseChannels, CloseSocket, Leave, Close, Listen, ListenClosed, Respond,
       LoopDone, TakeEvent, Subscribe, Receive, Unsubscribe, Quiet, vars
<1> QED
  BY <1>1, <1>2 DEF ClosedByEvent

-----------------------------------------------------------------------------
(***************************************************************************)
(* Order along the way.                                                    *)
(***************************************************************************)

\* Events are numbers.
LEMMA EventsTyped ==
    ASSUME Typed, Carried
    PROVE  /\ Event \subseteq Nat /\ published \in Nat
           /\ Len(written) \in Nat
           /\ \A k : Through(k) \subseteq 1 .. Len(written)
           /\ \A i \in 1 .. Len(written) : written[i] \in Passed /\ written[i].event \in Event
           /\ handler.pc = "write" => handler.item.event \in Event
           /\ loop.pc = "respond" => loop.item.event \in Event
           /\ \A k \in 1 .. Len(subs) :
                 /\ Offers(k) => subs[k].item.event \in Event
                 /\ subs[k].inbox \in Seq(Event) /\ Len(subs[k].inbox) \in Nat
                 /\ \A i \in 1 .. Len(subs[k].inbox) : subs[k].inbox[i] \in Event
<1>1. Event \subseteq Nat /\ published \in Nat
  BY RealtimeAssumption DEF Event, Typed
<1>2. \A item \in Passed : item.event \in Event
  BY DEF Passed
<1>3. written \in Seq(Passed)
  BY DEF Typed
<1>4. Len(written) \in Nat /\ \A i \in 1 .. Len(written) : written[i] \in Passed
  BY <1>3
<1>5. ASSUME NEW k \in 1 .. Len(subs)
      PROVE  /\ subs[k].inbox \in Seq(Event) /\ Len(subs[k].inbox) \in Nat
             /\ \A i \in 1 .. Len(subs[k].inbox) : subs[k].inbox[i] \in Event
  BY SubTyped
<1> QED
  BY <1>1, <1>2, <1>4, <1>5, ItemsTyped DEF Through

\* A step that moves no event of subscription k, though it may empty its channel.
Unmoved(k) ==
    /\ UNCHANGED <<written, published>>
    /\ Writes(k)' <=> Writes(k)
    /\ Writes(k) => handler'.item = handler.item
    /\ Passes(k)' <=> Passes(k)
    /\ Passes(k) => loop'.item = loop.item
    /\ Offers(k)' <=> Offers(k)
    /\ Offers(k) => subs'[k].item = subs[k].item
    /\ subs'[k].inbox \in {subs[k].inbox, <<>>}
    /\ subs'[k].prefixes = subs[k].prefixes

\* Each step leaves alone most subscriptions.
LEMMA Bystanders ==
    ASSUME Typed, Carried, NEW k \in 1 .. Len(subs)
    PROVE  /\ Calm => Unmoved(k)
           /\ \A j \in 1 .. Len(subs) : j # k /\ (Receive(j) \/ TakeEvent(j)) => Unmoved(k)
           /\ Respond /\ ~Passes(k) => Unmoved(k)
<1>1. ASSUME Calm
      PROVE  Unmoved(k)
  BY <1>1 DEF Calm, CalmSubs, Unmoved, Writes, Passes
<1>2. ASSUME NEW j \in 1 .. Len(subs), j # k, Receive(j)
      PROVE  Unmoved(k)
  <2>1. subs'[k] = subs[k] /\ UNCHANGED <<published, handler, loop, written>>
    BY <1>2, Moves, ZenonT(40)
  <2> QED
    BY <2>1 DEF Unmoved, Writes, Passes, Offers
<1>3. ASSUME NEW j \in 1 .. Len(subs), j # k, TakeEvent(j)
      PROVE  Unmoved(k)
  <2>1. /\ subs'[k] = subs[k] /\ UNCHANGED <<published, handler, written>>
        /\ Offers(j) /\ loop.pc = "select" /\ loop' = [pc |-> "respond", item |-> subs[j].item]
    BY <1>3, Moves
  <2>2. loop'.item.via # k /\ loop.pc # "respond"
    BY <1>3, <2>1 DEF Carried
  <2> QED
    BY <2>1, <2>2 DEF Unmoved, Writes, Passes, Offers
<1>4. ASSUME Respond, ~Passes(k)
      PROVE  Unmoved(k)
  BY <1>4 DEF Respond, Waiting, Unmoved, Writes, Passes, Offers
<1> QED
  BY <1>1, <1>2, <1>3, <1>4

\* Where nothing moves, order stays.
LEMMA UnmovedOrdered ==
    ASSUME Typed, Carried, NEW k \in 1 .. Len(subs), Unmoved(k), Ordered(k)
    PROVE  Ordered(k)'
<1>1. \A e : OfferUpTo(k, e) <=> OfferUpTo(k, e)'
  BY DEF OfferUpTo, LoopUpTo, HandlerUpTo, WrittenUpTo, Through, Unmoved
<1>2. \A e : LoopUpTo(k, e) <=> LoopUpTo(k, e)'
  BY DEF LoopUpTo, HandlerUpTo, WrittenUpTo, Through, Unmoved
<1>3. \A e : HandlerUpTo(k, e) <=> HandlerUpTo(k, e)'
  BY DEF HandlerUpTo, WrittenUpTo, Through, Unmoved
<1>4. \A e : WrittenUpTo(k, e) <=> WrittenUpTo(k, e)'
  BY DEF WrittenUpTo, Through, Unmoved
<1>5. \A i, j \in Through(k)' : i < j => written'[i].event <= written'[j].event
  BY DEF Ordered, Unmoved, Through
<1>6. CASE subs'[k].inbox = subs[k].inbox
  BY <1>1, <1>2, <1>3, <1>4, <1>5, <1>6 DEF Ordered, Unmoved
<1>7. CASE subs'[k].inbox = <<>>
  <2>1. 1 .. Len(subs'[k].inbox) = {}
    BY <1>7
  <2> QED
    BY <1>1, <1>2, <1>3, <1>4, <1>5, <2>1 DEF Ordered, Unmoved
<1> QED
  BY <1>6, <1>7 DEF Unmoved

\* A message received is the first of its channel.
LEMMA ReceiveOrdered ==
    ASSUME Typed, Carried, NEW k \in 1 .. Len(subs), Receive(k), Ordered(k)
    PROVE  Ordered(k)'
<1> DEFINE s == subs[k].inbox
<1>1. /\ s # <<>> /\ ~Offers(k) /\ Offers(k)'
      /\ subs'[k].item = [event |-> Head(s), via |-> k]
      /\ subs'[k].inbox = Tail(s)
      /\ UNCHANGED <<published, handler, loop, written>>
  BY Moves
<1>2. s \in Seq(Event) /\ Len(s) \in Nat /\ Event \subseteq Nat
  BY EventsTyped
<1>3. /\ Head(s) = s[1] /\ Len(s) >= 1 /\ Len(Tail(s)) = Len(s) - 1
      /\ \A i \in 1 .. Len(Tail(s)) : Tail(s)[i] = s[i + 1] /\ i + 1 \in 1 .. Len(s)
  BY <1>1, <1>2, HeadTailProperties
<1>4. \A e : LoopUpTo(k, e) <=> LoopUpTo(k, e)'
  BY <1>1 DEF LoopUpTo, HandlerUpTo, WrittenUpTo, Through, Writes, Passes
<1>5. \A e : OfferUpTo(k, e) /\ s[1] <= e => OfferUpTo(k, e)'
  BY <1>1, <1>3, <1>4 DEF OfferUpTo
<1>6. \A e : HandlerUpTo(k, e) <=> HandlerUpTo(k, e)'
  BY <1>1 DEF HandlerUpTo, WrittenUpTo, Through, Writes
<1>7. \A e : WrittenUpTo(k, e) <=> WrittenUpTo(k, e)'
  BY <1>1 DEF WrittenUpTo, Through
<1>8. /\ \A i, j \in Through(k)' : i < j => written'[i].event <= written'[j].event
      /\ Writes(k)' => WrittenUpTo(k, handler.item.event)'
      /\ Passes(k)' => HandlerUpTo(k, loop.item.event)'
  BY <1>1, <1>6, <1>7 DEF Ordered, Through, Writes, Passes
<1>9. 1 \in 1 .. Len(s)
  BY <1>2, <1>3
<1>10. LoopUpTo(k, subs[k].item.event)'
  <2>1. LoopUpTo(k, s[1])
    BY <1>9 DEF Ordered, OfferUpTo
  <2> QED
    BY <1>1, <1>3, <1>4, <2>1
<1>11. OfferUpTo(k, published)'
  BY <1>1, <1>5, <1>9 DEF Ordered
<1>12. ASSUME NEW i \in 1 .. Len(subs'[k].inbox)
       PROVE  /\ OfferUpTo(k, subs[k].inbox[i])'
              /\ \A j \in 1 .. Len(subs'[k].inbox) :
                    i < j => subs'[k].inbox[i] <= subs'[k].inbox[j]
              /\ subs'[k].inbox[i] <= published'
  <2>1. subs'[k].inbox[i] = s[i + 1] /\ i + 1 \in 1 .. Len(s) /\ i \in Nat /\ 1 < i + 1
    BY <1>1, <1>2, <1>3
  <2>2. OfferUpTo(k, s[i + 1]) /\ s[1] <= s[i + 1] /\ s[i + 1] <= published
    BY <1>9, <2>1 DEF Ordered
  <2>3. OfferUpTo(k, subs[k].inbox[i])'
    <3>1. PICK e : e = s[i + 1]
      OBVIOUS
    <3>2. OfferUpTo(k, e)'
      BY <1>5, <2>2, <3>1
    <3> QED
      BY <2>1, <3>1, <3>2
  <2>4. ASSUME NEW j \in 1 .. Len(subs'[k].inbox), i < j
        PROVE  subs'[k].inbox[i] <= subs'[k].inbox[j]
    <3>1. subs'[k].inbox[j] = s[j + 1] /\ j + 1 \in 1 .. Len(s) /\ i + 1 < j + 1
      BY <1>1, <1>2, <1>3, <2>4
    <3> QED
      BY <2>1, <3>1 DEF Ordered
  <2> QED
    BY <1>1, <2>1, <2>2, <2>3, <2>4
<1> QED
  BY <1>1, <1>8, <1>10, <1>11, <1>12 DEF Ordered

\* The loop takes the event of a subscription when it holds none,
LEMMA TakeOrdered ==
    ASSUME Typed, Carried, NEW k \in 1 .. Len(subs), TakeEvent(k), Ordered(k)
    PROVE  Ordered(k)'
<1>1. /\ Offers(k) /\ ~Offers(k)' /\ ~Passes(k)
      /\ loop' = [pc |-> "respond", item |-> subs[k].item]
      /\ subs'[k].inbox = subs[k].inbox
      /\ UNCHANGED <<published, handler, written>>
  BY Moves DEF Passes
<1>2. \A e : HandlerUpTo(k, e) <=> HandlerUpTo(k, e)'
  BY <1>1 DEF HandlerUpTo, WrittenUpTo, Through, Writes
<1>3. \A e : OfferUpTo(k, e) => OfferUpTo(k, e)'
  BY <1>1, <1>2 DEF OfferUpTo, LoopUpTo, Passes
<1>4. \A e : WrittenUpTo(k, e) <=> WrittenUpTo(k, e)'
  BY <1>1 DEF WrittenUpTo, Through
<1>5. HandlerUpTo(k, loop.item.event)'
  BY <1>1, <1>2 DEF Ordered, LoopUpTo
<1> QED
  BY <1>1, <1>3, <1>4, <1>5 DEF Ordered, Through, Writes

\* the handler the event of the loop when it writes none,
LEMMA RespondOrdered ==
    ASSUME Typed, Carried, NEW k \in 1 .. Len(subs), Respond, Passes(k), Ordered(k)
    PROVE  Ordered(k)'
<1>1. /\ handler' = [pc |-> "write", item |-> loop.item] /\ loop'.pc # "respond"
      /\ ~Writes(k) /\ UNCHANGED <<published, subs, written>>
  BY DEF Respond, Waiting, Writes
<1>2. \A e : WrittenUpTo(k, e) <=> WrittenUpTo(k, e)'
  BY <1>1 DEF WrittenUpTo, Through
<1>3. \A e : LoopUpTo(k, e) => LoopUpTo(k, e)'
  BY <1>1, <1>2 DEF LoopUpTo, HandlerUpTo, Writes, Passes
<1>4. \A e : OfferUpTo(k, e) => OfferUpTo(k, e)'
  BY <1>1, <1>3 DEF OfferUpTo, Offers
<1>5. Writes(k)' => WrittenUpTo(k, handler.item.event)'
  BY <1>1, <1>2 DEF Ordered, HandlerUpTo
<1> QED
  BY <1>1, <1>3, <1>4, <1>5 DEF Ordered, Through, Passes, Offers

\* Writing appends the handler's event, or drops it.
LEMMA WriteFields ==
    ASSUME Typed, Carried, Write
    PROVE  /\ handler.pc = "write" /\ handler.item \in Passed
           /\ handler'.pc # "write" /\ UNCHANGED <<published, loop, subs>>
           /\ \/ UNCHANGED written
              \/ /\ Len(written') = Len(written) + 1
                 /\ \A i \in 1 .. Len(written) : written'[i] = written[i]
                 /\ written'[Len(written) + 1] = handler.item
<1>1. written \in Seq(Passed) /\ handler.item \in Passed
  BY ItemsTyped DEF Typed, Write
<1>2. ASSUME written' = Append(written, handler.item)
      PROVE  /\ Len(written') = Len(written) + 1
             /\ \A i \in 1 .. Len(written) : written'[i] = written[i]
             /\ written'[Len(written) + 1] = handler.item
  BY <1>1, <1>2, AppendProperties
<1>3. handler'.pc # "write"
  BY WriteEnds
<1> QED
  BY <1>1, <1>2, <1>3 DEF Write

\* and what it writes comes after all that is written.
LEMMA WriteOrdered ==
    ASSUME Typed, Carried, NEW k \in 1 .. Len(subs), Write, Ordered(k)
    PROVE  Ordered(k)'
<1>1. /\ handler.pc = "write" /\ handler'.pc # "write" /\ UNCHANGED <<published, loop, subs>>
      /\ ~Writes(k)'
  BY WriteFields DEF Writes
<1>2. Len(written) \in Nat /\ Event \subseteq Nat
  BY EventsTyped
<1>3. /\ \A e : HandlerUpTo(k, e) => HandlerUpTo(k, e)'
      /\ \A i, j \in Through(k)' : i < j => written'[i].event <= written'[j].event
  <2>1. CASE UNCHANGED written
    BY <1>1, <2>1 DEF HandlerUpTo, WrittenUpTo, Through, Ordered
  <2>2. CASE /\ Len(written') = Len(written) + 1
             /\ \A i \in 1 .. Len(written) : written'[i] = written[i]
             /\ written'[Len(written) + 1] = handler.item
    <3>1. \A i \in Through(k)' :
             \/ i \in Through(k) /\ written'[i] = written[i] /\ i <= Len(written)
             \/ i = Len(written) + 1 /\ written'[i] = handler.item /\ Writes(k)
      BY <1>1, <1>2, <2>2 DEF Through, Writes
    <3>2. \A e : HandlerUpTo(k, e) => HandlerUpTo(k, e)'
      BY <1>1, <3>1 DEF HandlerUpTo, WrittenUpTo
    <3>3. Writes(k) => WrittenUpTo(k, handler.item.event)
      BY DEF Ordered
    <3>4. \A i, j \in Through(k) : i < j => written[i].event <= written[j].event
      BY DEF Ordered
    <3>5. ASSUME NEW i \in Through(k)', NEW j \in Through(k)', i < j
          PROVE  written'[i].event <= written'[j].event
      <4>0. i \in Nat /\ j \in Nat /\ j <= Len(written) + 1
        BY <1>2, <2>2, <3>1, <3>5 DEF Through
      <4>1. i \in Through(k) /\ written'[i] = written[i]
        BY <1>2, <3>1, <3>5, <4>0
      <4>2. CASE j \in Through(k) /\ written'[j] = written[j]
        BY <3>4, <3>5, <4>1, <4>2
      <4>3. CASE written'[j] = handler.item /\ Writes(k)
        BY <3>3, <4>1, <4>3 DEF WrittenUpTo
      <4> QED
        BY <3>1, <4>2, <4>3
    <3> QED
      BY <3>2, <3>5
  <2> QED
    BY <2>1, <2>2, WriteFields
<1>4. \A e : LoopUpTo(k, e) => LoopUpTo(k, e)'
  BY <1>1, <1>3 DEF LoopUpTo, Passes
<1>5. \A e : OfferUpTo(k, e) => OfferUpTo(k, e)'
  BY <1>1, <1>4 DEF OfferUpTo, Offers
<1> QED
  BY <1>1, <1>3, <1>4, <1>5 DEF Ordered, Passes, Offers

\* The places of two sequences joined.
LEMMA Joined ==
    ASSUME NEW S, NEW s \in Seq(S), NEW n \in Seq(S)
    PROVE  /\ Len(s \o n) = Len(s) + Len(n)
           /\ \A x \in 1 .. Len(s \o n) :
                 \/ x \in 1 .. Len(s) /\ (s \o n)[x] = s[x]
                 \/ x > Len(s) /\ x - Len(s) \in 1 .. Len(n) /\ (s \o n)[x] = n[x - Len(s)]
<1>1. Len(s) \in Nat /\ Len(n) \in Nat
  OBVIOUS
<1>2. /\ Len(s \o n) = Len(s) + Len(n)
      /\ \A x \in 1 .. Len(s) + Len(n) :
            (s \o n)[x] = IF x <= Len(s) THEN s[x] ELSE n[x - Len(s)]
  BY ConcatProperties
<1>3. ASSUME NEW x \in 1 .. Len(s \o n), ~(x <= Len(s))
      PROVE  x > Len(s) /\ x - Len(s) \in 1 .. Len(n)
  BY <1>1, <1>2, <1>3
<1> QED
  BY <1>1, <1>2, <1>3

\* A message that comes in is later than all before it.
LEMMA PublishOrdered ==
    ASSUME Typed, Carried, NEW k \in 1 .. Len(subs), NEW e \in Event, Publish(e), Ordered(k)
    PROVE  Ordered(k)'
<1> DEFINE s == subs[k].inbox
           n == Copies(e, subs[k].prefixes)
<1>1. /\ e = published + 1 /\ published' = e /\ UNCHANGED <<handler, loop, written>>
      /\ Offers(k)' <=> Offers(k)
      /\ subs'[k].item = subs[k].item
      /\ subs'[k].inbox = s \/ subs'[k].inbox = s \o n
  BY PublishFields
<1>2. /\ s \in Seq(Event) /\ Len(s) \in Nat /\ Event \subseteq Nat /\ published \in Nat
      /\ \A i \in 1 .. Len(s) : s[i] \in Nat
  BY EventsTyped
<1>3. n \in Seq(Event) /\ Len(n) \in Nat /\ \A i \in 1 .. Len(n) : n[i] = e
  <2>1. subs[k].prefixes \in SUBSET Prefix /\ IsFiniteSet(subs[k].prefixes)
    BY SubTyped DEF SubState, Typed
  <2> QED
    BY <2>1, CopiesTyped
<1>4. /\ \A x : OfferUpTo(k, x) <=> OfferUpTo(k, x)'
      /\ \A x : LoopUpTo(k, x) <=> LoopUpTo(k, x)'
      /\ \A x : HandlerUpTo(k, x) <=> HandlerUpTo(k, x)'
      /\ \A x : WrittenUpTo(k, x) <=> WrittenUpTo(k, x)'
  BY <1>1 DEF OfferUpTo, LoopUpTo, HandlerUpTo, WrittenUpTo, Through, Writes, Passes
<1>5. OfferUpTo(k, e)
  <2>1. \A x \in Event : x <= published => x <= e
    BY <1>1, <1>2
  <2>2. OfferUpTo(k, published)
    BY DEF Ordered
  <2>3. \A i \in Through(k) : written[i].event \in Event
    BY EventsTyped
  <2>4. /\ Writes(k) => handler.item.event \in Event
        /\ Passes(k) => loop.item.event \in Event
        /\ Offers(k) => subs[k].item.event \in Event
    BY EventsTyped DEF Writes, Passes
  <2> QED
    BY <2>1, <2>2, <2>3, <2>4 DEF OfferUpTo, LoopUpTo, HandlerUpTo, WrittenUpTo
<1>6. /\ \A i, j \in Through(k)' : i < j => written'[i].event <= written'[j].event
      /\ Writes(k)' => WrittenUpTo(k, handler.item.event)'
      /\ Passes(k)' => HandlerUpTo(k, loop.item.event)'
      /\ Offers(k)' => LoopUpTo(k, subs[k].item.event)'
  BY <1>1, <1>4 DEF Ordered, Through, Writes, Passes
<1>7. ASSUME NEW i \in 1 .. Len(subs'[k].inbox)
      PROVE  \/ i \in 1 .. Len(s) /\ subs'[k].inbox[i] = s[i]
             \/ i > Len(s) /\ subs'[k].inbox[i] = e
  <2>1. CASE subs'[k].inbox = s
    BY <2>1
  <2>2. CASE subs'[k].inbox = s \o n
    <3>1. \/ i \in 1 .. Len(s) /\ (s \o n)[i] = s[i]
          \/ i > Len(s) /\ i - Len(s) \in 1 .. Len(n) /\ (s \o n)[i] = n[i - Len(s)]
      BY <1>2, <1>3, <2>2, Joined
    <3> QED
      BY <1>3, <2>2, <3>1
  <2> QED
    BY <1>1, <2>1, <2>2
<1>8. ASSUME NEW i \in 1 .. Len(subs'[k].inbox)
      PROVE  /\ OfferUpTo(k, subs[k].inbox[i])'
             /\ \A j \in 1 .. Len(subs'[k].inbox) :
                   i < j => subs'[k].inbox[i] <= subs'[k].inbox[j]
             /\ subs'[k].inbox[i] <= published'
  <2>1. \A x \in 1 .. Len(s) : OfferUpTo(k, s[x]) /\ s[x] <= published
    BY DEF Ordered
  <2>2. OfferUpTo(k, subs[k].inbox[i])'
    BY <1>4, <1>5, <1>7, <2>1
  <2>3. subs'[k].inbox[i] <= e
    BY <1>1, <1>2, <1>7, <2>1, SMTT(30)
  <2>4. ASSUME NEW j \in 1 .. Len(subs'[k].inbox), i < j
        PROVE  subs'[k].inbox[i] <= subs'[k].inbox[j]
    <3>1. CASE j > Len(s) /\ subs'[k].inbox[j] = e
      BY <2>3, <3>1
    <3>2. CASE j \in 1 .. Len(s) /\ subs'[k].inbox[j] = s[j]
      <4>1. i \in 1 .. Len(s) /\ subs'[k].inbox[i] = s[i]
        BY <1>2, <1>7, <2>4, <3>2
      <4> QED
        BY <2>4, <3>2, <4>1 DEF Ordered
    <3> QED
      BY <1>7, <3>1, <3>2
  <2> QED
    BY <1>1, <2>2, <2>3, <2>4
<1>9. OfferUpTo(k, published)'
  BY <1>1, <1>4, <1>5
<1> QED
  BY <1>6, <1>8, <1>9 DEF Ordered

-----------------------------------------------------------------------------
(***************************************************************************)
(* The copies of an event.                                                 *)
(***************************************************************************)

\* The places of a value in a sequence can be counted,
LEMMA PlacesTyped ==
    ASSUME NEW S, NEW s \in Seq(S), NEW e
    PROVE  /\ IsFiniteSet(Places(s, e)) /\ Cardinality(Places(s, e)) \in Nat
           /\ Places(s, e) \subseteq 1 .. Len(s)
<1>1. Len(s) \in Nat /\ IsFiniteSet(1 .. Len(s))
  BY FS_Interval
<1>2. Places(s, e) \subseteq 1 .. Len(s)
  BY DEF Places
<1> QED
  BY <1>1, <1>2, FS_Subset, FS_CardinalityType

\* none is left but its first when the first goes,
LEMMA TailPlaces ==
    ASSUME NEW S, NEW s \in Seq(S), s # <<>>, NEW e
    PROVE  Cardinality(Places(s, e)) = Cardinality(Places(Tail(s), e)) + One(Head(s) = e)
<1> DEFINE A == Places(Tail(s), e)
           B == Places(s, e) \ {1}
           f == [i \in A |-> i + 1]
<1>1. /\ Head(s) = s[1] /\ Len(s) \in Nat /\ Len(s) >= 1 /\ Len(Tail(s)) = Len(s) - 1
      /\ Tail(s) \in Seq(S)
      /\ \A i \in 1 .. Len(Tail(s)) : Tail(s)[i] = s[i + 1]
  BY HeadTailProperties
<1>2. f \in Bijection(A, B)
  <2>1. \A i \in A : i \in Nat /\ i + 1 \in B
    BY <1>1 DEF Places
  <2>2. f \in [A -> B]
    BY <2>1
  <2>3. \A i, j \in A : f[i] = f[j] => i = j
    BY <2>1
  <2>4. \A j \in B : \E i \in A : f[i] = j
    <3>1. SUFFICES ASSUME NEW j \in B
                   PROVE  j - 1 \in A /\ f[j - 1] = j
      OBVIOUS
    <3>2. j \in 1 .. Len(s) /\ j # 1 /\ s[j] = e
      BY DEF Places
    <3>3. j - 1 \in 1 .. Len(Tail(s)) /\ Tail(s)[j - 1] = s[j]
      BY <1>1, <3>2
    <3> QED
      BY <3>2, <3>3 DEF Places
  <2> QED
    BY <2>2, <2>3, <2>4, Fun_IsBij
<1>3. IsFiniteSet(A) /\ IsFiniteSet(Places(s, e)) /\ Cardinality(Places(s, e)) \in Nat
  BY <1>1, PlacesTyped
<1>4. Cardinality(B) = Cardinality(A)
  BY <1>2, <1>3, FS_Bijection DEF ExistsBijection
<1>5. Cardinality(B) = IF 1 \in Places(s, e) THEN Cardinality(Places(s, e)) - 1
                       ELSE Cardinality(Places(s, e))
  BY <1>3, FS_RemoveElement
<1>6. 1 \in Places(s, e) <=> Head(s) = e
  BY <1>1 DEF Places
<1> QED
  BY <1>3, <1>4, <1>5, <1>6 DEF One

\* as many come as copies are added, and where none has been and others are added none.
LEMMA AddedPlaces ==
    ASSUME NEW S, NEW s \in Seq(S), NEW n \in Seq(S), NEW x, NEW e,
           \A i \in 1 .. Len(n) : n[i] = x
    PROVE  /\ e # x => Places(s \o n, e) = Places(s, e)
           /\ Places(s, e) = {} => Cardinality(Places(s \o n, e)) <= Len(n)
<1>1. /\ Len(s) \in Nat /\ Len(n) \in Nat /\ Len(s \o n) = Len(s) + Len(n)
      /\ \A i \in 1 .. Len(s \o n) :
            \/ i \in 1 .. Len(s) /\ (s \o n)[i] = s[i]
            \/ i > Len(s) /\ i - Len(s) \in 1 .. Len(n) /\ (s \o n)[i] = n[i - Len(s)]
  BY Joined
<1>2. ASSUME e # x
      PROVE  Places(s \o n, e) = Places(s, e)
  <2>1. \A i \in Places(s \o n, e) : i \in Places(s, e)
    BY <1>1, <1>2 DEF Places
  <2>2. \A i \in Places(s, e) : i \in Places(s \o n, e)
    BY <1>1 DEF Places
  <2> QED
    BY <2>1, <2>2
<1>3. ASSUME Places(s, e) = {}
      PROVE  Cardinality(Places(s \o n, e)) <= Len(n)
  <2>1. \A i \in Places(s \o n, e) : i \in (Len(s) + 1) .. (Len(s) + Len(n))
    BY <1>1, <1>3 DEF Places
  <2>2. Places(s \o n, e) \in SUBSET ((Len(s) + 1) .. (Len(s) + Len(n)))
    BY <2>1
  <2>3. /\ IsFiniteSet((Len(s) + 1) .. (Len(s) + Len(n)))
        /\ Cardinality((Len(s) + 1) .. (Len(s) + Len(n))) = Len(n)
    <3>1. PICK a \in Int, b \in Int : a = Len(s) + 1 /\ b = Len(s) + Len(n)
      BY <1>1
    <3>2. IsFiniteSet(a .. b) /\ Cardinality(a .. b) = IF a > b THEN 0 ELSE b - a + 1
      BY FS_Interval
    <3>3. (IF a > b THEN 0 ELSE b - a + 1) = Len(n)
      BY <1>1, <3>1
    <3> QED
      BY <3>1, <3>2, <3>3
  <2> QED
    BY <2>2, <2>3, FS_Subset
<1> QED
  BY <1>2, <1>3

\* What is written of an event can be counted,
LEMMA WrittenTyped ==
    ASSUME Typed, NEW k, NEW e
    PROVE  /\ IsFiniteSet({i \in Through(k) : written[i].event = e})
           /\ WrittenOf(k, e) \in Nat
<1>1. Len(written) \in Nat /\ IsFiniteSet(1 .. Len(written))
  BY FS_Interval DEF Typed
<1>2. {i \in Through(k) : written[i].event = e} \in SUBSET (1 .. Len(written))
  BY DEF Through
<1> QED
  BY <1>1, <1>2, FS_Subset, FS_CardinalityType DEF WrittenOf

\* and writing an event adds one to it.
LEMMA WriteCounts ==
    ASSUME Typed, Carried, Write, NEW k, NEW e
    PROVE  /\ WrittenOf(k, e)' <= WrittenOf(k, e) + One(Writes(k) /\ handler.item.event = e)
           /\ WrittenOf(k, e)' \in Nat
<1> DEFINE W == {i \in Through(k) : written[i].event = e}
           n == Len(written) + 1
<1>1. IsFiniteSet(W) /\ Cardinality(W) \in Nat /\ WrittenOf(k, e) = Cardinality(W)
  BY WrittenTyped DEF WrittenOf
<1>2. One(Writes(k) /\ handler.item.event = e) \in {0, 1}
  BY DEF One
<1>3. CASE UNCHANGED written
  <2>1. WrittenOf(k, e)' = WrittenOf(k, e)
    BY <1>3 DEF WrittenOf, Through
  <2> QED
    BY <1>1, <1>2, <2>1
<1>4. CASE /\ Len(written') = Len(written) + 1
           /\ \A i \in 1 .. Len(written) : written'[i] = written[i]
           /\ written'[Len(written) + 1] = handler.item
  <2>1. Len(written) \in Nat /\ handler.pc = "write"
    BY EventsTyped, WriteFields
  <2>2. n \notin W
    BY <2>1 DEF Through
  <2>3. ASSUME Writes(k) /\ handler.item.event = e
        PROVE  W' = W \cup {n}
    BY <1>4, <2>1, <2>3 DEF Through, Writes
  <2>4. ASSUME ~(Writes(k) /\ handler.item.event = e)
        PROVE  W' = W
    BY <1>4, <2>1, <2>4 DEF Through, Writes
  <2>5. WrittenOf(k, e)' = Cardinality(W')
    BY DEF WrittenOf
  <2> HIDE DEF W
  <2>6. Cardinality(W \cup {n}) = Cardinality(W) + 1
    BY <1>1, <2>2, FS_AddElement
  <2>7. CASE Writes(k) /\ handler.item.event = e
    <3>1. WrittenOf(k, e)' = Cardinality(W) + 1
      BY <2>3, <2>5, <2>6, <2>7
    <3> QED
      BY <1>1, <2>7, <3>1 DEF One
  <2>8. CASE ~(Writes(k) /\ handler.item.event = e)
    <3>1. WrittenOf(k, e)' = Cardinality(W)
      BY <2>4, <2>5, <2>8
    <3> QED
      BY <1>1, <1>2, <3>1
  <2> QED
    BY <2>7, <2>8
<1> QED
  BY <1>3, <1>4, WriteFields

\* The copies that a subscription holds, by where they are.
HandlerHas(k, e) == Writes(k) /\ handler.item.event = e
LoopHas(k, e)    == Passes(k) /\ loop.item.event = e
OfferHas(k, e)   == Offers(k) /\ subs[k].item.event = e
InboxOf(k, e)    == Cardinality(Places(subs[k].inbox, e))

\* All of them can be counted.
LEMMA BroughtTyped ==
    ASSUME Typed, Carried, NEW k \in 1 .. Len(subs), NEW e
    PROVE  /\ WrittenOf(k, e) \in Nat /\ InboxOf(k, e) \in Nat
           /\ \A b \in BOOLEAN : One(b) \in {0, 1}
           /\ Brought(k, e) = WrittenOf(k, e) + One(HandlerHas(k, e)) + One(LoopHas(k, e))
                                + One(OfferHas(k, e)) + InboxOf(k, e)
           /\ Brought(k, e) \in Nat
<1>1. WrittenOf(k, e) \in Nat
  BY WrittenTyped
<1>2. InboxOf(k, e) \in Nat
  BY EventsTyped, PlacesTyped DEF InboxOf
<1>3. Brought(k, e) = WrittenOf(k, e) + One(HandlerHas(k, e)) + One(LoopHas(k, e))
                         + One(OfferHas(k, e)) + InboxOf(k, e)
  BY DEF Brought, HandlerHas, LoopHas, OfferHas, InboxOf
<1>4. \A b : One(b) \in {0, 1}
  BY DEF One
<1> QED
  BY <1>1, <1>2, <1>3, <1>4

\* In particular, before and after a step.
BroughtCounts == \A k \in 1 .. Len(subs) : \A e : Brought(k, e) \in Nat

\* The counts are numbers.
LEMMA BroughtNat == Typed /\ Carried => BroughtCounts
  BY BroughtTyped DEF BroughtCounts

\* Where nothing moves, none are brought.
LEMMA UnmovedBrought ==
    ASSUME Typed, Carried, NEW k \in 1 .. Len(subs), NEW e, Unmoved(k)
    PROVE  Brought(k, e)' <= Brought(k, e)
<1>1. /\ WrittenOf(k, e)' = WrittenOf(k, e)
      /\ HandlerHas(k, e)' <=> HandlerHas(k, e)
      /\ LoopHas(k, e)' <=> LoopHas(k, e)
      /\ OfferHas(k, e)' <=> OfferHas(k, e)
  BY DEF Unmoved, WrittenOf, Through, HandlerHas, LoopHas, OfferHas
<1>2. InboxOf(k, e)' \in {InboxOf(k, e), 0}
  <2>1. Places(<<>>, e) = {} /\ Cardinality({}) = 0
    BY FS_EmptySet DEF Places
  <2> QED
    BY <2>1 DEF Unmoved, InboxOf
<1>3. Brought(k, e)' = WrittenOf(k, e)' + One(HandlerHas(k, e))' + One(LoopHas(k, e))'
                           + One(OfferHas(k, e))' + InboxOf(k, e)'
  BY DEF Brought, HandlerHas, LoopHas, OfferHas, InboxOf
<1>4. One(HandlerHas(k, e)) \in Nat /\ One(LoopHas(k, e)) \in Nat /\ One(OfferHas(k, e)) \in Nat
  BY DEF One
<1>5. /\ One(HandlerHas(k, e))' = One(HandlerHas(k, e))
      /\ One(LoopHas(k, e))' = One(LoopHas(k, e))
      /\ One(OfferHas(k, e))' = One(OfferHas(k, e))
  BY <1>1 DEF One
<1> QED
  BY <1>1, <1>2, <1>3, <1>4, <1>5, BroughtTyped

\* A copy goes from the channel of a subscription to the subscription,
LEMMA ReceiveBrought ==
    ASSUME Typed, Carried, NEW k \in 1 .. Len(subs), NEW e, Receive(k)
    PROVE  Brought(k, e)' <= Brought(k, e)
<1>1. /\ subs[k].inbox # <<>> /\ ~Offers(k) /\ Offers(k)'
      /\ subs'[k].item = [event |-> Head(subs[k].inbox), via |-> k]
      /\ subs'[k].inbox = Tail(subs[k].inbox)
      /\ UNCHANGED <<published, handler, loop, written>>
  BY Moves
<1>2. /\ WrittenOf(k, e)' = WrittenOf(k, e)
      /\ HandlerHas(k, e)' <=> HandlerHas(k, e)
      /\ LoopHas(k, e)' <=> LoopHas(k, e)
      /\ ~OfferHas(k, e)
      /\ OfferHas(k, e)' <=> Head(subs[k].inbox) = e
  BY <1>1 DEF WrittenOf, Through, HandlerHas, LoopHas, OfferHas, Writes, Passes
<1>3. InboxOf(k, e) = InboxOf(k, e)' + One(Head(subs[k].inbox) = e) /\ InboxOf(k, e)' \in Nat
  <2>1. subs[k].inbox \in Seq(Event) /\ Tail(subs[k].inbox) \in Seq(Event)
    BY <1>1, EventsTyped, HeadTailProperties
  <2>2. /\ Cardinality(Places(subs[k].inbox, e))
              = Cardinality(Places(Tail(subs[k].inbox), e)) + One(Head(subs[k].inbox) = e)
        /\ Cardinality(Places(Tail(subs[k].inbox), e)) \in Nat
    BY <1>1, <2>1, TailPlaces, PlacesTyped
  <2>3. InboxOf(k, e)' = Cardinality(Places(Tail(subs[k].inbox), e))
    BY <1>1 DEF InboxOf
  <2> QED
    BY <2>2, <2>3 DEF InboxOf
<1>4. Brought(k, e)' = WrittenOf(k, e)' + One(HandlerHas(k, e))' + One(LoopHas(k, e))'
                           + One(OfferHas(k, e))' + InboxOf(k, e)'
  BY DEF Brought, HandlerHas, LoopHas, OfferHas, InboxOf
<1>5. /\ One(HandlerHas(k, e)) \in Nat /\ One(LoopHas(k, e)) \in Nat
      /\ One(HandlerHas(k, e))' = One(HandlerHas(k, e))
      /\ One(LoopHas(k, e))' = One(LoopHas(k, e))
      /\ One(OfferHas(k, e)) = 0
      /\ One(OfferHas(k, e))' = One(Head(subs[k].inbox) = e)
      /\ One(Head(subs[k].inbox) = e) \in Nat
  BY <1>2 DEF One
<1> QED
  BY <1>2, <1>3, <1>4, <1>5, BroughtTyped

\* from there to the loop,
LEMMA TakeBrought ==
    ASSUME Typed, Carried, NEW k \in 1 .. Len(subs), NEW e, TakeEvent(k)
    PROVE  Brought(k, e)' <= Brought(k, e)
<1>1. /\ Offers(k) /\ ~Offers(k)' /\ loop.pc = "select" /\ subs[k].item.via = k
      /\ loop' = [pc |-> "respond", item |-> subs[k].item]
      /\ subs'[k].inbox = subs[k].inbox
      /\ UNCHANGED <<published, handler, written>>
  BY Moves DEF Carried
<1>2. /\ WrittenOf(k, e)' = WrittenOf(k, e)
      /\ HandlerHas(k, e)' <=> HandlerHas(k, e)
      /\ ~LoopHas(k, e) /\ ~OfferHas(k, e)'
      /\ LoopHas(k, e)' <=> OfferHas(k, e)
      /\ InboxOf(k, e)' = InboxOf(k, e)
  BY <1>1 DEF WrittenOf, Through, HandlerHas, LoopHas, OfferHas, Writes, Passes, InboxOf
<1>3. Brought(k, e)' = WrittenOf(k, e)' + One(HandlerHas(k, e))' + One(LoopHas(k, e))'
                           + One(OfferHas(k, e))' + InboxOf(k, e)'
  BY DEF Brought, HandlerHas, LoopHas, OfferHas, InboxOf
<1>4. /\ One(HandlerHas(k, e)) \in Nat /\ One(OfferHas(k, e)) \in Nat
      /\ One(HandlerHas(k, e))' = One(HandlerHas(k, e))
      /\ One(LoopHas(k, e)) = 0 /\ One(OfferHas(k, e))' = 0
      /\ One(LoopHas(k, e))' = One(OfferHas(k, e))
  BY <1>2 DEF One
<1> QED
  BY <1>2, <1>3, <1>4, BroughtTyped

\* to the handler
LEMMA RespondBrought ==
    ASSUME Typed, Carried, NEW k \in 1 .. Len(subs), NEW e, Respond
    PROVE  Brought(k, e)' <= Brought(k, e)
<1>1. /\ handler' = [pc |-> "write", item |-> loop.item] /\ loop'.pc # "respond"
      /\ handler.pc = "select" /\ loop.pc = "respond" /\ UNCHANGED <<published, subs, written>>
  BY DEF Respond, Waiting
<1>2. /\ WrittenOf(k, e)' = WrittenOf(k, e)
      /\ ~HandlerHas(k, e) /\ ~LoopHas(k, e)'
      /\ HandlerHas(k, e)' <=> LoopHas(k, e)
      /\ OfferHas(k, e)' <=> OfferHas(k, e)
      /\ InboxOf(k, e)' = InboxOf(k, e)
  BY <1>1 DEF WrittenOf, Through, HandlerHas, LoopHas, OfferHas, Writes, Passes, Offers, InboxOf
<1>3. Brought(k, e)' = WrittenOf(k, e)' + One(HandlerHas(k, e))' + One(LoopHas(k, e))'
                           + One(OfferHas(k, e))' + InboxOf(k, e)'
  BY DEF Brought, HandlerHas, LoopHas, OfferHas, InboxOf
<1>4. /\ One(LoopHas(k, e)) \in Nat /\ One(OfferHas(k, e)) \in Nat
      /\ One(OfferHas(k, e))' = One(OfferHas(k, e))
      /\ One(HandlerHas(k, e)) = 0 /\ One(LoopHas(k, e))' = 0
      /\ One(HandlerHas(k, e))' = One(LoopHas(k, e))
  BY <1>2 DEF One
<1> QED
  BY <1>2, <1>3, <1>4, BroughtTyped

\* and to the client.
LEMMA WriteBrought ==
    ASSUME Typed, Carried, NEW k \in 1 .. Len(subs), NEW e, Write
    PROVE  Brought(k, e)' <= Brought(k, e)
<1>1. handler.pc = "write" /\ handler'.pc # "write" /\ UNCHANGED <<published, loop, subs>>
  BY WriteFields
<1>2. /\ ~HandlerHas(k, e)'
      /\ LoopHas(k, e)' <=> LoopHas(k, e)
      /\ OfferHas(k, e)' <=> OfferHas(k, e)
      /\ InboxOf(k, e)' = InboxOf(k, e)
  BY <1>1 DEF HandlerHas, LoopHas, OfferHas, Writes, Passes, Offers, InboxOf
<1>3. WrittenOf(k, e)' <= WrittenOf(k, e) + One(HandlerHas(k, e)) /\ WrittenOf(k, e)' \in Nat
  BY WriteCounts DEF HandlerHas
<1>4. Brought(k, e)' = WrittenOf(k, e)' + One(HandlerHas(k, e))' + One(LoopHas(k, e))'
                           + One(OfferHas(k, e))' + InboxOf(k, e)'
  BY DEF Brought, HandlerHas, LoopHas, OfferHas, InboxOf
<1>5. /\ One(LoopHas(k, e)) \in Nat /\ One(OfferHas(k, e)) \in Nat
      /\ One(HandlerHas(k, e)) \in Nat
      /\ One(OfferHas(k, e))' = One(OfferHas(k, e))
      /\ One(LoopHas(k, e))' = One(LoopHas(k, e))
      /\ One(HandlerHas(k, e))' = 0
  BY <1>2 DEF One
<1> QED
  BY <1>2, <1>3, <1>4, <1>5, BroughtTyped

\* Publishing brings at most the copies Redis delivers of that one event.
LEMMA PublishBrought ==
    ASSUME Typed, Carried, NEW k \in 1 .. Len(subs), NEW x \in Event, Publish(x),
           NEW e \in Event, Brought(k, e) <= Delivered(k, e)
    PROVE  Brought(k, e)' <= Delivered(k, e)'
<1> DEFINE s == subs[k].inbox
           n == Copies(x, subs[k].prefixes)
<1>1. /\ x = published + 1 /\ published' = x /\ UNCHANGED <<handler, loop, written>>
      /\ Offers(k)' <=> Offers(k)
      /\ subs'[k].item = subs[k].item /\ subs'[k].prefixes = subs[k].prefixes
      /\ subs'[k].inbox = s \/ subs'[k].inbox = s \o n
  BY PublishFields
<1>2. /\ WrittenOf(k, e)' = WrittenOf(k, e)
      /\ HandlerHas(k, e)' <=> HandlerHas(k, e)
      /\ LoopHas(k, e)' <=> LoopHas(k, e)
      /\ OfferHas(k, e)' <=> OfferHas(k, e)
  BY <1>1 DEF WrittenOf, Through, HandlerHas, LoopHas, OfferHas, Writes, Passes
<1>3. Brought(k, e)' = WrittenOf(k, e)' + One(HandlerHas(k, e))' + One(LoopHas(k, e))'
                           + One(OfferHas(k, e))' + InboxOf(k, e)'
  BY DEF Brought, HandlerHas, LoopHas, OfferHas, InboxOf
<1>4. /\ One(HandlerHas(k, e))' = One(HandlerHas(k, e))
      /\ One(LoopHas(k, e))' = One(LoopHas(k, e))
      /\ One(OfferHas(k, e))' = One(OfferHas(k, e))
      /\ One(HandlerHas(k, e)) \in Nat /\ One(LoopHas(k, e)) \in Nat
      /\ One(OfferHas(k, e)) \in Nat
  BY <1>2 DEF One
<1>5. /\ s \in Seq(Event) /\ Event \subseteq Nat /\ published \in Nat
      /\ IsFiniteSet(Places(s, e)) /\ Cardinality(Places(s, e)) = InboxOf(k, e)
  BY EventsTyped, PlacesTyped DEF InboxOf
<1>6. /\ n \in Seq(Event) /\ Len(n) \in Nat /\ \A i \in 1 .. Len(n) : n[i] = x
      /\ Len(Copies(e, subs[k].prefixes)) \in Nat
  <2>1. subs[k].prefixes \in SUBSET Prefix /\ IsFiniteSet(subs[k].prefixes)
    BY SubTyped DEF SubState, Typed
  <2> QED
    BY <2>1, CopiesTyped
<1>7. /\ e # x => Places(s \o n, e) = Places(s, e)
      /\ Places(s, e) = {} => Cardinality(Places(s \o n, e)) <= Len(n)
  <2>1. PICK a \in Seq(Event), b \in Seq(Event) : a = s /\ b = n
    BY <1>5, <1>6
  <2>2. \A i \in 1 .. Len(b) : b[i] = x
    BY <1>6, <2>1
  <2>3. /\ e # x => Places(a \o b, e) = Places(a, e)
        /\ Places(a, e) = {} => Cardinality(Places(a \o b, e)) <= Len(b)
    BY <2>2, AddedPlaces
  <2> QED
    BY <2>1, <2>3
<1>8. CASE e # x
  <2>1. InboxOf(k, e)' = InboxOf(k, e)
    <3>1. Places(s \o n, e) = Places(s, e)
      BY <1>8, <1>7
    <3>2. InboxOf(k, e)' = Cardinality(Places(subs'[k].inbox, e))
      BY DEF InboxOf
    <3> QED
      BY <1>1, <1>5, <3>1, <3>2
  <2>2. Delivered(k, e)' = Delivered(k, e)
    BY <1>1, <1>5, <1>8 DEF Delivered
  <2> QED
    BY <1>2, <1>3, <1>4, <2>1, <2>2, BroughtTyped
<1>9. CASE e = x
  <2>1. Delivered(k, e) = 0 /\ Delivered(k, e)' = Len(n)
    BY <1>1, <1>5, <1>9 DEF Delivered
  <2>2. /\ WrittenOf(k, e) = 0 /\ InboxOf(k, e) = 0 /\ One(HandlerHas(k, e)) = 0
        /\ One(LoopHas(k, e)) = 0 /\ One(OfferHas(k, e)) = 0
    BY <1>4, <2>1, BroughtTyped
  <2>3. Places(s, e) = {}
    BY <1>5, <2>2, FS_EmptySet
  <2>4. Cardinality(Places(s, e)) = 0 /\ Cardinality(Places(s \o n, e)) <= Len(n)
    BY <1>5, <1>7, <2>2, <2>3
  <2>5. Cardinality(Places(s \o n, e)) \in Nat
    <3>1. s \o n \in Seq(Event)
      BY <1>5, <1>6
    <3> QED
      BY <3>1, PlacesTyped
  <2>6. InboxOf(k, e)' \in Nat /\ InboxOf(k, e)' <= Len(n)
    <3>1. InboxOf(k, e)' = Cardinality(Places(subs'[k].inbox, e))
      BY DEF InboxOf
    <3> QED
      <4>1. CASE subs'[k].inbox = s
        BY <1>6, <2>4, <3>1, <4>1
      <4>2. CASE subs'[k].inbox = s \o n
        BY <2>4, <2>5, <3>1, <4>2
      <4> QED
        BY <1>1, <4>1, <4>2
  <2> QED
    BY <1>2, <1>3, <1>4, <1>6, <2>1, <2>2, <2>6
<1> QED
  BY <1>8, <1>9

-----------------------------------------------------------------------------
(***************************************************************************)
(* OnTheWay is inductive.                                                  *)
(***************************************************************************)

\* The subscriptions there were stay in order and bring no copies too many,
LEMMA OldStep ==
    ASSUME OnTheWay, [Next]_vars, NEW k \in 1 .. Len(subs)
    PROVE  Ordered(k)' /\ \A e \in Event : Brought(k, e)' <= Delivered(k, e)'
<1>1. /\ Typed /\ Carried /\ Ordered(k)
      /\ \A e \in Event : Brought(k, e) <= Delivered(k, e)
  BY DEF OnTheWay
<1>2. ASSUME NEW x \in Event, Publish(x)
      PROVE  Ordered(k)' /\ \A e \in Event : Brought(k, e)' <= Delivered(k, e)'
  BY <1>1, <1>2, PublishOrdered, PublishBrought
<1>3. ASSUME Ordered(k)', \A e \in Event : Brought(k, e)' <= Brought(k, e),
             subs'[k].prefixes = subs[k].prefixes, published' = published
      PROVE  Ordered(k)' /\ \A e \in Event : Brought(k, e)' <= Delivered(k, e)'
  <2>1. SUFFICES ASSUME NEW e \in Event
                 PROVE  Brought(k, e)' <= Delivered(k, e)'
    BY <1>3
  <2>2. Delivered(k, e)' = Delivered(k, e)
    BY <1>3 DEF Delivered
  <2>3. Delivered(k, e) \in Nat
    <3>1. subs[k].prefixes \in SUBSET Prefix /\ IsFiniteSet(subs[k].prefixes)
      BY <1>1, SubTyped DEF SubState, Typed
    <3> QED
      BY <3>1, CopiesTyped DEF Delivered
  <2>4. /\ Brought(k, e) \in Nat /\ Brought(k, e)' <= Brought(k, e)
        /\ Brought(k, e) <= Delivered(k, e)
    BY <1>1, <1>3, BroughtTyped
  <2>5. Brought(k, e)' \in Int
    <3>1. Typed' /\ Carried'
      BY <1>1, TypedStep, CarriedStep
    <3>2. k \in 1 .. Len(subs')
      BY <1>1, SubTyped, SubsTypedStep
    <3>3. BroughtCounts'
      BY <3>1, BroughtNat, PTL
    <3> QED
      BY <3>2, <3>3 DEF BroughtCounts
  <2> QED
    BY <2>2, <2>3, <2>4, <2>5
<1>4. CASE Unmoved(k)
  BY <1>1, <1>3, <1>4, UnmovedOrdered, UnmovedBrought DEF Unmoved
<1>5. CASE Receive(k)
  BY <1>1, <1>3, <1>5, ReceiveOrdered, ReceiveBrought, Moves
<1>6. CASE TakeEvent(k)
  BY <1>1, <1>3, <1>6, TakeOrdered, TakeBrought, Moves
<1>7. CASE Respond /\ Passes(k)
  BY <1>1, <1>3, <1>7, RespondOrdered, RespondBrought DEF Respond
<1>8. CASE Write
  BY <1>1, <1>3, <1>8, WriteOrdered, WriteBrought DEF Write
<1> QED
  BY <1>1, <1>2, <1>4, <1>5, <1>6, <1>7, <1>8, StepKinds, Bystanders

\* and a new one has brought none.
LEMMA NewStep ==
    ASSUME OnTheWay, [Next]_vars, NEW k \in 1 .. Len(subs'), k \notin 1 .. Len(subs)
    PROVE  Ordered(k)' /\ \A e \in Event : Brought(k, e)' <= Delivered(k, e)'
<1>1. Typed /\ Carried /\ Len(subs) \in Nat /\ Typed'
  BY SubTyped, TypedStep DEF OnTheWay, Typed
<1>2. Len(subs') # Len(subs) /\ Listen
  BY <1>1, SubsTypedStep
<1>3. subs'[k] = Subscription(reader.prefixes) /\ k = Len(subs) + 1
  BY <1>1, <1>2, ListenTyped
<1>4. ~Offers(k)' /\ subs'[k].inbox = <<>> /\ UNCHANGED <<handler, loop, written, published>>
  BY <1>2, <1>3 DEF Offers, Subscription, Listen
<1>5. Through(k)' = {} /\ ~Writes(k)' /\ ~Passes(k)'
  <2>1. \A item \in Passed : item.via <= Len(subs) => item.via # k
    BY <1>1, <1>3, ViaTyped
  <2>2. \A i \in 1 .. Len(written) : written[i].via # k
    BY <1>1, <2>1, EventsTyped DEF Carried
  <2>3. /\ handler.pc = "write" => handler.item.via # k
        /\ loop.pc = "respond" => loop.item.via # k
    BY <1>1, <2>1 DEF Carried
  <2> QED
    BY <1>4, <2>2, <2>3 DEF Through, Writes, Passes
<1>6. 1 .. Len(subs'[k].inbox) = {}
  BY <1>4
<1>7. Ordered(k)'
  BY <1>4, <1>5, <1>6 DEF Ordered, OfferUpTo, LoopUpTo, HandlerUpTo, WrittenUpTo
<1>8. ASSUME NEW e \in Event
      PROVE  Brought(k, e)' <= Delivered(k, e)'
  <2>1. WrittenOf(k, e)' = 0 /\ Cardinality(Places(subs'[k].inbox, e)) = 0
    BY <1>5, <1>6, FS_EmptySet DEF WrittenOf, Places
  <2>2. Brought(k, e)' = 0
    BY <1>4, <1>5, <2>1 DEF Brought, One
  <2>3. Delivered(k, e)' \in Nat
    <3>1. reader.prefixes \in SUBSET Prefix /\ IsFiniteSet(reader.prefixes)
      BY <1>1 DEF Typed, ReaderState
    <3>2. subs'[k].prefixes = reader.prefixes
      BY <1>3 DEF Subscription
    <3> QED
      BY <3>1, <3>2, CopiesTyped DEF Delivered
  <2> QED
    BY <2>2, <2>3
<1> QED
  BY <1>7, <1>8

\* It holds at first
LEMMA InitOnTheWay == Init => OnTheWay
<1> SUFFICES ASSUME Init PROVE OnTheWay
  OBVIOUS
<1>1. /\ published = 0 /\ subs = <<>> /\ written = <<>> /\ handler.pc = "select"
      /\ loop.pc = "select" /\ reader.pc = "read" /\ panicked = FALSE
  BY DEF Init, Waiting
<1>2. Len(subs) = 0 /\ Len(written) = 0 /\ subs \in Seq(SubState) /\ written \in Seq(Passed)
  BY <1>1
<1>3. Typed
  <2>1. 0 \in 0 .. Events /\ 0 <= MaxListens
    BY RealtimeAssumption
  <2>2. IsFiniteSet({})
    BY FS_EmptySet
  <2>3. /\ reader \in ReaderState /\ IsFiniteSet(reader.prefixes) /\ handler \in HandlerState
        /\ loop \in LoopState
    <3>1. reader = [pc |-> "read", prefixes |-> {}] /\ handler = Waiting /\ loop = Waiting
      BY DEF Init
    <3>2. reader.prefixes = {}
      BY <3>1
    <3> QED
      BY <2>2, <3>1, <3>2 DEF Waiting, ReaderState, HandlerState, LoopState
  <2> QED
    <3>1. published \in 0 .. Events /\ Len(subs) <= MaxListens /\ 1 .. Len(subs) = {}
      BY <1>1, <1>2, <2>1
    <3>2. /\ socket \in Sockets /\ ctxDone \in BOOLEAN /\ panicked \in BOOLEAN
          /\ reader.pc # "listen"
      BY <1>1 DEF Init, Sockets
    <3> QED
      BY <1>2, <2>3, <3>1, <3>2 DEF Typed
<1> QED
  BY <1>1, <1>2, <1>3 DEF OnTheWay, Carried, ClosedByEvent, PanicNeedsEvent

\* and after every step.
LEMMA NextOnTheWay == OnTheWay /\ [Next]_vars => OnTheWay'
<1> SUFFICES ASSUME OnTheWay, [Next]_vars PROVE OnTheWay'
  OBVIOUS
<1>1. Typed /\ Carried /\ ClosedByEvent /\ \A k \in 1 .. Len(subs) : Ordered(k)
  BY DEF OnTheWay
<1>2. Typed' /\ Carried'
  BY <1>1, TypedStep, CarriedStep
<1>3. \A k \in 1 .. Len(subs)' :
        Ordered(k)' /\ \A e \in Event : Brought(k, e)' <= Delivered(k, e)'
  BY OldStep, NewStep
<1>4. ClosedByEvent'
  BY <1>1, ClosedStep
<1> QED
  BY <1>2, <1>3, <1>4 DEF OnTheWay

\* The way of the events is as described in every state of a connection.
THEOREM OnTheWayAlways == Spec => []OnTheWay
  BY InitOnTheWay, NextOnTheWay, PTL DEF Spec

\* Types of the goroutines' states and of what passes between them.
THEOREM TypeCorrect == Spec => []TypeOK
<1>1. OnTheWay => TypeOK
  <2> SUFFICES ASSUME OnTheWay PROVE TypeOK
    OBVIOUS
  <2>1. Typed
    BY DEF OnTheWay
  <2>2. \A k \in 1 .. Len(subs) : subs[k] \in SubState
    BY <2>1, SubTyped
  <2> QED
    BY <2>1, <2>2 DEF Typed, TypeOK, Sockets, SubState, ReaderState, HandlerState, LoopState
<1> QED
  BY <1>1, OnTheWayAlways, PTL

\* The client gets of each listen only what matches, in order and none too often, for
\* any number of events, listens and prefixes.
THEOREM WrittenFaithfullyAlways == Spec => []WrittenFaithfully
<1>1. OnTheWay => WrittenFaithfully
  <2> SUFFICES ASSUME OnTheWay, NEW k \in 1 .. Len(subs)
               PROVE  /\ \A i, j \in Through(k) : i < j => written[i].event <= written[j].event
                      /\ \A e \in Event :
                            Cardinality({i \in Through(k) : written[i].event = e})
                                <= Len(Copies(e, subs[k].prefixes))
    BY DEF WrittenFaithfully
  <2>1. Typed /\ Carried /\ Ordered(k)
    BY DEF OnTheWay
  <2>2. ASSUME NEW e \in Event
        PROVE  WrittenOf(k, e) <= Len(Copies(e, subs[k].prefixes))
    <3>1. Brought(k, e) <= Delivered(k, e)
      BY DEF OnTheWay
    <3>2. subs[k].prefixes \in SUBSET Prefix /\ IsFiniteSet(subs[k].prefixes)
      BY <2>1, SubTyped DEF SubState, Typed
    <3>3. Len(Copies(e, subs[k].prefixes)) \in Nat
      BY <3>2, CopiesTyped
    <3>4. Delivered(k, e) \in Nat /\ Delivered(k, e) <= Len(Copies(e, subs[k].prefixes))
      BY <3>3 DEF Delivered
    <3>5. /\ WrittenOf(k, e) \in Nat /\ InboxOf(k, e) \in Nat /\ Brought(k, e) \in Nat
          /\ Brought(k, e) = WrittenOf(k, e) + One(HandlerHas(k, e)) + One(LoopHas(k, e))
                                + One(OfferHas(k, e)) + InboxOf(k, e)
      BY <2>1, BroughtTyped
    <3>6. /\ One(HandlerHas(k, e)) \in Nat /\ One(LoopHas(k, e)) \in Nat
          /\ One(OfferHas(k, e)) \in Nat
      BY DEF One
    <3> QED
      BY <3>1, <3>3, <3>4, <3>5, <3>6
  <2> QED
    BY <2>1, <2>2 DEF Ordered, WrittenOf
<1> QED
  BY <1>1, OnTheWayAlways, PTL

\* A connection that is passed no event never stops the process, however many events are
\* published and however it is opened, used and closed.
THEOREM PanicNeedsEventAlways == Spec => []PanicNeedsEvent
<1>1. OnTheWay => PanicNeedsEvent
  BY DEF OnTheWay, ClosedByEvent
<1> QED
  BY <1>1, OnTheWayAlways, PTL
=============================================================================
