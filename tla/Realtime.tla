------------------------------ MODULE Realtime ------------------------------
(***************************************************************************)
(* One connection to /realtime: handleRealtime (internal/present/rest/     *)
(* handler.go) with the goroutine that reads its socket, the loop of       *)
(* SignalService.Realtime and the Subscribe goroutines it starts           *)
(* (internal/service/signal.go).                                           *)
(*                                                                         *)
(*     client -> reader --input--> loop --go--> subscriptions <- Redis     *)
(*     client <- handler <--output-- loop <--events-- subscriptions        *)
(*               handler <--quit-- reader                                  *)
(*                                                                         *)
(* The channels are unbuffered: sender and receiver step together.  A send *)
(* on a closed channel panics in a goroutine nobody recovers, which stops  *)
(* the process.                                                            *)
(***************************************************************************)
EXTENDS Naturals, Sequences, FiniteSets

CONSTANTS
    Events,      \* how many events are published; they are numbered in that order
    Prefix,      \* prefixes a client may listen to
    Match,       \* Match[x]: the events whose channel begins with x
    Asked,       \* the sets of prefixes a client may ask for in one request
    MaxListens   \* bound on the listen requests of the client

Event == 1 .. Events

ASSUME RealtimeAssumption ==
    /\ Events \in Nat
    /\ Match \in [Prefix -> SUBSET Event]
    /\ Asked \subseteq SUBSET Prefix
    /\ \A prefixes \in Asked : IsFiniteSet(prefixes)
    /\ MaxListens \in Nat

VARIABLES
    published,  \* how many events have been published
    socket,     \* "open", "stalled" (the client takes nothing in), "gone" (the client
                \* left), "closed"
    reader,     \* the reading goroutine and the prefixes it was sent
    handler,    \* handleRealtime and the event it is writing, or could not write
    loop,       \* SignalService.Realtime and the event it is passing on
    subs,       \* the Subscribe goroutines, in the order they were started
    ctxDone,    \* the request's context is cancelled
    panicked,   \* the process has stopped on a panic
    written     \* the events written to the socket, with the subscription each
                \* came through

vars == <<published, socket, reader, handler, loop, subs, ctxDone, panicked, written>>

Passed  == [event: Event, via: 1 .. MaxListens]
Nothing == <<>>
Waiting == [pc |-> "select", item |-> Nothing]
Ended   == [pc |-> "ended", item |-> Nothing]

Init ==
    /\ published = 0
    /\ socket = "open"
    /\ reader = [pc |-> "read", prefixes |-> {}]
    /\ handler = Waiting
    /\ loop = Waiting
    /\ subs = <<>>
    /\ ctxDone = FALSE
    /\ panicked = FALSE
    /\ written = <<>>

-----------------------------------------------------------------------------
(***************************************************************************)
(* Redis: a subscriber gets a message once for each of its patterns that   *)
(* matches the channel, or not at all when its connection is down.         *)
(***************************************************************************)

\* Mutant: the pattern that matches is delivered, not the message.
CopiesPattern(e, prefixes) ==
    [i \in 1 .. Cardinality({x \in prefixes : e \in Match[x]}) |-> 0]
Copies(e, prefixes) == [i \in 1 .. Cardinality({x \in prefixes : e \in Match[x]}) |-> e]

Subscribed(k) == subs[k].pc \in {"select", "send"}

Publish(e) ==
    /\ ~panicked
    /\ e = published + 1
    /\ published' = e
    /\ \E up \in SUBSET {k \in 1 .. Len(subs) : Subscribed(k)} :
        subs' = [k \in 1 .. Len(subs) |->
            IF k \in up THEN [subs[k] EXCEPT !.inbox = @ \o Copies(e, subs[k].prefixes)]
            ELSE subs[k]]
    /\ UNCHANGED <<socket, reader, handler, loop, ctxDone, panicked, written>>

Connected == socket \in {"open", "stalled"}

\* The client stops taking in what it is sent, so that the buffers of the connection
\* fill, or goes on with it; it closes the connection or is cut off.
ClientStalls  == socket = "open" /\ socket' = "stalled"
ClientGoesOn  == socket = "stalled" /\ socket' = "open"
ClientLeaves  == Connected /\ socket' = "gone"

Client ==
    /\ ~panicked
    /\ ClientStalls \/ ClientGoesOn \/ ClientLeaves
    /\ UNCHANGED <<published, reader, handler, loop, subs, ctxDone, panicked, written>>

-----------------------------------------------------------------------------
(* When handleRealtime returns it closes output, then input, then the       *)
(* socket; only then is the context of its request cancelled.               *)

\* Mutant: the channel is never closed.
StaysOpen == FALSE
OutputClosed == handler.pc \in {"close_input", "close_socket", "leave", "ended"}
InputClosed  == handler.pc \in {"close_socket", "leave", "ended"}

(***************************************************************************)
(* The reading goroutine.  Heartbeats and unknown requests change nothing. *)
(***************************************************************************)
ReadListen(prefixes) ==
    /\ ~panicked
    /\ reader.pc = "read"
    /\ Connected
    /\ Len(subs) < MaxListens
    /\ reader' = [pc |-> "listen", prefixes |-> prefixes]
    /\ UNCHANGED <<published, socket, handler, loop, subs, ctxDone, panicked, written>>

Quits ==
    /\ ~panicked
    /\ reader.pc = "read"
    /\ reader' = [pc |-> "quit", prefixes |-> {}]
    /\ UNCHANGED <<published, socket, handler, loop, subs, ctxDone, panicked, written>>

ReadFails == ~Connected /\ Quits
\* What the client sent is no request.
ReadNonsense == Connected /\ Quits

\* input <- req.Prefixes on the closed channel.
ReaderPanics ==
    /\ ~panicked
    /\ reader.pc = "listen"
    /\ InputClosed
    /\ panicked' = TRUE
    /\ UNCHANGED <<published, socket, reader, handler, loop, subs, ctxDone, written>>

-----------------------------------------------------------------------------
(* The loop of SignalService.Realtime.                                      *)

\* Mutant: the subscription before is left running.
NotCancelled == subs
\* cancel(), of the subscription that was started last.
LastCancelled ==
    [k \in 1 .. Len(subs) |-> [subs[k] EXCEPT !.cancelled = @ \/ k = Len(subs)]]

Subscription(prefixes) ==
    [pc |-> "subscribe", prefixes |-> prefixes, cancelled |-> FALSE,
     inbox |-> <<>>, item |-> Nothing]

\* case prefixes := <-request
Listen ==
    /\ ~panicked
    /\ reader.pc = "listen"
    /\ ~InputClosed
    /\ loop.pc = "select"
    /\ subs' = Append(LastCancelled, Subscription(reader.prefixes))
    /\ reader' = [pc |-> "read", prefixes |-> {}]
    /\ UNCHANGED <<published, socket, handler, loop, ctxDone, panicked, written>>

\* A closed request channel gives nil, again and again.  The first cancels the last
\* subscription and each starts one to nothing, which returns at once and is left out.
ListenClosed ==
    /\ ~panicked
    /\ InputClosed
    /\ loop.pc = "select"
    /\ subs' = LastCancelled
    /\ UNCHANGED <<published, socket, reader, handler, loop, ctxDone, panicked, written>>

\* case event := <-events
TakeEvent(k) ==
    /\ ~panicked
    /\ subs[k].pc = "send"
    /\ loop.pc = "select"
    /\ loop' = [pc |-> "respond", item |-> subs[k].item]
    /\ subs' = [subs EXCEPT ![k].pc = "select", ![k].item = Nothing]
    /\ UNCHANGED <<published, socket, reader, handler, ctxDone, panicked, written>>

\* response <- event, taken by the handler's select.
Respond ==
    /\ ~panicked
    /\ loop.pc = "respond"
    /\ handler.pc = "select"
    /\ handler' = [pc |-> "write", item |-> loop.item]
    /\ loop' = Waiting
    /\ UNCHANGED <<published, socket, reader, subs, ctxDone, panicked, written>>

\* response <- event on the closed channel.
LoopPanics ==
    /\ ~panicked
    /\ loop.pc = "respond"
    /\ OutputClosed
    /\ panicked' = TRUE
    /\ UNCHANGED <<published, socket, reader, handler, loop, subs, ctxDone, written>>

\* case <-ctx.Done()
LoopDone ==
    /\ ~panicked
    /\ loop.pc = "select"
    /\ ctxDone
    /\ loop' = Ended
    /\ subs' = LastCancelled
    /\ UNCHANGED <<published, socket, reader, handler, ctxDone, panicked, written>>

-----------------------------------------------------------------------------
(* A Subscribe goroutine.                                                   *)

Subscribe(k) ==
    /\ ~panicked
    /\ subs[k].pc = "subscribe"
    /\ subs' = [subs EXCEPT ![k].pc = IF subs[k].prefixes = {} THEN "ended" ELSE "select"]
    /\ UNCHANGED <<published, socket, reader, handler, loop, ctxDone, panicked, written>>

\* Mutant: each message is handed over by a goroutine of its own.
ReceiveAnyOf(k) ==
    /\ ~panicked
    /\ subs[k].pc = "select"
    /\ LET inbox == subs[k].inbox IN
        \E i \in 1 .. Len(inbox) :
            subs' = [subs EXCEPT
                ![k].pc = "send",
                ![k].item = [event |-> inbox[i], via |-> k],
                ![k].inbox = SubSeq(inbox, 1, i - 1) \o SubSeq(inbox, i + 1, Len(inbox))]
    /\ UNCHANGED <<published, socket, reader, handler, loop, ctxDone, panicked, written>>

\* case msg := <-psch
Receive(k) ==
    /\ ~panicked
    /\ subs[k].pc = "select"
    /\ subs[k].inbox # <<>>
    /\ subs' = [subs EXCEPT ![k].pc = "send",
                            ![k].item = [event |-> Head(subs[k].inbox), via |-> k],
                            ![k].inbox = Tail(@)]
    /\ UNCHANGED <<published, socket, reader, handler, loop, ctxDone, panicked, written>>

\* Mutant: the subscription is not bound to a context.
Unbound(k) == FALSE
\* The subscription's context is a child of the request's.
Cancelled(k) == subs[k].cancelled \/ ctxDone

\* case <-ctx.Done(): the subscription is closed.  Only a goroutine that waits in
\* its select gets here; one that holds an event for the loop does not.
Unsubscribe(k) ==
    /\ ~panicked
    /\ subs[k].pc = "select"
    /\ Cancelled(k)
    /\ subs' = [subs EXCEPT ![k].pc = "ended", ![k].inbox = <<>>]
    /\ UNCHANGED <<published, socket, reader, handler, loop, ctxDone, panicked, written>>

-----------------------------------------------------------------------------
(* handleRealtime.                                                          *)

\* ws.WriteJSON: no deadline is set, so that it waits while the client takes nothing in.
\* Once the client is gone it fails, if not at the first attempt.
Write ==
    /\ ~panicked
    /\ handler.pc = "write"
    /\ \/ /\ socket = "open"
          /\ written' = Append(written, handler.item)
          /\ handler' = Waiting
       \/ /\ socket = "gone"
          /\ handler' \in {Waiting, [handler EXCEPT !.pc = "close_output"]}
          /\ UNCHANGED written
    /\ UNCHANGED <<published, socket, reader, loop, subs, ctxDone, panicked>>

\* Mutant: the handler returns on its own when the client is gone, without waiting for
\* the reader.
QuitEarly ==
    /\ ~panicked
    /\ ~Connected
    /\ handler.pc = "select"
    /\ handler' = [pc |-> "close_output", item |-> Nothing]
    /\ UNCHANGED <<published, socket, reader, loop, subs, ctxDone, panicked, written>>

\* case <-quit
Quit ==
    /\ ~panicked
    /\ reader.pc = "quit"
    /\ handler.pc = "select"
    /\ reader' = [pc |-> "ended", prefixes |-> {}]
    /\ handler' = [pc |-> "close_output", item |-> Nothing]
    /\ UNCHANGED <<published, socket, loop, subs, ctxDone, panicked, written>>

Close(at, next) ==
    /\ ~panicked
    /\ handler.pc = at
    /\ handler' = [handler EXCEPT !.pc = next]
    /\ UNCHANGED <<published, reader, loop, subs, panicked, written>>

CloseChannels ==
    /\ Close("close_output", "close_input") \/ Close("close_input", "close_socket")
    /\ UNCHANGED <<socket, ctxDone>>
CloseSocket == Close("close_socket", "leave") /\ socket' = "closed" /\ UNCHANGED ctxDone
\* net/http cancels the context of a request whose handler has returned.
Leave == Close("leave", "ended") /\ ctxDone' = TRUE /\ UNCHANGED socket

-----------------------------------------------------------------------------
ReaderStep  == ReadFails \/ ReaderPanics
HandlerStep == Write \/ Quit \/ CloseChannels \/ CloseSocket \/ Leave
LoopStep ==
    \/ Listen \/ ListenClosed \/ Respond \/ LoopPanics \/ LoopDone
    \/ \E k \in 1 .. Len(subs) : TakeEvent(k)
SubscriptionStep == \E k \in 1 .. Len(subs) : Subscribe(k) \/ Receive(k) \/ Unsubscribe(k)

Outside ==
    \/ \E e \in Event : Publish(e)
    \/ Client
    \/ ReadNonsense
    \/ \E prefixes \in Asked : ReadListen(prefixes)

\* The connection is over, whoever may be left behind.
Quiet == (panicked \/ handler.pc = "ended") /\ UNCHANGED vars

Next ==
    \/ Outside \/ ReaderStep \/ HandlerStep \/ LoopStep \/ SubscriptionStep
    \/ Quiet

Spec == Init /\ [][Next]_vars

(***************************************************************************)
(* Each goroutine runs on.  A write comes to its end when the client takes *)
(* something in again and again; that it does is not assumed, nor that it  *)
(* sends anything or leaves.  No more is needed while the events and the   *)
(* listens are bounded; without bounds a case of a select that is ready    *)
(* again and again is taken because Go chooses uniformly among the ready   *)
(* ones.                                                                   *)
(***************************************************************************)
Fairness ==
    /\ WF_vars(ReaderStep)
    /\ WF_vars(HandlerStep) /\ SF_vars(Write)
    /\ WF_vars(LoopStep)
    /\ WF_vars(SubscriptionStep)

FairSpec == Spec /\ Fairness

-----------------------------------------------------------------------------
\* Types of the goroutines' states and of what passes between them.
TypeOK ==
    /\ published \in 0 .. Events
    /\ socket \in {"open", "stalled", "gone", "closed"}
    /\ reader \in [pc: {"read", "listen", "quit", "ended"}, prefixes: SUBSET Prefix]
    /\ handler \in [pc: {"select", "write", "close_output", "close_input", "close_socket",
                         "leave", "ended"}, item: Passed \cup {Nothing}]
    /\ loop \in [pc: {"select", "respond", "ended"}, item: Passed \cup {Nothing}]
    /\ Len(subs) <= MaxListens
    /\ \A k \in 1 .. Len(subs) :
        subs[k] \in [pc: {"subscribe", "select", "send", "ended"}, prefixes: SUBSET Prefix,
                     cancelled: BOOLEAN, inbox: Seq(Event), item: Passed \cup {Nothing}]
    /\ ctxDone \in BOOLEAN /\ panicked \in BOOLEAN
    /\ written \in Seq(Passed)

(***************************************************************************)
(* Through three goroutines the client gets, of each of its listens, only  *)
(* events that match a prefix of that listen, in the order they were       *)
(* published, and none more often than it has matching prefixes            *)
(* (signal.go:58-97, handler.go:499-513).                                  *)
(***************************************************************************)
Through(k) == {i \in 1 .. Len(written) : written[i].via = k}

WrittenFaithfully ==
    \A k \in 1 .. Len(subs) :
        /\ \A i, j \in Through(k) :
              i < j => written[i].event <= written[j].event
        /\ \A e \in Event :
              Cardinality({i \in Through(k) : written[i].event = e})
                  <= Len(Copies(e, subs[k].prefixes))

(***************************************************************************)
(* The process stops on a closed channel (handler.go:438-447) only over an *)
(* event of this connection: the loop has one to pass on to a handler that *)
(* has left, or the reader a listen for a handler that has left because it *)
(* could not write one.  However it is opened, used and closed, a          *)
(* connection that is passed no event never stops the process.             *)
(***************************************************************************)
PanicNeedsEvent ==
    panicked =>
        \/ loop.pc = "respond"
        \/ reader.pc = "listen" /\ handler.item # Nothing

(***************************************************************************)
(* A reader that was sent a listen request is not stuck with it: the loop  *)
(* takes it, however busy it is passing events on, or the connection is    *)
(* over; unless the handler writes to a client that takes nothing in any   *)
(* more, which keeps loop and reader waiting for ever (handler.go:482,     *)
(* 503, signal.go:46).                                                     *)
(***************************************************************************)
WriteWaits == handler.pc = "write" /\ socket = "stalled"

ListenTaken == (reader.pc = "listen") ~> (reader.pc # "listen" \/ panicked \/ []WriteWaits)

(***************************************************************************)
(* A listen replaces the one before it: the superseded subscription ends,  *)
(* so that nothing comes through it any more, though it may have delivered *)
(* side by side with the new one.  What may keep it for ever is an event   *)
(* it holds and nobody takes: the handler waits with a write, or the loop  *)
(* has ended (signal.go:47-58, 86-94).                                     *)
(***************************************************************************)
HasEnded(k) == subs[k].pc = "ended"
Holds(k) == subs[k].pc = "send" /\ (WriteWaits \/ loop.pc = "ended")

SupersededEnds ==
    \A k \in 1 .. MaxListens :
        (k < Len(subs)) ~>
            (panicked \/ (k < Len(subs) /\ HasEnded(k)) \/ [](k < Len(subs) /\ Holds(k)))

(***************************************************************************)
(* When the handler has returned, the loop ends too, though the closed     *)
(* request channel keeps it busy until the context is cancelled and an     *)
(* event may be on its way to nobody (signal.go:45-67).                    *)
(***************************************************************************)
LoopEnds == (handler.pc = "ended") ~> (loop.pc = "ended" \/ panicked)

(***************************************************************************)
(* What a connection leaves behind: after the loop every subscription ends *)
(* but those that hold an event for it (signal.go:94), and the reader ends *)
(* if its quit was what the handler left upon; if the handler left over an *)
(* event it could not write, the reader waits to say that it quits, for    *)
(* ever (handler.go:476).                                                  *)
(***************************************************************************)
ConnectionSettles ==
    (loop.pc = "ended") ~>
        \/ panicked
        \/ /\ \A k \in 1 .. Len(subs) : subs[k].pc \in {"ended", "send"}
           /\ reader.pc = IF handler.item = Nothing THEN "ended" ELSE "quit"
=============================================================================
