--------------------------- MODULE WebSocketChannel ---------------------------
(***************************************************************************)
(* The channel of internal/channel/websocket.go: one HTTP handler per      *)
(* client, a map from remote addresses to connections under a RWMutex, and *)
(* a consumer that broadcasts every reply to the connections of the map.   *)
(* The gateway does not start it yet (gateway.go:136); its consumer then   *)
(* shares the outbound channel with that of Feishu.                        *)
(*                                                                         *)
(* Clients and the network are the environment: a request comes, an        *)
(* upgrade fails, a connection breaks.  A write takes as long as the       *)
(* client lets it: there is no deadline.                                   *)
(***************************************************************************)
EXTENDS Naturals, Sequences

CONSTANTS
    WsClients,      \* connections that are made
    RemoteAddr,     \* [WsClients -> addresses]
    WsOutbox,       \* Seq(channel names): the messages of the outbound channel
    SharedOutbound  \* another channel is started and consumes the same outbound channel

NoConn == "none"
ASSUME WsAssumption == NoConn \notin WsClients

VARIABLES
    conns,     \* [addresses -> client, or NoConn]
    handler,   \* [WsClients -> where its handleWS is]
    broken,    \* clients whose connection is closed, by either side
    wsTaken,   \* messages taken from the outbound channel
    wsSend,    \* [phase, msg, todo]: the consumer; it holds the read lock while "writing"
    wsStop,    \* "no", "called", "locked" (Stop holds the lock), "returned"
    wsEnded,   \* the context of Start is done, or the outbound channel closed
    begun,     \* history: the messages whose broadcast has begun, in order
    joined,    \* history: [WsClients -> Len(begun) when it entered the map]
    got        \* [WsClients -> Seq(messages)]: what the client received

wsVars == <<conns, handler, broken, wsTaken, wsSend, wsStop, wsEnded, begun, joined, got>>

Addresses == {RemoteAddr[c] : c \in WsClients}
Registered == {conns[a] : a \in Addresses} \ {NoConn}

WsTypeOK ==
    /\ conns \in [Addresses -> WsClients \cup {NoConn}]
    /\ handler \in [WsClients -> {"away", "requested", "upgraded", "reading", "publishing",
                                  "leaving", "left"}]
    /\ broken \subseteq WsClients
    /\ wsTaken \in 0 .. Len(WsOutbox)
    /\ wsSend.phase \in {"idle", "waiting", "writing", "over"} /\ wsSend.todo \subseteq WsClients
    /\ wsSend.msg \in 0 .. Len(WsOutbox)
    /\ wsStop \in {"no", "called", "locked", "returned"} /\ wsEnded \in BOOLEAN
    /\ joined \in [WsClients -> 0 .. Len(WsOutbox)]

WsInit ==
    /\ conns = [a \in Addresses |-> NoConn] /\ handler = [c \in WsClients |-> "away"]
    /\ broken = {} /\ wsTaken = 0 /\ wsSend = [phase |-> "idle", msg |-> 0, todo |-> {}]
    /\ wsStop = "no" /\ wsEnded = FALSE
    /\ begun = <<>> /\ joined = [c \in WsClients |-> 0] /\ got = [c \in WsClients |-> <<>>]

\* The write lock can be had; the read lock is refused by Stop only.
Unlocked == wsSend.phase # "writing" /\ wsStop # "locked"

-----------------------------------------------------------------------------
(* handleWS                                                                 *)

HandlerGoes(c, phase) == handler' = [handler EXCEPT ![c] = phase]

\* The server accepts requests until Shutdown, which Stop calls with the lock.
WsRequest(c) ==
    /\ handler[c] = "away" /\ wsStop # "returned"
    /\ HandlerGoes(c, "requested")
    /\ UNCHANGED <<conns, broken, wsTaken, wsSend, wsStop, wsEnded, begun, joined, got>>

Upgrade(c) ==
    /\ handler[c] = "requested"
    /\ HandlerGoes(c, "upgraded") \/ HandlerGoes(c, "left")
    /\ UNCHANGED <<conns, broken, wsTaken, wsSend, wsStop, wsEnded, begun, joined, got>>

Register(c) ==
    /\ handler[c] = "upgraded" /\ Unlocked
    /\ conns' = [conns EXCEPT ![RemoteAddr[c]] = c]
    /\ joined' = [joined EXCEPT ![c] = Len(begun)]
    /\ HandlerGoes(c, "reading")
    /\ UNCHANGED <<broken, wsTaken, wsSend, wsStop, wsEnded, begun, got>>

\* A message of the client: what is not JSON is skipped, the rest goes to the bus.
ReadMessage(c) ==
    /\ handler[c] = "reading" /\ c \notin broken
    /\ HandlerGoes(c, "publishing")
    /\ UNCHANGED <<conns, broken, wsTaken, wsSend, wsStop, wsEnded, begun, joined, got>>

\* PublishInbound returns: accepted, or dropped on the closed channel.
WsPublished(c) ==
    /\ handler[c] = "publishing"
    /\ HandlerGoes(c, "reading")
    /\ UNCHANGED <<conns, broken, wsTaken, wsSend, wsStop, wsEnded, begun, joined, got>>

ReadFails(c) ==
    /\ handler[c] = "reading" /\ c \in broken
    /\ HandlerGoes(c, "leaving")
    /\ UNCHANGED <<conns, broken, wsTaken, wsSend, wsStop, wsEnded, begun, joined, got>>

\* The deferred function deletes the entry of the address, whoever is there.
Leave(c) ==
    /\ handler[c] = "leaving" /\ Unlocked
    /\ conns' = [conns EXCEPT ![RemoteAddr[c]] = NoConn]
    /\ HandlerGoes(c, "left")
    /\ UNCHANGED <<broken, wsTaken, wsSend, wsStop, wsEnded, begun, joined, got>>

\* The client goes, or the network fails.
Breaks(c) ==
    /\ handler[c] \in {"upgraded", "reading", "publishing"}
    /\ broken' = broken \cup {c}
    /\ UNCHANGED <<conns, handler, wsTaken, wsSend, wsStop, wsEnded, begun, joined, got>>

-----------------------------------------------------------------------------
(* consumeOutbound and Send                                                 *)

\* Messages of other channels are taken and skipped.
WsTake ==
    /\ wsSend.phase = "idle" /\ wsTaken < Len(WsOutbox)
    /\ wsTaken' = wsTaken + 1
    /\ wsSend' = IF WsOutbox[wsTaken + 1] = "websocket"
                 THEN [wsSend EXCEPT !.phase = "waiting", !.msg = wsTaken + 1] ELSE wsSend
    /\ UNCHANGED <<conns, handler, broken, wsStop, wsEnded, begun, joined, got>>

\* So does the consumer of the other channel.
OtherTakes ==
    /\ SharedOutbound /\ wsTaken < Len(WsOutbox)
    /\ wsTaken' = wsTaken + 1
    /\ UNCHANGED <<conns, handler, broken, wsSend, wsStop, wsEnded, begun, joined, got>>

SendLocks ==
    /\ wsSend.phase = "waiting" /\ wsStop # "locked"
    /\ wsSend' = [wsSend EXCEPT !.phase = "writing", !.todo = Registered]
    /\ begun' = Append(begun, wsSend.msg)
    /\ UNCHANGED <<conns, handler, broken, wsTaken, wsStop, wsEnded, joined, got>>

WriteOne_Returns(c) ==
    /\ wsSend.phase = "writing" /\ c \in wsSend.todo
    /\ \/ /\ c \notin broken
          /\ got' = [got EXCEPT ![c] = Append(@, wsSend.msg)]
          /\ wsSend' = [wsSend EXCEPT !.todo = @ \ {c}]
          /\ UNCHANGED broken
       \/ /\ broken' = broken \cup {c} /\ UNCHANGED got
          /\ wsSend' = [wsSend EXCEPT !.todo = {}]
    /\ UNCHANGED <<conns, handler, wsTaken, wsStop, wsEnded, begun, joined>>

\* One connection of the range, in any order.  An error is logged; the connection is broken.
WriteOne(c) ==
    /\ wsSend.phase = "writing" /\ c \in wsSend.todo
    /\ wsSend' = [wsSend EXCEPT !.todo = @ \ {c}]
    /\ \/ /\ c \notin broken
          /\ got' = [got EXCEPT ![c] = Append(@, wsSend.msg)] /\ UNCHANGED broken
       \/ broken' = broken \cup {c} /\ UNCHANGED got
    /\ UNCHANGED <<conns, handler, wsTaken, wsStop, wsEnded, begun, joined>>

SendUnlocks ==
    /\ wsSend.phase = "writing" /\ wsSend.todo = {}
    /\ wsSend' = [phase |-> "idle", msg |-> 0, todo |-> {}]
    /\ UNCHANGED <<conns, handler, broken, wsTaken, wsStop, wsEnded, begun, joined, got>>

\* The select of the consumer; with a message waiting it may take that first.
WsConsumerReturns ==
    /\ wsSend.phase = "idle" /\ wsEnded
    /\ wsSend' = [wsSend EXCEPT !.phase = "over"]
    /\ UNCHANGED <<conns, handler, broken, wsTaken, wsStop, wsEnded, begun, joined, got>>

-----------------------------------------------------------------------------
(* Stop                                                                     *)

WsStopCalled ==
    /\ wsStop = "no" /\ wsStop' = "called"
    /\ UNCHANGED <<conns, handler, broken, wsTaken, wsSend, wsEnded, begun, joined, got>>

\* Under the lock all connections of the map are closed and deleted ...
WsStopLocks ==
    /\ wsStop = "called" /\ Unlocked
    /\ wsStop' = "locked"
    /\ broken' = broken \cup Registered
    /\ conns' = [a \in Addresses |-> NoConn]
    /\ UNCHANGED <<handler, wsTaken, wsSend, wsEnded, begun, joined, got>>

\* ... and Shutdown waits, with the lock, for requests that are not upgraded yet, not for
\* those that are; or the context of Stop ends.
WsStopReturns ==
    /\ wsStop = "locked"
    /\ wsStop' = "returned"
    /\ UNCHANGED <<conns, handler, broken, wsTaken, wsSend, wsEnded, begun, joined, got>>

WsRootEnds ==
    /\ ~wsEnded /\ wsEnded' = TRUE
    /\ UNCHANGED <<conns, handler, broken, wsTaken, wsSend, wsStop, begun, joined, got>>

WsNext ==
    \/ \E c \in WsClients :
          \/ WsRequest(c) \/ Upgrade(c) \/ Register(c) \/ ReadMessage(c) \/ WsPublished(c)
          \/ ReadFails(c) \/ Leave(c) \/ Breaks(c) \/ WriteOne(c)
    \/ WsTake \/ OtherTakes \/ SendLocks \/ SendUnlocks \/ WsConsumerReturns
    \/ WsStopCalled \/ WsStopLocks \/ WsStopReturns \/ WsRootEnds

WsSpec == WsInit /\ [][WsNext]_wsVars

\* The consumer and Stop run when they can; a waiting writer of a RWMutex gets it in the end.
\* Nothing makes a client read what is written to it.
WsFairness == /\ WF_wsVars(SendLocks) /\ WF_wsVars(SendUnlocks)
              /\ SF_wsVars(WsStopLocks) /\ WF_wsVars(WsStopReturns)

-----------------------------------------------------------------------------
(* Properties                                                               *)

\* An open connection has received, in order, every reply whose broadcast began since it
\* entered the map, whatever other clients do: come, go, break in the middle of a broadcast
\* (websocket.go:75-91, 105-109).  It needs an address of its own: the deferred delete looks
\* at nothing else.
ClientsMissNothing ==
    \A c \in WsClients : handler[c] \in {"reading", "publishing"} /\ c \notin broken =>
        SubSeq(begun, joined[c] + 1, Len(begun)) =
            IF c \in wsSend.todo THEN Append(got[c], wsSend.msg) ELSE got[c]

\* Every reply of this channel that is taken from the outbound channel is broadcast
\* (websocket.go:127-139): so it is with an outbound channel of its own.
RepliesAreBroadcast ==
    wsSend.phase # "waiting" =>
        begun = SelectSeq([m \in 1 .. wsTaken |-> m], LAMBDA m : WsOutbox[m] = "websocket")

\* Stop closes every connection (websocket.go:62-68).
StoppedHasNone ==
    wsStop = "returned" => \A c \in WsClients : handler[c] = "reading" => c \in broken

\* Stop returns.
StopIsServed == wsStop = "called" ~> wsStop = "returned"
=============================================================================
