------------------------- MODULE WebSocketBroadcast -------------------------
(***************************************************************************)
(* WebSocketEndpoint implements OrderedBroadcast.  sendBroadcast() takes   *)
(* effect when it takes the list mutex: from then on its message is        *)
(* pending for every client that its loop has still to visit.              *)
(***************************************************************************)
EXTENDS WebSocketEndpoint

\* newConnectionRequest() has made the client and not listed it yet.
Constructing(c) == \E u \in Users : pc[u] \in {"startSender", "pushBack"} /\ cur[u] = c

\* S sends nothing any more but what it is sending.
Ending(c) ==
    closing[c] \/ pc[Send(c)] \in {"once", "exited", "undefined"} \cup TeardownPCs

Phase(c) ==
    CASE obj[c] \in {"freed", "refused"} -> "gone"
      [] obj[c] = "unborn" -> "outside"
      [] obj[c] = "alive" ->
           IF Ending(c) THEN "closing"
           ELSE IF c \in webSocketClientList THEN "member"
           ELSE IF Constructing(c) THEN "outside" ELSE "leaving"

InHand(c) == IF hand[c] = NoMsg THEN <<>> ELSE <<hand[c]>>

\* The broadcast whose loop, under the list mutex, has still to visit c.
ToCome(c) ==
    IF listLock \in Users /\ pc[listLock] \in {"enqueue", "signal"} /\ c \in todo[listLock]
    THEN <<msg[listLock]>> ELSE <<>>

Pending(c) ==
    CASE Phase(c) = "gone" -> <<>>
      [] Phase(c) = "closing" -> InHand(c)
      [] OTHER -> InHand(c) \o sendingQueue[c] \o ToCome(c)

Promise == INSTANCE OrderedBroadcast WITH
    Answers <- {Pong, Close},
    phase <- [c \in Clients |-> Phase(c)],
    sent <- started,
    pending <- [c \in Clients |-> Pending(c)],
    received <- wire

\* Whatever else threads do with the list, the queues and the clients, the
\* clients of the endpoint receive its broadcasts in one order and without a
\* gap, from joining to the end of their connection (WebSocket::sendBroadcast*,
\* addSendingQueue(), sendingThread()).
BroadcastPromise == Promise!Spec
=============================================================================
