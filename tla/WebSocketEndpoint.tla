------------------------- MODULE WebSocketEndpoint -------------------------
(***************************************************************************)
(* One WebSocket endpoint (class WebSocket) and its clients (class         *)
(* WebSocketClient).  Every accepted client owns two threads: a receiving  *)
(* thread R, blocked in recv(), and a sending thread S, blocked on the     *)
(* condition variable of the client's sendingQueue.  A client is torn down *)
(* by whichever thread first calls closeWS (a thread of the application or *)
(* of the server, here a User), closeSend (S) or closeRecv (R).  The       *)
(* winner unlists the client, interrupts and joins the other threads, then *)
(* frees the socket data, the request and the client itself.               *)
(*                                                                         *)
(* A thread is a User, <<"recv", c>> or <<"send", c>>; pc[t] is where it   *)
(* stands between two steps that other threads can observe.                *)
(***************************************************************************)
EXTENDS Naturals, Sequences, FiniteSets

CONSTANTS
    Clients,      \* the connections that may ask for a WebSocket upgrade
    Users,        \* pool threads and application threads that use the endpoint
    Broadcasts,   \* the messages that may be broadcast, each at most once
    NoThread,     \* "no thread holds the mutex"
    NoClient,     \* "the user works on no client"
    Pong, Close,  \* the control frames R queues as an answer
    NoMsg,        \* "S holds no message", "the user broadcasts no message"
    RecvTimeout,  \* whether SO_RCVTIMEO is set on the sockets
    UseTLS,       \* whether the connections are TLS
    Events,       \* the outside events an instance allows: what the network,
                  \* the peer and the application may do
    QueueBound    \* R answers a ping only below this length of sendingQueue

AllEvents == {"refuse", "setupFail", "ping", "closeFrame", "badFrame", "fin",
              "reset", "sendFail", "remove", "destruct", "spurious"}

Messages == Broadcasts \cup {Pong, Close}
Recv(c) == <<"recv", c>>
Send(c) == <<"send", c>>
RecvThreads == {Recv(c) : c \in Clients}
SendThreads == {Send(c) : c \in Clients}
Threads == Users \cup RecvThreads \cup SendThreads

ASSUME EndpointAssumption ==
    /\ Users \cap (RecvThreads \cup SendThreads) = {}
    /\ NoThread \notin Threads
    /\ NoClient \notin Clients
    /\ NoMsg \notin Messages
    /\ Pong \notin Broadcasts
    /\ Close \notin Broadcasts \cup {Pong}
    /\ RecvTimeout \in BOOLEAN
    /\ UseTLS \in BOOLEAN
    /\ Events \subseteq AllEvents
    /\ QueueBound \in Nat

VARIABLES
    endpoint,              \* the WebSocket object: "up", in its destructor, "gone"
    webSocketClientList,   \* the clients in the endpoint's list
    listLock,              \* holder of webSocketClientList_mutex
    obj,                   \* the WebSocketClient object of a connection
    sock,                  \* its ClientSockData and TCP connection
    closing, closeStarted, \* fields of the client
    sendingQueue,          \* field of the client
    hand,                  \* the message S has popped and not yet sent
    wire,                  \* the broadcasts S handed to the socket
    started,               \* the broadcasts already begun
    pc,                    \* thread -> where it is
    cur,                   \* user -> the client it works on
    todo,                  \* user -> the clients its loop has still to visit
    msg                    \* user -> the message it broadcasts

clientVars == <<closing, closeStarted>>
queueVars == <<sendingQueue, hand, wire>>
userVars == <<started, cur, todo, msg>>
vars == <<endpoint, webSocketClientList, listLock, obj, sock, clientVars,
          queueVars, userVars, pc>>

\* A thread that won closeOnce(), from there to the end of `delete this'.
TeardownPCs == {"flag", "remove", "onClosing", "wake", "shutdown",
                "joinSend", "joinRecv", "freeSock", "delete"}
UserPCs == {"idle", "opening", "startSender", "pushBack", "enqueue", "signal",
            "closeNext", "once", "undefined"} \cup TeardownPCs
RecvPCs == {"unborn", "setup", "loop", "recv", "pong", "pongSignal", "reply",
            "replySignal", "once", "exited", "undefined"} \cup TeardownPCs
SendPCs == {"unborn", "lock", "check", "doze", "waiting", "woken", "send",
            "once", "exited", "undefined"} \cup TeardownPCs

DataOK ==
    /\ endpoint \in {"up", "destructing", "gone"}
    /\ webSocketClientList \subseteq Clients
    /\ listLock \in Users \cup {NoThread}
    /\ obj \in [Clients -> {"unborn", "refused", "alive", "freed"}]
    /\ sock \in [Clients -> {"open", "fin", "reset", "shut", "freed"}]
    /\ closing \in [Clients -> BOOLEAN]
    /\ closeStarted \in [Clients -> BOOLEAN]
    /\ sendingQueue \in [Clients -> Seq(Messages)]
    /\ hand \in [Clients -> Messages \cup {NoMsg}]
    /\ wire \in [Clients -> Seq(Broadcasts)]
    /\ started \subseteq Broadcasts
    /\ cur \in [Users -> Clients \cup {NoClient}]
    /\ todo \in [Users -> SUBSET Clients]
    /\ msg \in [Users -> Broadcasts \cup {NoMsg}]

PcOK ==
    /\ pc \in [Threads -> UserPCs \cup RecvPCs \cup SendPCs]
    /\ \A u \in Users : pc[u] \in UserPCs
    /\ \A c \in Clients : pc[Recv(c)] \in RecvPCs /\ pc[Send(c)] \in SendPCs

\* Every variable has its type, and every thread is at a point of its own code.
TypeOK == DataOK /\ PcOK

Init ==
    /\ endpoint = "up"
    /\ webSocketClientList = {}
    /\ listLock = NoThread
    /\ obj = [c \in Clients |-> "unborn"]
    /\ sock = [c \in Clients |-> "open"]
    /\ closing = [c \in Clients |-> FALSE]
    /\ closeStarted = [c \in Clients |-> FALSE]
    /\ sendingQueue = [c \in Clients |-> <<>>]
    /\ hand = [c \in Clients |-> NoMsg]
    /\ wire = [c \in Clients |-> <<>>]
    /\ started = {}
    /\ pc = [t \in Threads |-> IF t \in Users THEN "idle" ELSE "unborn"]
    /\ cur = [u \in Users |-> NoClient]
    /\ todo = [u \in Users |-> {}]
    /\ msg = [u \in Users |-> NoMsg]

At(t, label) == pc[t] = label
Goto(t, label) == pc' = [pc EXCEPT ![t] = label]

\* The client a thread works on: a worker thread has only one.
Target(t) == IF t \in Users THEN cur[t] ELSE t[2]

\* S holds sendingQueueMutex across these two points; every other thread
\* takes and releases it in one step.
QueueLocked(c) == pc[Send(c)] \in {"check", "doze"}

\* addSendingQueue() under the mutex: queue the message, or free it.
PushBug(c, m) ==  \* mutant: a stack instead of a queue
    sendingQueue' = [sendingQueue EXCEPT ![c] = IF closing[c] THEN @ ELSE <<m>> \o @]

Push(c, m) ==
    sendingQueue' = [sendingQueue EXCEPT ![c] = IF closing[c] THEN @ ELSE Append(@, m)]

\* pthread_cond_broadcast(&sendingNotification) by t, which goes on at label:
\* only a thread that is already waiting hears it.
Notify(t, label, c) ==
    pc' = [pc EXCEPT ![t] = label,
                     ![Send(c)] = IF @ = "waiting" THEN "woken"
                                  ELSE IF t = Send(c) THEN label ELSE @]

-----------------------------------------------------------------------------
(* WebSocket::newConnectionRequest(): the whole call holds the list mutex. *)

NewConnectionRequest(u, c) ==
    /\ At(u, "idle") /\ endpoint = "up"
    /\ listLock = NoThread
    /\ obj[c] = "unborn"
    /\ listLock' = u
    /\ cur' = [cur EXCEPT ![u] = c]
    /\ Goto(u, "opening")
    /\ UNCHANGED <<endpoint, webSocketClientList, obj, sock, clientVars,
                   queueVars, started, todo, msg>>

\* Mutant: the early return forgets to unlock.
RefuseBug(u) ==
    /\ At(u, "opening") /\ "refuse" \in Events
    /\ obj' = [obj EXCEPT ![cur[u]] = "refused"]
    /\ sock' = [sock EXCEPT ![cur[u]] = "freed"]
    /\ cur' = [cur EXCEPT ![u] = NoClient]
    /\ Goto(u, "idle")
    /\ UNCHANGED <<endpoint, webSocketClientList, listLock, clientVars,
                   queueVars, started, todo, msg>>

\* onOpening() returned false: freeClientSockData().
Refuse(u) ==
    /\ At(u, "opening") /\ "refuse" \in Events
    /\ obj' = [obj EXCEPT ![cur[u]] = "refused"]
    /\ sock' = [sock EXCEPT ![cur[u]] = "freed"]
    /\ listLock' = NoThread
    /\ cur' = [cur EXCEPT ![u] = NoClient]
    /\ Goto(u, "idle")
    /\ UNCHANGED <<endpoint, webSocketClientList, clientVars, queueVars,
                   started, todo, msg>>

\* The constructor: initialise the client and create R first, then S.
StartReceiver(u) ==
    /\ At(u, "opening")
    /\ obj' = [obj EXCEPT ![cur[u]] = "alive"]
    /\ pc' = [pc EXCEPT ![u] = "startSender", ![Recv(cur[u])] = "setup"]
    /\ UNCHANGED <<endpoint, webSocketClientList, listLock, sock, clientVars,
                   queueVars, userVars>>

StartSender(u) ==
    /\ At(u, "startSender")
    /\ pc' = [pc EXCEPT ![u] = "pushBack", ![Send(cur[u])] = "lock"]
    /\ UNCHANGED <<endpoint, webSocketClientList, listLock, obj, sock,
                   clientVars, queueVars, userVars>>

\* Mutant: the pointer is cleared before it is stored.
PushBackBug(u) ==
    /\ At(u, "pushBack")
    /\ cur' = [cur EXCEPT ![u] = NoClient]
    /\ webSocketClientList' = webSocketClientList \cup {cur'[u]}
    /\ listLock' = NoThread
    /\ Goto(u, "idle")
    /\ UNCHANGED <<endpoint, obj, sock, clientVars, queueVars, started, todo, msg>>

PushBack(u) ==
    /\ At(u, "pushBack")
    /\ webSocketClientList' = webSocketClientList \cup {cur[u]}
    /\ listLock' = NoThread
    /\ cur' = [cur EXCEPT ![u] = NoClient]
    /\ Goto(u, "idle")
    /\ UNCHANGED <<endpoint, obj, sock, clientVars, queueVars, started, todo, msg>>

-----------------------------------------------------------------------------
(* WebSocket::sendBroadcast*(): the list mutex is held over the loop.      *)

\* Mutant: the mutex protects the copy of the list only.
SendBroadcastBug(u, m) ==
    /\ At(u, "idle") /\ endpoint = "up"
    /\ m \notin started
    /\ listLock = NoThread
    /\ started' = started \cup {m}
    /\ msg' = [msg EXCEPT ![u] = m]
    /\ todo' = [todo EXCEPT ![u] = webSocketClientList]
    /\ Goto(u, "enqueue")
    /\ UNCHANGED <<endpoint, webSocketClientList, listLock, obj, sock,
                   clientVars, queueVars, cur>>

SendBroadcast(u, m) ==
    /\ At(u, "idle") /\ endpoint = "up"
    /\ m \notin started
    /\ listLock = NoThread
    /\ listLock' = u
    /\ started' = started \cup {m}
    /\ msg' = [msg EXCEPT ![u] = m]
    /\ todo' = [todo EXCEPT ![u] = webSocketClientList]
    /\ Goto(u, "enqueue")
    /\ UNCHANGED <<endpoint, webSocketClientList, obj, sock, clientVars,
                   queueVars, cur>>

BroadcastPush(u) ==
    /\ At(u, "enqueue")
    /\ \E c \in todo[u] :
         /\ ~QueueLocked(c)
         /\ Push(c, msg[u])
         /\ cur' = [cur EXCEPT ![u] = c]
         /\ todo' = [todo EXCEPT ![u] = @ \ {c}]
    /\ Goto(u, "signal")
    /\ UNCHANGED <<endpoint, webSocketClientList, listLock, obj, sock,
                   clientVars, hand, wire, started, msg>>

\* addSendingQueue() signals after it has released sendingQueueMutex.
BroadcastSignal(u) ==
    /\ At(u, "signal")
    /\ Notify(u, "enqueue", cur[u])
    /\ cur' = [cur EXCEPT ![u] = NoClient]
    /\ UNCHANGED <<endpoint, webSocketClientList, listLock, obj, sock,
                   clientVars, queueVars, started, todo, msg>>

BroadcastEnd(u) ==
    /\ At(u, "enqueue")
    /\ todo[u] = {}
    /\ listLock' = NoThread
    /\ msg' = [msg EXCEPT ![u] = NoMsg]
    /\ Goto(u, "idle")
    /\ UNCHANGED <<endpoint, webSocketClientList, obj, sock, clientVars,
                   queueVars, started, cur, todo>>

-----------------------------------------------------------------------------
(* WebSocket::removeAllClients(), removeClient(request), ~WebSocket():    *)
(* clients are detached under the mutex and closed after its release.      *)

RemoveAllClients(u) ==
    /\ At(u, "idle") /\ endpoint = "up" /\ "remove" \in Events
    /\ listLock = NoThread
    /\ todo' = [todo EXCEPT ![u] = webSocketClientList]
    /\ webSocketClientList' = {}
    /\ Goto(u, "closeNext")
    /\ UNCHANGED <<endpoint, listLock, obj, sock, clientVars, queueVars,
                   started, cur, msg>>

\* Mutant: the client is detached and never closed.
RemoveClientOfBug(u, c) ==
    /\ At(u, "idle") /\ endpoint = "up" /\ "remove" \in Events
    /\ listLock = NoThread
    /\ c \in webSocketClientList
    /\ webSocketClientList' = webSocketClientList \ {c}
    /\ UNCHANGED <<endpoint, listLock, obj, sock, clientVars, queueVars,
                   userVars, pc>>

RemoveClientOf(u, c) ==
    /\ At(u, "idle") /\ endpoint = "up" /\ "remove" \in Events
    /\ listLock = NoThread
    /\ c \in webSocketClientList
    /\ todo' = [todo EXCEPT ![u] = {c}]
    /\ webSocketClientList' = webSocketClientList \ {c}
    /\ Goto(u, "closeNext")
    /\ UNCHANGED <<endpoint, listLock, obj, sock, clientVars, queueVars,
                   started, cur, msg>>

\* The application deletes the endpoint while none of its threads uses it.
Destruct(u) ==
    /\ "destruct" \in Events
    /\ endpoint = "up" /\ \A v \in Users : At(v, "idle")
    /\ listLock = NoThread
    /\ endpoint' = "destructing"
    /\ todo' = [todo EXCEPT ![u] = webSocketClientList]
    /\ webSocketClientList' = {}
    /\ Goto(u, "closeNext")
    /\ UNCHANGED <<listLock, obj, sock, clientVars, queueVars, started, cur, msg>>

CloseNext(u) ==
    /\ At(u, "closeNext")
    /\ \E c \in todo[u] :
         /\ cur' = [cur EXCEPT ![u] = c]
         /\ todo' = [todo EXCEPT ![u] = @ \ {c}]
    /\ Goto(u, "once")
    /\ UNCHANGED <<endpoint, webSocketClientList, listLock, obj, sock,
                   clientVars, queueVars, started, msg>>

CloseDone(u) ==
    /\ At(u, "closeNext")
    /\ todo[u] = {}
    /\ endpoint' = IF endpoint = "destructing" THEN "gone" ELSE endpoint
    /\ Goto(u, "idle")
    /\ UNCHANGED <<webSocketClientList, listLock, obj, sock, clientVars,
                   queueVars, userVars>>

-----------------------------------------------------------------------------
(* WebSocketClient::closeWS(), closeSend(), closeRecv(), finalizeClose().  *)

\* Where a thread goes on when its closeXxx() call returns.
Return(t) == IF t \in Users THEN "closeNext" ELSE "exited"

\* Mutant: closeStarted is set but not tested.
CloseOnceBug(t) ==
    /\ At(t, "once")
    /\ closeStarted' = [closeStarted EXCEPT ![Target(t)] = TRUE]
    /\ Goto(t, IF obj[Target(t)] = "alive" THEN "flag" ELSE "undefined")
    /\ UNCHANGED <<endpoint, webSocketClientList, listLock, obj, sock, closing,
                   queueVars, userVars>>

\* closeOnce(): the test and set under closeOnce_mutex.  On a freed client it
\* locks a destroyed mutex in freed memory: nothing is known of t after that.
CloseOnce(t) ==
    /\ At(t, "once")
    /\ LET c == Target(t) IN
       /\ closeStarted' = [closeStarted EXCEPT ![c] = @ \/ obj[c] = "alive"]
       /\ Goto(t, IF obj[c] # "alive" THEN "undefined"
                  ELSE IF closeStarted[c] THEN Return(t) ELSE "flag")
    /\ UNCHANGED <<endpoint, webSocketClientList, listLock, obj, sock, closing,
                   queueVars, userVars>>

SetClosing(t) ==
    /\ At(t, "flag")
    /\ closing' = [closing EXCEPT ![Target(t)] = TRUE]
    /\ Goto(t, "remove")
    /\ UNCHANGED <<endpoint, webSocketClientList, listLock, obj, sock,
                   closeStarted, queueVars, userVars>>

\* WebSocket::removeClient(WebSocketClient*): lock, erase, unlock.
RemoveClient(t) ==
    /\ At(t, "remove") /\ endpoint # "gone"
    /\ listLock = NoThread
    /\ webSocketClientList' = webSocketClientList \ {Target(t)}
    /\ Goto(t, "onClosing")
    /\ UNCHANGED <<endpoint, listLock, obj, sock, clientVars, queueVars, userVars>>

\* The callback returns without using the endpoint again.
OnClosing(t) ==
    /\ At(t, "onClosing") /\ endpoint # "gone"
    /\ Goto(t, "wake")
    /\ UNCHANGED <<endpoint, webSocketClientList, listLock, obj, sock,
                   clientVars, queueVars, userVars>>

\* websocket->removeClient() or websocket->onClosing() on a deleted WebSocket.
UseGoneEndpoint(t) ==
    /\ pc[t] \in {"remove", "onClosing"} /\ endpoint = "gone"
    /\ Goto(t, "undefined")
    /\ UNCHANGED <<endpoint, webSocketClientList, listLock, obj, sock,
                   clientVars, queueVars, userVars>>

\* Mutant: S is not signalled.
WakeSenderBug(t) ==
    /\ At(t, "wake")
    /\ closing' = [closing EXCEPT ![Target(t)] = TRUE]
    /\ Goto(t, "shutdown")
    /\ UNCHANGED <<endpoint, webSocketClientList, listLock, obj, sock,
                   closeStarted, queueVars, userVars>>

\* closing = true; pthread_cond_broadcast() without sendingQueueMutex.
WakeSender(t) ==
    /\ At(t, "wake")
    /\ closing' = [closing EXCEPT ![Target(t)] = TRUE]
    /\ Notify(t, "shutdown", Target(t))
    /\ UNCHANGED <<endpoint, webSocketClientList, listLock, obj, sock,
                   closeStarted, queueVars, userVars>>

\* Mutant: the socket is freed before the workers are joined.
InterruptSocketBug(t) ==
    /\ At(t, "shutdown")
    /\ sock' = [sock EXCEPT ![Target(t)] = "freed"]
    /\ Goto(t, IF t \in SendThreads THEN "joinRecv" ELSE "joinSend")
    /\ UNCHANGED <<endpoint, webSocketClientList, listLock, obj, clientVars,
                   queueVars, userVars>>

\* The thread joins the workers other than itself: S first, then R.
InterruptSocket(t) ==
    /\ At(t, "shutdown")
    /\ sock' = [sock EXCEPT ![Target(t)] = "shut"]
    /\ Goto(t, IF t \in SendThreads THEN "joinRecv" ELSE "joinSend")
    /\ UNCHANGED <<endpoint, webSocketClientList, listLock, obj, clientVars,
                   queueVars, userVars>>

JoinSend(t) ==
    /\ At(t, "joinSend")
    /\ At(Send(Target(t)), "exited")
    /\ Goto(t, IF t \in RecvThreads THEN "freeSock" ELSE "joinRecv")
    /\ UNCHANGED <<endpoint, webSocketClientList, listLock, obj, sock,
                   clientVars, queueVars, userVars>>

JoinRecv(t) ==
    /\ At(t, "joinRecv")
    /\ At(Recv(Target(t)), "exited")
    /\ Goto(t, "freeSock")
    /\ UNCHANGED <<endpoint, webSocketClientList, listLock, obj, sock,
                   clientVars, queueVars, userVars>>

FreeClientSockData(t) ==
    /\ At(t, "freeSock")
    /\ sock' = [sock EXCEPT ![Target(t)] = "freed"]
    /\ Goto(t, "delete")
    /\ UNCHANGED <<endpoint, webSocketClientList, listLock, obj, clientVars,
                   queueVars, userVars>>

\* `delete this': the destructor frees what is left of the queue.
DeleteThis(t) ==
    /\ At(t, "delete")
    /\ ~QueueLocked(Target(t))
    /\ obj' = [obj EXCEPT ![Target(t)] = "freed"]
    /\ sendingQueue' = [sendingQueue EXCEPT ![Target(t)] = <<>>]
    /\ Goto(t, Return(t))
    /\ UNCHANGED <<endpoint, webSocketClientList, listLock, sock, clientVars,
                   hand, wire, userVars>>

-----------------------------------------------------------------------------
(* WebSocketClient::receivingThread().                                     *)

RecvOnly == <<endpoint, webSocketClientList, listLock, obj, sock, closeStarted,
              hand, wire, userVars>>

\* Socket options, then the loop; a failure to set one is a closeRecv().
RecvSetup(c) ==
    /\ At(Recv(c), "setup")
    /\ \/ Goto(Recv(c), "loop")
       \/ "setupFail" \in Events /\ Goto(Recv(c), "once")
    /\ UNCHANGED <<RecvOnly, closing, sendingQueue>>

RecvLoop(c) ==
    /\ At(Recv(c), "loop")
    /\ Goto(Recv(c), IF closing[c] THEN "exited" ELSE "recv")
    /\ UNCHANGED <<RecvOnly, closing, sendingQueue>>

\* A whole frame has been read and closing was still false: a data frame, a
\* pong or an unknown opcode (callback only, or ignored), a ping to answer, a
\* close frame to answer, or a frame that breaks the protocol.
RecvFrame(c) ==
    /\ At(Recv(c), "recv")
    /\ ~closing[c]
    /\ sock[c] = "open"
    /\ \/ Goto(Recv(c), "loop")
       \/ /\ "ping" \in Events /\ Len(sendingQueue[c]) < QueueBound
          /\ Goto(Recv(c), "pong")
       \/ "closeFrame" \in Events /\ Goto(Recv(c), "reply")
       \/ "badFrame" \in Events /\ Goto(Recv(c), "once")
    /\ UNCHANGED <<RecvOnly, closing, sendingQueue>>

\* recv() fails with ECONNRESET, ENOTCONN or EBADF, or the TLS peer said it
\* closes (SSL_ERROR_ZERO_RETURN): the loop is left through closing, without a
\* closeRecv().  Any other failure (the end of a plain stream, a reset under
\* TLS) is retried for ever: no step.
RecvError(c) ==
    /\ At(Recv(c), "recv")
    /\ sock[c] = IF UseTLS THEN "fin" ELSE "reset"
    /\ closing' = [closing EXCEPT ![c] = TRUE]
    /\ Goto(Recv(c), "loop")
    /\ UNCHANGED <<RecvOnly, sendingQueue>>

\* recv() returns (end of stream, error, timeout) and closing is set.
RecvInterrupted(c) ==
    /\ At(Recv(c), "recv")
    /\ closing[c]
    /\ RecvTimeout \/ sock[c] # "open"
    /\ Goto(Recv(c), "loop")
    /\ UNCHANGED <<RecvOnly, closing, sendingQueue>>

\* sendPongCtrlFrame() or sendCloseCtrlFrame(): addSendingQueue() by R.
RecvAnswer(c) ==
    /\ ~QueueLocked(c)
    /\ \/ At(Recv(c), "pong") /\ Push(c, Pong) /\ Goto(Recv(c), "pongSignal")
       \/ At(Recv(c), "reply") /\ Push(c, Close) /\ Goto(Recv(c), "replySignal")
    /\ UNCHANGED <<RecvOnly, closing>>

\* After a ping R reads on; after a close frame it calls closeRecv().
RecvSignal(c) ==
    /\ \/ At(Recv(c), "pongSignal") /\ Notify(Recv(c), "loop", c)
       \/ At(Recv(c), "replySignal") /\ Notify(Recv(c), "once", c)
    /\ UNCHANGED <<RecvOnly, closing, sendingQueue>>

-----------------------------------------------------------------------------
(* WebSocketClient::sendingThread().                                       *)

SendOnly == <<endpoint, webSocketClientList, listLock, obj, sock, clientVars,
              userVars>>

\* pthread_mutex_lock(), or the return of pthread_cond_wait().
SendLock(c) ==
    /\ pc[Send(c)] \in {"lock", "woken"}
    /\ Goto(Send(c), "check")
    /\ UNCHANGED <<SendOnly, queueVars>>

\* The loop test, under the mutex: leave, decide to wait, or pop a message.
SendCheck(c) ==
    /\ At(Send(c), "check")
    /\ \/ /\ closing[c]
          /\ sendingQueue' = [sendingQueue EXCEPT ![c] = <<>>]
          /\ Goto(Send(c), "exited")
          /\ UNCHANGED hand
       \/ /\ ~closing[c] /\ sendingQueue[c] = <<>>
          /\ Goto(Send(c), "doze")
          /\ UNCHANGED <<sendingQueue, hand>>
       \/ /\ ~closing[c] /\ sendingQueue[c] # <<>>
          /\ hand' = [hand EXCEPT ![c] = Head(sendingQueue[c])]
          /\ sendingQueue' = [sendingQueue EXCEPT ![c] = Tail(@)]
          /\ Goto(Send(c), "send")
    /\ UNCHANGED <<SendOnly, wire>>

\* pthread_cond_wait() releases the mutex and waits in one step.
SendWait(c) ==
    /\ At(Send(c), "doze")
    /\ Goto(Send(c), "waiting")
    /\ UNCHANGED <<SendOnly, queueVars>>

SpuriousWakeup(c) ==
    /\ At(Send(c), "waiting") /\ "spurious" \in Events
    /\ Goto(Send(c), "woken")
    /\ UNCHANGED <<SendOnly, queueVars>>

\* sendMessage() succeeds.
SendMessage(c) ==
    /\ At(Send(c), "send")
    /\ sock[c] \in {"open", "fin"}
    /\ wire' = [wire EXCEPT ![c] = IF hand[c] \in Broadcasts THEN Append(@, hand[c]) ELSE @]
    /\ hand' = [hand EXCEPT ![c] = NoMsg]
    /\ Goto(Send(c), "lock")
    /\ UNCHANGED <<SendOnly, sendingQueue>>

\* The message is older than snd_maxLatency, or sendMessage() fails.
SendFailed(c) ==
    /\ At(Send(c), "send")
    /\ "sendFail" \in Events \/ sock[c] \notin {"open", "fin"}
    /\ hand' = [hand EXCEPT ![c] = NoMsg]
    /\ Goto(Send(c), "once")
    /\ UNCHANGED <<SendOnly, sendingQueue, wire>>

-----------------------------------------------------------------------------
(* The peer ends its side of the connection, or resets it.                 *)

PeerShutdown(c) ==
    /\ "fin" \in Events /\ obj[c] = "alive" /\ sock[c] = "open"
    /\ sock' = [sock EXCEPT ![c] = "fin"]
    /\ UNCHANGED <<endpoint, webSocketClientList, listLock, obj, clientVars,
                   queueVars, userVars, pc>>

PeerReset(c) ==
    /\ "reset" \in Events /\ obj[c] = "alive" /\ sock[c] \in {"open", "fin"}
    /\ sock' = [sock EXCEPT ![c] = "reset"]
    /\ UNCHANGED <<endpoint, webSocketClientList, listLock, obj, clientVars,
                   queueVars, userVars, pc>>

-----------------------------------------------------------------------------

\* The calls the application and the server make.
UserCall(u) ==
    \/ \E c \in Clients : NewConnectionRequest(u, c) \/ RemoveClientOf(u, c)
    \/ \E m \in Broadcasts : SendBroadcast(u, m)
    \/ RemoveAllClients(u)
    \/ Destruct(u)

\* The steps of a call in progress.
UserStep(u) ==
    \/ Refuse(u) \/ StartReceiver(u) \/ StartSender(u) \/ PushBack(u)
    \/ BroadcastPush(u) \/ BroadcastSignal(u) \/ BroadcastEnd(u)
    \/ CloseNext(u) \/ CloseDone(u)

CloseStep(t) ==
    \/ CloseOnce(t) \/ SetClosing(t) \/ RemoveClient(t) \/ OnClosing(t)
    \/ UseGoneEndpoint(t) \/ WakeSender(t) \/ InterruptSocket(t)
    \/ JoinSend(t) \/ JoinRecv(t) \/ FreeClientSockData(t) \/ DeleteThis(t)

\* The steps R takes whether or not the peer sends anything.
RecvStep(c) ==
    \/ RecvSetup(c) \/ RecvLoop(c) \/ RecvError(c) \/ RecvInterrupted(c)
    \/ RecvAnswer(c) \/ RecvSignal(c)

SendStep(c) ==
    \/ SendLock(c) \/ SendCheck(c) \/ SendWait(c)
    \/ SendMessage(c) \/ SendFailed(c)

Peer(c) == PeerShutdown(c) \/ PeerReset(c) \/ RecvFrame(c)

Next ==
    \/ \E u \in Users : UserCall(u) \/ UserStep(u)
    \/ \E t \in Threads : CloseStep(t)
    \/ \E c \in Clients : RecvStep(c) \/ SendStep(c) \/ Peer(c) \/ SpuriousWakeup(c)

Spec == Init /\ [][Next]_vars

\* Every thread that can run goes on, and a mutex released again and again is
\* granted to each thread that wants it.  Calls, the peer, and spurious
\* wake-ups are never owed.
Fairness ==
    /\ \A u \in Users : WF_vars(UserStep(u)) /\ SF_vars(BroadcastPush(u))
    /\ \A t \in Threads : WF_vars(CloseStep(t)) /\ SF_vars(RemoveClient(t))
    /\ \A c \in Clients : /\ WF_vars(RecvStep(c)) /\ SF_vars(RecvAnswer(c))
                          /\ WF_vars(SendStep(c))

FairSpec == Spec /\ Fairness

-----------------------------------------------------------------------------
(* Properties                                                              *)

\* Worker threads still to run code of client c.
Running(t) == pc[t] \notin {"unborn", "exited"}
InTeardown(t, c) == pc[t] \in TeardownPCs /\ Target(t) = c
\* u has taken c out of the list and has not come back from its closeWS().
Detached(u, c) ==
    \/ pc[u] \in {"closeNext", "once"} \cup TeardownPCs /\ c \in todo[u]
    \/ pc[u] \in {"once"} \cup TeardownPCs /\ cur[u] = c
\* u holds the list mutex and works on c, or will.
Visiting(u, c) ==
    \/ pc[u] \in {"enqueue", "signal"} /\ c \in todo[u]
    \/ pc[u] \in {"signal", "startSender", "pushBack"} /\ cur[u] = c

\* Whatever closes a client while whatever else uses it, its worker threads,
\* a thread that broadcasts to it and the thread that constructs it never run
\* on a deleted WebSocketClient (finalizeClose joins the workers, removeClient
\* waits for the list mutex, before `delete this').
LiveWhileUsed ==
    \A c \in Clients :
        \/ Running(Recv(c)) \/ Running(Send(c))
        \/ c \in webSocketClientList
        \/ \E u \in Users : Visiting(u, c)
        => obj[c] = "alive"

\* "Never free ClientSockData while a peer worker can still be inside
\* BIO_read()/SSL_write()/send()/recv()": the socket of a client outlives the
\* last recv() of R and the last send() of S.
SockLiveDuringIO ==
    \A c \in Clients :
        pc[Recv(c)] \in {"setup", "recv"} \/ pc[Send(c)] = "send" => sock[c] # "freed"

\* closeWS(), closeSend() and closeRecv() racing each other: the teardown of a
\* client runs in one thread only, and not at all once the client is deleted.
TeardownOnce ==
    \A c \in Clients : \A t1, t2 \in Threads :
        InTeardown(t1, c) =>
            /\ obj[c] = "alive"
            /\ InTeardown(t2, c) => t1 = t2

\* A client that left the list, or never entered it, is not forgotten: some
\* thread is constructing it, is tearing it down, or has still to close it.
NoOrphan ==
    \A c \in Clients :
        obj[c] = "alive" /\ c \notin webSocketClientList =>
            \/ \E t \in Threads : InTeardown(t, c) \/ pc[t] = "undefined"
            \/ \E u \in Users : Detached(u, c) \/ Visiting(u, c)

\* The endpoint's list mutex is always given back, whatever the thread that
\* took it meets (the shutdown deadlock described above removeAllClients()).
ListLockReleased == \A u \in Users : listLock = u ~> listLock # u

\* A teardown by any other thread completes too, unless S is on its way into
\* pthread_cond_wait() when the teardown comes to signal it.
TeardownCompletes ==
    \A c \in Clients :
        /\ \E t \in Threads : At(t, "wake") /\ Target(t) = c
        /\ pc[Send(c)] # "doze"
        ~> obj[c] = "freed"

\* closeWS() is called on an existing client ("Ensure closeWS()/closeSend()/
\* closeRecv() run their teardown exactly once even if ... a send failure
\* racing an explicit close from the WebSocket owner", WebSocketClient.cc:371).
CloseOnExistingClient ==
    \A u \in Users : pc[u] = "once" => obj[cur[u]] = "alive"

\* "Wake TX and wait for it to leave httpSend()/SSL_write() before freeing
\* ClientSockData" (WebSocketClient.cc:462): a close by R frees the client.
RecvCloseCompletes ==
    \A c \in Clients : pc[Recv(c)] = "flag" ~> obj[c] = "freed"
=============================================================================
