---------------------------- MODULE RequestLoop ----------------------------
(***************************************************************************)
(* accept_request(): a worker reads the requests of a connection one after *)
(* the other and answers each.  recvLine() and recvBytes() share a buffer  *)
(* of bytes read ahead, which belongs to a worker and a descriptor, and    *)
(* descriptors are used again.  (Without TLS: there, OpenSSL buffers.)     *)
(*                                                                         *)
(* A byte stands for a piece of the stream: <<c, r, "request">> is the     *)
(* text of the request line, "header" of another line, "eol" the end of a  *)
(* line, "body" a piece of the body, of request r of connection c.         *)
(***************************************************************************)
EXTENDS Naturals, Sequences, FiniteSets

CONSTANTS
    Workers, Conns,
    Fds,           \* the descriptors of connections
    NoConn, NoFd,
    Script,        \* connection -> the requests its client sends
    ChunkMax,      \* HTTP_RECV_BUFFER_SIZE, what recv() returns at most
    LineMax,       \* what recvLine() returns at most
    PartMax,       \* BUFSIZE, what recvBytes() is asked for at most
    KeepAliveMax   \* KEEPALIVE_MAX_NB_QUERY

\* A request: what it asks for, the pieces of text of its header line, those of
\* its body, and whether it asks to keep the connection.
Kinds == {"page", "plaintext", "upgrade"}
Requests == [kind : Kinds, header : Nat, body : Nat, keepAlive : BOOLEAN]
NoRequest == [kind |-> "none", header |-> 0, body |-> 0, keepAlive |-> FALSE]

ASSUME RequestAssumption ==
    /\ NoConn \notin Conns /\ NoFd \notin Fds
    /\ ChunkMax \in Nat \ {0} /\ LineMax \in Nat \ {0, 1} /\ KeepAliveMax \in Nat \ {0}
    /\ PartMax \in Nat \ {0}
    /\ Script \in [Conns -> Seq(Requests)]
    \* A client waits for the answer before it uses the WebSocket.
    /\ \A c \in Conns : \A r \in 1..Len(Script[c]) :
         Script[c][r].kind = "upgrade" => r = Len(Script[c])

Piece(c, r, kind, n) == [i \in 1..n |-> <<c, r, kind>>]
HeadBytes(c, r) ==
    Piece(c, r, "request", 1) \o Piece(c, r, "eol", 1) \o
    (IF Script[c][r].header = 0 THEN <<>>
     ELSE Piece(c, r, "header", Script[c][r].header) \o Piece(c, r, "eol", 1)) \o
    Piece(c, r, "eol", 1)
RequestBytes(c, r) == HeadBytes(c, r) \o Piece(c, r, "body", Script[c][r].body)
\* The bytes from those of a request on.
StreamFrom(c) ==
    LET from[r \in 1..(Len(Script[c]) + 1)] ==
          IF r > Len(Script[c]) THEN <<>> ELSE RequestBytes(c, r) \o from[r + 1]
    IN  from
StreamBytes(c) == StreamFrom(c)[1]

VARIABLES
    conn,              \* where a connection is
    fd,                \* its descriptor
    net,               \* the bytes of its client that no recv() has returned
    httpRecvBuffers,   \* worker -> descriptor -> bytes read ahead
    client,            \* worker -> the connection it serves
    pc,                \* worker -> where it is
    read,              \* worker -> the bytes of the request it works on
    request,           \* worker -> what its request line and headers said
    left,              \* worker -> requestContentLength - datalen
    copied,            \* worker -> what this recvBytes() has copied
    nbFileKeepAlive,   \* worker -> the local variable
    exiting,           \* field of WebServer
    answered,          \* history: connection -> what was read for each answer
    broken             \* history: connections that lost their framing

connVars == <<conn, fd>>
ioVars == <<net, httpRecvBuffers>>
bodyVars == <<left, copied>>
localVars == <<client, read, request, bodyVars, nbFileKeepAlive>>
historyVars == <<answered, broken>>
vars == <<connVars, ioVars, localVars, pc, exiting, historyVars>>

PCs == {"idle", "line", "request", "body", "page", "free"}
Bytes == {b \in Conns \X Nat \X {"request", "header", "eol", "body"} : b[2] \in 1..Len(Script[b[1]])}

TypeOK ==
    /\ conn \in [Conns -> {"away", "served", "websocket", "closed"}]
    /\ fd \in [Conns -> Fds \cup {NoFd}]
    /\ net \in [Conns -> Seq(Bytes)]
    /\ httpRecvBuffers \in [Workers -> [Fds -> Seq(Bytes)]]
    /\ client \in [Workers -> Conns \cup {NoConn}]
    /\ pc \in [Workers -> PCs]
    /\ read \in [Workers -> Seq(Bytes)]
    /\ request \in [Workers -> Requests \cup {NoRequest}]
    /\ left \in [Workers -> Nat] /\ copied \in [Workers -> 0..PartMax]
    /\ nbFileKeepAlive \in [Workers -> 0..KeepAliveMax]
    /\ exiting \in BOOLEAN
    /\ answered \in [Conns -> Seq(Seq(Bytes))]
    /\ broken \subseteq Conns

Init ==
    /\ conn = [c \in Conns |-> "away"]
    /\ fd = [c \in Conns |-> NoFd]
    /\ net = [c \in Conns |-> StreamBytes(c)]
    /\ httpRecvBuffers = [w \in Workers |-> [f \in Fds |-> <<>>]]
    /\ client = [w \in Workers |-> NoConn]
    /\ pc = [w \in Workers |-> "idle"]
    /\ read = [w \in Workers |-> <<>>]
    /\ request = [w \in Workers |-> NoRequest]
    /\ left = [w \in Workers |-> 0]
    /\ copied = [w \in Workers |-> 0]
    /\ nbFileKeepAlive = [w \in Workers |-> KeepAliveMax]
    /\ exiting = FALSE
    /\ answered = [c \in Conns |-> <<>>]
    /\ broken = {}

At(w, label) == pc[w] = label
Goto(w, label) == pc' = [pc EXCEPT ![w] = label]
\* The buffer of the connection a worker serves.
Ahead(w) == httpRecvBuffers[w][fd[client[w]]]
SetAhead(w, s) == httpRecvBuffers' = [httpRecvBuffers EXCEPT ![w][fd[client[w]]] = s]

IsEol(b) == b[3] = "eol"
EolIn(s) == {i \in 1..Len(s) : IsEol(s[i])}
Lesser(m, n) == IF m <= n THEN m ELSE n

\* What the worker made of a head: when lines of it were cut, its headers may
\* not have been recognised.
Misread(req, kind, body, keepAlive) ==
    [req EXCEPT !.kind = kind, !.body = body, !.keepAlive = keepAlive]
Whole(head) == \E c \in Conns : \E r \in 1..Len(Script[c]) : head = HeadBytes(c, r)
Understood(w) ==
    IF Whole(read[w]) THEN {request[w]}
    ELSE {Misread(request[w], k, b, a) :
              k \in {request[w].kind} \cup (IF request[w].kind = "upgrade" THEN {"page"} ELSE {}),
              b \in {0, request[w].body}, a \in BOOLEAN}

-----------------------------------------------------------------------------

\* The loop starts on a request.
Await(w) ==
    /\ Goto(w, "line")
    /\ read' = [read EXCEPT ![w] = <<>>]
    /\ request' = [request EXCEPT ![w] = NoRequest]

\* poolThreadProcessing() hands a connection to accept_request(); accept()
\* has given it a descriptor that is free.  What the worker still holds for
\* that descriptor would be taken for the first bytes of the connection.
Take(w, c) ==
    /\ At(w, "idle") /\ conn[c] = "away" /\ ~exiting
    /\ \E f \in Fds : /\ \A d \in Conns : fd[d] # f
                      /\ fd' = [fd EXCEPT ![c] = f]
                      /\ broken' = IF httpRecvBuffers[w][f] = <<>> THEN broken
                                   ELSE broken \cup {c}
    /\ conn' = [conn EXCEPT ![c] = "served"]
    /\ client' = [client EXCEPT ![w] = c]
    /\ nbFileKeepAlive' = [nbFileKeepAlive EXCEPT ![w] = KeepAliveMax]
    /\ Await(w)
    /\ UNCHANGED <<ioVars, bodyVars, exiting, answered>>

\* What recvLine() returned is one more line of the head.  A line of nothing
\* but its end closes the head.
GotLine(w, line) ==
    /\ read' = [read EXCEPT ![w] = @ \o line]
    /\ request' = IF line # <<>> /\ line[1][3] = "request"
                  THEN [request EXCEPT ![w] = Script[line[1][1]][line[1][2]]]
                  ELSE request
    /\ Goto(w, IF line = <<>> \/ exiting THEN "free"
               ELSE IF Len(line) = 1 /\ IsEol(line[1]) THEN "request" ELSE "line")

\* recvLine() has no whole line: recv().
Receive(w) ==
    /\ At(w, "line")
    /\ EolIn(Ahead(w)) = {} /\ Len(Ahead(w)) < LineMax
    /\ \E n \in 1..Lesser(ChunkMax, Len(net[client[w]])) :
         /\ SetAhead(w, Ahead(w) \o SubSeq(net[client[w]], 1, n))
         /\ net' = [net EXCEPT ![client[w]] = SubSeq(@, n + 1, Len(@))]
    /\ UNCHANGED <<connVars, localVars, pc, exiting, historyVars>>

\* A line, cut when it is longer than the caller's buffer.
ReadLine(w) ==
    /\ At(w, "line")
    /\ EolIn(Ahead(w)) # {} \/ Len(Ahead(w)) >= LineMax
    /\ LET end == IF EolIn(Ahead(w)) = {} THEN LineMax
                  ELSE CHOOSE i \in EolIn(Ahead(w)) : \A j \in EolIn(Ahead(w)) : i <= j
           n == Lesser(end, LineMax)
       IN  /\ GotLine(w, SubSeq(Ahead(w), 1, n))
           /\ SetAhead(w, SubSeq(Ahead(w), n + 1, Len(Ahead(w))))
           /\ broken' = IF IsEol(Ahead(w)[n]) THEN broken ELSE broken \cup {client[w]}
    /\ UNCHANGED <<connVars, net, client, bodyVars, nbFileKeepAlive, exiting, answered>>

\* recv() fails, times out or ends: what there is counts as a line.
ReceiveFails(w) ==
    /\ At(w, "line")
    /\ EolIn(Ahead(w)) = {} /\ Len(Ahead(w)) < LineMax
    /\ GotLine(w, Ahead(w))
    /\ SetAhead(w, <<>>)
    /\ broken' = IF Ahead(w) = <<>> THEN broken ELSE broken \cup {client[w]}
    /\ UNCHANGED <<connVars, net, client, bodyVars, nbFileKeepAlive, exiting, answered>>

Answer(w) == answered' = [answered EXCEPT ![client[w]] = Append(@, read[w])]

\* Mutant: the buffer is cleared between two requests.
NextRequestBug(w, keep) ==
    /\ nbFileKeepAlive' = [nbFileKeepAlive EXCEPT ![w] = IF keep THEN @ - 1 ELSE @]
    /\ IF keep /\ nbFileKeepAlive[w] > 1 /\ ~exiting
       THEN Await(w) /\ SetAhead(w, <<>>)
       ELSE Goto(w, "free") /\ UNCHANGED <<read, request, httpRecvBuffers>>

\* The end of the loop over requests: go on when the client keeps the
\* connection and has not used up its requests.
NextRequest(w, keep) ==
    /\ nbFileKeepAlive' = [nbFileKeepAlive EXCEPT ![w] = IF keep THEN @ - 1 ELSE @]
    /\ IF keep /\ nbFileKeepAlive[w] > 1 /\ ~exiting
       THEN Await(w)
       ELSE Goto(w, "free") /\ UNCHANGED <<read, request>>
    /\ UNCHANGED httpRecvBuffers

\* An error, a page that is not there or a failed send ends the connection.
GiveUp(w) == Goto(w, "free") /\ UNCHANGED <<read, request, nbFileKeepAlive, httpRecvBuffers>>

\* 401, 501 for a head without a request line, 400 for a handshake that is
\* not one: an answer, and the end of the connection.
Reject(w) ==
    /\ At(w, "request")
    /\ Answer(w)
    /\ GiveUp(w)
    /\ UNCHANGED <<connVars, net, client, bodyVars, exiting, broken>>

\* GET /plaintext is answered, or not when the send fails, without a look at
\* a body.
Plaintext(w) ==
    /\ At(w, "request")
    /\ \E r \in Understood(w) :
         /\ r.kind = "plaintext"
         /\ \/ Answer(w) /\ NextRequest(w, r.keepAlive)
            \/ GiveUp(w) /\ UNCHANGED answered
    /\ broken' = IF request[w].body = 0 THEN broken ELSE broken \cup {client[w]}
    /\ UNCHANGED <<connVars, net, client, bodyVars, exiting>>

\* The head is accepted; the body, if there is one, follows.
StartBody(w) ==
    /\ At(w, "request")
    /\ \E r \in Understood(w) :
         /\ r.kind \in {"page", "upgrade"}
         /\ request' = [request EXCEPT ![w] = r]
         /\ left' = [left EXCEPT ![w] = r.body]
         /\ Goto(w, IF r.body = 0 THEN "page" ELSE "body")
    /\ UNCHANGED <<connVars, ioVars, client, read, copied, nbFileKeepAlive, exiting, historyVars>>

\* The length that recvBytes() is called with, and a piece it copies.
RequestedLength(w) == Lesser(left[w], PartMax)
Copy(w, s) ==
    /\ read' = [read EXCEPT ![w] = @ \o s]
    /\ copied' = [copied EXCEPT ![w] = @ + Len(s)]

\* Mutant: recvBytes() takes all that was read ahead.
BodyAheadBug(w) ==
    /\ At(w, "body") /\ copied[w] = 0 /\ Ahead(w) # <<>>
    /\ Copy(w, Ahead(w))
    /\ SetAhead(w, <<>>)
    /\ UNCHANGED <<connVars, net, client, request, left, nbFileKeepAlive, pc, exiting, historyVars>>

\* recvBytes() first takes what was read ahead, then recv()s what is missing.
BodyAhead(w) ==
    /\ At(w, "body") /\ copied[w] = 0 /\ Ahead(w) # <<>>
    /\ LET n == Lesser(Len(Ahead(w)), RequestedLength(w)) IN
       /\ Copy(w, SubSeq(Ahead(w), 1, n))
       /\ SetAhead(w, SubSeq(Ahead(w), n + 1, Len(Ahead(w))))
    /\ UNCHANGED <<connVars, net, client, request, left, nbFileKeepAlive, pc, exiting, historyVars>>

BodyReceive(w) ==
    /\ At(w, "body") /\ (copied[w] > 0 \/ Ahead(w) = <<>>)
    /\ \E n \in 1..Lesser(RequestedLength(w) - copied[w], Len(net[client[w]])) :
         /\ Copy(w, SubSeq(net[client[w]], 1, n))
         /\ net' = [net EXCEPT ![client[w]] = SubSeq(@, n + 1, Len(@))]
    /\ UNCHANGED <<connVars, httpRecvBuffers, client, request, left, nbFileKeepAlive, pc, exiting, historyVars>>

\* Mutant: a short recvBytes() is taken for the whole part.
BodyPartBug(w) ==
    /\ At(w, "body") /\ copied[w] > 0
    /\ left' = [left EXCEPT ![w] = @ - RequestedLength(w)]
    /\ copied' = [copied EXCEPT ![w] = 0]
    /\ \/ /\ Goto(w, IF left'[w] = 0 THEN "page" ELSE "body")
          /\ UNCHANGED broken
       \/ /\ Goto(w, "page")
          /\ broken' = IF left'[w] = 0 THEN broken ELSE broken \cup {client[w]}
    /\ UNCHANGED <<connVars, ioVars, client, read, request, nbFileKeepAlive, exiting, answered>>

\* recvBytes() returns what it was asked for, or less when recv() failed, and
\* is called again for the rest; but when the multipart parser throws, or
\* there is no memory, the rest is left unread.
BodyPart(w) ==
    /\ At(w, "body") /\ copied[w] > 0
    /\ left' = [left EXCEPT ![w] = @ - copied[w]]
    /\ copied' = [copied EXCEPT ![w] = 0]
    /\ \/ /\ Goto(w, IF left'[w] = 0 THEN "page" ELSE "body")
          /\ UNCHANGED broken
       \/ /\ Goto(w, "page")
          /\ broken' = IF left'[w] = 0 THEN broken ELSE broken \cup {client[w]}
    /\ UNCHANGED <<connVars, ioVars, client, read, request, nbFileKeepAlive, exiting, answered>>

\* Mutant: a recvBytes() that returns nothing is tried again.
BodyFailsBug(w) ==
    /\ At(w, "body") /\ copied[w] = 0 /\ Ahead(w) = <<>>
    /\ exiting /\ GiveUp(w)
    /\ UNCHANGED <<connVars, net, client, bodyVars, exiting, historyVars>>

\* recvBytes() returns nothing: the request is given up.
BodyFails(w) ==
    /\ At(w, "body") /\ copied[w] = 0 /\ Ahead(w) = <<>>
    /\ GiveUp(w)
    /\ UNCHANGED <<connVars, net, client, bodyVars, exiting, historyVars>>

\* A page: answered and the loop goes on; not found, empty, not compressible
\* or not sent, and the connection ends.
Page(w) ==
    /\ At(w, "page") /\ request[w].kind = "page"
    /\ Answer(w)
    /\ NextRequest(w, request[w].keepAlive) \/ GiveUp(w)
    /\ UNCHANGED <<connVars, net, client, bodyVars, exiting, broken>>

\* An upgrade: the endpoint takes the connection and accept_request() returns
\* false, with the buffer as it is; or there is no endpoint, or the 101 fails.
Upgrade(w) ==
    /\ At(w, "page") /\ request[w].kind = "upgrade"
    /\ Answer(w)
    /\ \/ /\ conn' = [conn EXCEPT ![client[w]] = "websocket"]
          /\ client' = [client EXCEPT ![w] = NoConn]
          /\ Goto(w, "idle")
          /\ UNCHANGED <<httpRecvBuffers, read, request, nbFileKeepAlive>>
       \/ GiveUp(w) /\ UNCHANGED <<conn, client>>
    /\ UNCHANGED <<fd, net, bodyVars, exiting, broken>>

\* Mutant: the buffer outlives the connection.
FreeBug(w) ==
    /\ At(w, "free")
    /\ conn' = [conn EXCEPT ![client[w]] = "closed"]
    /\ fd' = [fd EXCEPT ![client[w]] = NoFd]
    /\ client' = [client EXCEPT ![w] = NoConn]
    /\ Goto(w, "idle")
    /\ UNCHANGED <<ioVars, read, request, bodyVars, nbFileKeepAlive, exiting, historyVars>>

\* FREE_RETURN_TRUE: clearRecvBuffer(), and the pool frees the client.
Free(w) ==
    /\ At(w, "free")
    /\ SetAhead(w, <<>>)
    /\ conn' = [conn EXCEPT ![client[w]] = "closed"]
    /\ fd' = [fd EXCEPT ![client[w]] = NoFd]
    /\ client' = [client EXCEPT ![w] = NoConn]
    /\ Goto(w, "idle")
    /\ UNCHANGED <<net, read, request, bodyVars, nbFileKeepAlive, exiting, historyVars>>

-----------------------------------------------------------------------------

\* The client stops sending, in the middle of anything.
Silence(c) ==
    /\ conn[c] = "served" /\ net[c] # <<>>
    /\ net' = [net EXCEPT ![c] = <<>>]
    /\ UNCHANGED <<connVars, httpRecvBuffers, localVars, pc, exiting, historyVars>>

WebSocketEnds(c) ==
    /\ conn[c] = "websocket"
    /\ conn' = [conn EXCEPT ![c] = "closed"]
    /\ fd' = [fd EXCEPT ![c] = NoFd]
    /\ UNCHANGED <<ioVars, localVars, pc, exiting, historyVars>>

Exit ==
    /\ ~exiting /\ exiting' = TRUE
    /\ UNCHANGED <<connVars, ioVars, localVars, pc, historyVars>>

WorkerStep(w) ==
    \/ Receive(w) \/ ReadLine(w) \/ ReceiveFails(w)
    \/ Reject(w) \/ Plaintext(w) \/ StartBody(w)
    \/ BodyAhead(w) \/ BodyReceive(w) \/ BodyPart(w) \/ BodyFails(w)
    \/ Page(w) \/ Upgrade(w) \/ Free(w)

Next ==
    \/ \E w \in Workers : WorkerStep(w) \/ \E c \in Conns : Take(w, c)
    \/ \E c \in Conns : WebSocketEnds(c) \/ Silence(c)
    \/ Exit

Spec == Init /\ [][Next]_vars

\* A worker goes on; recv() comes back, at the latest with a timeout.
FairSpec == Spec /\ \A w \in Workers : WF_vars(WorkerStep(w))

-----------------------------------------------------------------------------
(* Properties                                                              *)

\* However recv() cuts the stream, and whoever used the worker or the
\* descriptor before: the k-th answer on a connection was made from exactly the
\* bytes of its k-th request, or of its head when it is the last answer.  (Not
\* once a line was cut, a body left unread or a stranger's bytes inherited: see
\* broken.)
Framing ==
    \A c \in Conns \ broken : \A k \in 1..Len(answered[c]) :
        \/ answered[c][k] = RequestBytes(c, k)
        \/ answered[c][k] = HeadBytes(c, k) /\ k = Len(answered[c])

\* Bytes read ahead are of the connection that their worker serves on that
\* descriptor, and nothing is left of an earlier user of it: clearRecvBuffer().
\* The exception is what Upgrade leaves behind, the end of a broken handshake.
ReadAheadOwned ==
    \A w \in Workers : \A f \in Fds : \A i \in 1..Len(httpRecvBuffers[w][f]) :
        LET b == httpRecvBuffers[w][f][i] IN
        \/ client[w] = b[1] /\ fd[b[1]] = f
        \/ b[1] \in broken /\ Script[b[1]][b[2]].kind = "upgrade"

\* A worker always gets rid of the connection it serves.
ConnectionEnds ==
    \A c \in Conns : conn[c] = "served" ~> conn[c] # "served"
=============================================================================
