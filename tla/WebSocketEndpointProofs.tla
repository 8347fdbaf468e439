---------------------- MODULE WebSocketEndpointProofs ----------------------
(***************************************************************************)
(* Theorems about WebSocketEndpoint, for any sets of clients, users and    *)
(* broadcasts; and, in the second part, that it implements                 *)
(* OrderedBroadcast: every step of a thread is a step of the promise, or   *)
(* leaves it alone.                                                        *)
(***************************************************************************)
EXTENDS WebSocketBroadcast, SequenceTheorems, TLAPS

(* Threads are told apart, and a worker thread has its client.             *)
LEMMA ThreadFacts ==
    /\ \A c \in Clients :
         /\ Recv(c) \in Threads /\ Recv(c) \notin Users
         /\ Recv(c) \in RecvThreads /\ Recv(c) \notin SendThreads
         /\ Send(c) \in Threads /\ Send(c) \notin Users
         /\ Send(c) \in SendThreads /\ Send(c) \notin RecvThreads
         /\ Target(Recv(c)) = c /\ Target(Send(c)) = c
    /\ \A c, d \in Clients :
         /\ Recv(c) # Send(d)
         /\ Recv(c) = Recv(d) => c = d
         /\ Send(c) = Send(d) => c = d
    /\ \A u \in Users :
         /\ u \in Threads /\ u \notin SendThreads /\ u \notin RecvThreads
         /\ u # NoThread /\ Target(u) = cur[u]
    /\ \A t \in Threads :
         \/ t \in Users
         \/ \E c \in Clients : t = Recv(c) \/ t = Send(c)
<1>1. ASSUME NEW c \in Clients
      PROVE  /\ Recv(c) \in Threads /\ Recv(c) \notin Users
             /\ Recv(c) \in RecvThreads /\ Recv(c) \notin SendThreads
             /\ Send(c) \in Threads /\ Send(c) \notin Users
             /\ Send(c) \in SendThreads /\ Send(c) \notin RecvThreads
             /\ Target(Recv(c)) = c /\ Target(Send(c)) = c
  <2>1. Recv(c) \in RecvThreads /\ Send(c) \in SendThreads
    BY DEF RecvThreads, SendThreads
  <2>2. Recv(c) \notin Users /\ Send(c) \notin Users
    BY <2>1, EndpointAssumption
  <2>3. Recv(c) \notin SendThreads /\ Send(c) \notin RecvThreads
    BY DEF RecvThreads, SendThreads, Recv, Send
  <2>4. Recv(c)[2] = c /\ Send(c)[2] = c
    BY DEF Recv, Send
  <2>5. QED
    BY <2>1, <2>2, <2>3, <2>4 DEF Threads, Target
<1>2. ASSUME NEW c \in Clients, NEW d \in Clients
      PROVE  /\ Recv(c) # Send(d)
             /\ Recv(c) = Recv(d) => c = d
             /\ Send(c) = Send(d) => c = d
  BY DEF Recv, Send
<1>3. ASSUME NEW u \in Users
      PROVE  /\ u \in Threads /\ u \notin SendThreads /\ u \notin RecvThreads
             /\ u # NoThread /\ Target(u) = cur[u]
  BY EndpointAssumption DEF Threads, Target
<1>4. ASSUME NEW t \in Threads
      PROVE  t \in Users \/ \E c \in Clients : t = Recv(c) \/ t = Send(c)
  BY DEF Threads, RecvThreads, SendThreads
<1>5. QED
  BY <1>1, <1>2, <1>3, <1>4

-----------------------------------------------------------------------------
(* Type correctness.  TypeOK is not inductive: a user at work on a client  *)
(* has one, a user that broadcasts and a sender about to send hold a       *)
(* message.                                                                *)

CurOK ==
    \A u \in Users :
        pc[u] \in {"opening", "startSender", "pushBack", "signal", "once"} \cup TeardownPCs
            => cur[u] \in Clients

MsgOK == \A u \in Users : pc[u] \in {"enqueue", "signal"} => msg[u] \in Broadcasts

HandOK == \A c \in Clients : pc[Send(c)] = "send" => hand[c] \in Messages

TypeInv == TypeOK /\ CurOK /\ MsgOK /\ HandOK

LEMMA TypeInit == Init => TypeInv
<1> SUFFICES ASSUME Init PROVE TypeInv
  OBVIOUS
<1>1. DataOK
  BY DEF Init, DataOK
<1>2. pc \in [Threads -> UserPCs \cup RecvPCs \cup SendPCs]
  BY DEF Init, UserPCs, RecvPCs
<1>3. /\ \A u \in Users : pc[u] = "idle"
      /\ \A c \in Clients : pc[Recv(c)] = "unborn" /\ pc[Send(c)] = "unborn"
  BY ThreadFacts DEF Init
<1>4. PcOK
  BY <1>2, <1>3 DEF PcOK, UserPCs, RecvPCs, SendPCs
<1>5. CurOK /\ MsgOK /\ HandOK
  BY <1>3 DEF CurOK, MsgOK, HandOK, TeardownPCs
<1>6. QED
  BY <1>1, <1>4, <1>5 DEF TypeInv, TypeOK

(* Thread t, and no other, moves to label.                                 *)
Moves(t, label) == \A x \in Threads : pc'[x] = IF x = t THEN label ELSE pc[x]

LEMMA GotoStep ==
    ASSUME PcOK, NEW t \in Threads, NEW label, Goto(t, label),
           \/ t \in Users /\ label \in UserPCs
           \/ t \in RecvThreads /\ label \in RecvPCs
           \/ t \in SendThreads /\ label \in SendPCs
    PROVE  PcOK' /\ Moves(t, label)
<1>1. pc' \in [Threads -> UserPCs \cup RecvPCs \cup SendPCs]
  BY DEF PcOK, Goto
<1>2. \A x \in Threads : pc'[x] = IF x = t THEN label ELSE pc[x]
  BY DEF PcOK, Goto
<1>3. \A u \in Users : pc'[u] \in UserPCs
  BY <1>2, ThreadFacts DEF PcOK
<1>4. \A c \in Clients : pc'[Recv(c)] \in RecvPCs /\ pc'[Send(c)] \in SendPCs
  BY <1>2, ThreadFacts DEF PcOK
<1>5. QED
  BY <1>1, <1>2, <1>3, <1>4 DEF PcOK, Moves

(* The same, and S of client c wakes if it was waiting.                    *)
Wakes(t, label, c) ==
    \A x \in Threads :
        pc'[x] = IF x = t THEN label
                 ELSE IF x = Send(c) /\ pc[x] = "waiting" THEN "woken" ELSE pc[x]

LEMMA NotifyStep ==
    ASSUME PcOK, NEW t \in Threads, NEW label, NEW c \in Clients,
           pc[t] # "waiting", Notify(t, label, c),
           \/ t \in Users /\ label \in UserPCs
           \/ t \in RecvThreads /\ label \in RecvPCs
           \/ t \in SendThreads /\ label \in SendPCs
    PROVE  PcOK' /\ Wakes(t, label, c)
<1>0. Send(c) \in Threads /\ "woken" \in SendPCs
  BY ThreadFacts DEF SendPCs
<1>1. pc' \in [Threads -> UserPCs \cup RecvPCs \cup SendPCs]
  BY <1>0 DEF PcOK, Notify
<1>2. \A x \in Threads :
         pc'[x] = IF x = t THEN label
                  ELSE IF x = Send(c) /\ pc[x] = "waiting" THEN "woken" ELSE pc[x]
  BY <1>0 DEF PcOK, Notify
<1>3. \A u \in Users : pc'[u] \in UserPCs
  BY <1>2, ThreadFacts DEF PcOK
<1>4. \A d \in Clients : pc'[Recv(d)] \in RecvPCs /\ pc'[Send(d)] \in SendPCs
  BY <1>0, <1>2, ThreadFacts DEF PcOK
<1>5. QED
  BY <1>1, <1>2, <1>3, <1>4 DEF PcOK, Wakes

(* The data of a step.                                                     *)
LEMMA SeqFacts ==
    /\ <<>> \in Seq(Messages)
    /\ \A q \in Seq(Messages) : \A m \in Messages : Append(q, m) \in Seq(Messages)
    /\ \A q \in Seq(Messages) :
           q # <<>> => Head(q) \in Messages /\ Tail(q) \in Seq(Messages)
OBVIOUS

LEMMA PushData ==
    ASSUME sendingQueue \in [Clients -> Seq(Messages)],
           NEW c \in Clients, NEW m \in Messages, Push(c, m)
    PROVE  sendingQueue' \in [Clients -> Seq(Messages)]
BY SeqFacts DEF Push

LEMMA CheckData ==
    ASSUME sendingQueue \in [Clients -> Seq(Messages)],
           hand \in [Clients -> Messages \cup {NoMsg}],
           NEW c \in Clients, SendCheck(c)
    PROVE  /\ sendingQueue' \in [Clients -> Seq(Messages)]
           /\ hand' \in [Clients -> Messages \cup {NoMsg}]
<1>1. CASE closing[c]
  BY <1>1, SeqFacts DEF SendCheck
<1>2. CASE ~closing[c] /\ sendingQueue[c] = <<>>
  BY <1>2, SeqFacts DEF SendCheck
<1>3. CASE ~closing[c] /\ sendingQueue[c] # <<>>
  <2>1. /\ sendingQueue' = [sendingQueue EXCEPT ![c] = Tail(sendingQueue[c])]
        /\ hand' = [hand EXCEPT ![c] = Head(sendingQueue[c])]
    BY <1>3 DEF SendCheck
  <2>2. Tail(sendingQueue[c]) \in Seq(Messages) /\ Head(sendingQueue[c]) \in Messages
    BY <1>3, SeqFacts
  <2>3. QED
    BY <2>1, <2>2
<1>4. QED
  BY <1>1, <1>2, <1>3

LEMMA UserCallData ==
    ASSUME TypeInv, NEW u \in Users, UserCall(u)
    PROVE  DataOK'
<1>. USE DEF clientVars, queueVars, userVars, TypeInv, TypeOK, DataOK
<1>1. CASE \E c \in Clients : NewConnectionRequest(u, c)
  BY <1>1 DEF NewConnectionRequest
<1>2. CASE \E c \in Clients : RemoveClientOf(u, c)
  BY <1>2 DEF RemoveClientOf
<1>3. CASE \E m \in Broadcasts : SendBroadcast(u, m)
  BY <1>3 DEF SendBroadcast
<1>4. CASE RemoveAllClients(u)
  BY <1>4 DEF RemoveAllClients
<1>5. CASE Destruct(u)
  BY <1>5 DEF Destruct
<1>6. QED
  BY <1>1, <1>2, <1>3, <1>4, <1>5 DEF UserCall

LEMMA UserStepData ==
    ASSUME TypeInv, NEW u \in Users, UserStep(u)
    PROVE  DataOK'
<1>. USE DEF clientVars, queueVars, userVars, TypeInv, TypeOK, DataOK
<1>1. CASE Refuse(u)
  BY <1>1 DEF Refuse
<1>2. CASE StartReceiver(u)
  BY <1>2 DEF StartReceiver
<1>3. CASE StartSender(u)
  BY <1>3 DEF StartSender
<1>4. CASE PushBack(u)
  BY <1>4 DEF PushBack, CurOK, At
<1>5. CASE BroadcastPush(u)
  BY <1>5 DEF BroadcastPush, Push, MsgOK, At, Messages
<1>6. CASE BroadcastSignal(u)
  BY <1>6 DEF BroadcastSignal
<1>7. CASE BroadcastEnd(u)
  BY <1>7 DEF BroadcastEnd
<1>8. CASE CloseNext(u)
  BY <1>8 DEF CloseNext
<1>9. CASE CloseDone(u)
  BY <1>9 DEF CloseDone
<1>10. QED
  BY <1>1, <1>2, <1>3, <1>4, <1>5, <1>6, <1>7, <1>8, <1>9 DEF UserStep

LEMMA CloseStepData ==
    ASSUME TypeInv, NEW t \in Threads, CloseStep(t)
    PROVE  DataOK'
<1>. USE DEF clientVars, queueVars, userVars, TypeInv, TypeOK, DataOK
<1>1. CASE CloseOnce(t)
  BY <1>1 DEF CloseOnce
<1>2. CASE SetClosing(t)
  BY <1>2 DEF SetClosing
<1>3. CASE RemoveClient(t)
  BY <1>3 DEF RemoveClient
<1>4. CASE OnClosing(t)
  BY <1>4 DEF OnClosing
<1>5. CASE UseGoneEndpoint(t)
  BY <1>5 DEF UseGoneEndpoint
<1>6. CASE WakeSender(t)
  BY <1>6 DEF WakeSender
<1>7. CASE InterruptSocket(t)
  BY <1>7 DEF InterruptSocket
<1>8. CASE JoinSend(t)
  BY <1>8 DEF JoinSend
<1>9. CASE JoinRecv(t)
  BY <1>9 DEF JoinRecv
<1>10. CASE FreeClientSockData(t)
  BY <1>10 DEF FreeClientSockData
<1>11. CASE DeleteThis(t)
  BY <1>11, SeqFacts DEF DeleteThis
<1>12. QED
  BY <1>1, <1>2, <1>3, <1>4, <1>5, <1>6, <1>7, <1>8, <1>9, <1>10, <1>11 DEF CloseStep

LEMMA RecvStepData ==
    ASSUME TypeInv, NEW c \in Clients, RecvStep(c)
    PROVE  DataOK'
<1>. USE DEF clientVars, queueVars, userVars, TypeInv, TypeOK, DataOK
<1>1. CASE RecvSetup(c)
  BY <1>1 DEF RecvSetup, RecvOnly
<1>2. CASE RecvLoop(c)
  BY <1>2 DEF RecvLoop, RecvOnly
<1>3. CASE RecvError(c)
  BY <1>3 DEF RecvError, RecvOnly
<1>4. CASE RecvInterrupted(c)
  BY <1>4 DEF RecvInterrupted, RecvOnly
<1>5. CASE RecvAnswer(c)
  <2>1. Pong \in Messages /\ Close \in Messages
    BY DEF Messages
  <2>2. sendingQueue' \in [Clients -> Seq(Messages)]
    BY <1>5, <2>1, PushData DEF RecvAnswer
  <2>3. QED
    BY <1>5, <2>2 DEF RecvAnswer, RecvOnly
<1>6. CASE RecvSignal(c)
  BY <1>6 DEF RecvSignal, RecvOnly
<1>7. QED
  BY <1>1, <1>2, <1>3, <1>4, <1>5, <1>6 DEF RecvStep

LEMMA SendStepData ==
    ASSUME TypeInv, NEW c \in Clients, SendStep(c) \/ SpuriousWakeup(c)
    PROVE  DataOK'
<1>. USE DEF clientVars, queueVars, userVars, TypeInv, TypeOK, DataOK
<1>1. CASE SendLock(c)
  BY <1>1 DEF SendLock, SendOnly
<1>2. CASE SendCheck(c)
  <2>1. sendingQueue' \in [Clients -> Seq(Messages)] /\ hand' \in [Clients -> Messages \cup {NoMsg}]
    BY <1>2, CheckData
  <2>2. QED
    BY <1>2, <2>1 DEF SendCheck, SendOnly
<1>3. CASE SendWait(c)
  BY <1>3 DEF SendWait, SendOnly
<1>4. CASE SendMessage(c)
  BY <1>4 DEF SendMessage, SendOnly, HandOK, At
<1>5. CASE SendFailed(c)
  BY <1>5 DEF SendFailed, SendOnly
<1>6. CASE SpuriousWakeup(c)
  BY <1>6 DEF SpuriousWakeup, SendOnly
<1>7. QED
  BY <1>1, <1>2, <1>3, <1>4, <1>5, <1>6 DEF SendStep

LEMMA PeerData ==
    ASSUME TypeInv, NEW c \in Clients, Peer(c)
    PROVE  DataOK'
<1>. USE DEF clientVars, queueVars, userVars, TypeInv, TypeOK, DataOK
<1>1. CASE PeerShutdown(c)
  BY <1>1 DEF PeerShutdown
<1>2. CASE PeerReset(c)
  BY <1>2 DEF PeerReset
<1>3. CASE RecvFrame(c)
  BY <1>3 DEF RecvFrame, RecvOnly
<1>4. QED
  BY <1>1, <1>2, <1>3 DEF Peer

-----------------------------------------------------------------------------
(* The program counters of a step.                                         *)

LEMMA Labels ==
    /\ {"idle", "opening", "startSender", "pushBack", "enqueue", "signal",
        "closeNext", "once", "undefined"} \subseteq UserPCs
    /\ {"unborn", "setup", "loop", "recv", "pong", "pongSignal", "reply",
        "replySignal", "once", "exited", "undefined"} \subseteq RecvPCs
    /\ {"unborn", "lock", "check", "doze", "waiting", "woken", "send",
        "once", "exited", "undefined"} \subseteq SendPCs
    /\ TeardownPCs \subseteq UserPCs /\ TeardownPCs \subseteq RecvPCs
    /\ TeardownPCs \subseteq SendPCs
    /\ {"flag", "remove", "onClosing", "wake", "shutdown", "joinSend",
        "joinRecv", "freeSock", "delete"} \subseteq TeardownPCs
BY DEF UserPCs, RecvPCs, SendPCs, TeardownPCs

LEMMA UserCallMoves ==
    ASSUME PcOK, NEW u \in Users
    PROVE  /\ \A c \in Clients : NewConnectionRequest(u, c) => PcOK' /\ Moves(u, "opening")
           /\ \A c \in Clients : RemoveClientOf(u, c) => PcOK' /\ Moves(u, "closeNext")
           /\ \A m \in Broadcasts : SendBroadcast(u, m) => PcOK' /\ Moves(u, "enqueue")
           /\ RemoveAllClients(u) => PcOK' /\ Moves(u, "closeNext")
           /\ Destruct(u) => PcOK' /\ Moves(u, "closeNext")
<1>1. \A c \in Clients : NewConnectionRequest(u, c) => PcOK' /\ Moves(u, "opening")
  BY ThreadFacts, Labels, GotoStep DEF NewConnectionRequest
<1>2. \A c \in Clients : RemoveClientOf(u, c) => PcOK' /\ Moves(u, "closeNext")
  BY ThreadFacts, Labels, GotoStep DEF RemoveClientOf
<1>3. \A m \in Broadcasts : SendBroadcast(u, m) => PcOK' /\ Moves(u, "enqueue")
  BY ThreadFacts, Labels, GotoStep DEF SendBroadcast
<1>4. RemoveAllClients(u) => PcOK' /\ Moves(u, "closeNext")
  BY ThreadFacts, Labels, GotoStep DEF RemoveAllClients
<1>5. Destruct(u) => PcOK' /\ Moves(u, "closeNext")
  BY ThreadFacts, Labels, GotoStep DEF Destruct
<1>6. QED
  BY <1>1, <1>2, <1>3, <1>4, <1>5

LEMMA UserStepMoves ==
    ASSUME PcOK, CurOK, NEW u \in Users
    PROVE  /\ Refuse(u) => PcOK' /\ Moves(u, "idle")
           /\ PushBack(u) => PcOK' /\ Moves(u, "idle")
           /\ BroadcastPush(u) => PcOK' /\ Moves(u, "signal")
           /\ BroadcastSignal(u) => PcOK' /\ Wakes(u, "enqueue", cur[u])
           /\ BroadcastEnd(u) => PcOK' /\ Moves(u, "idle")
           /\ CloseNext(u) => PcOK' /\ Moves(u, "once")
           /\ CloseDone(u) => PcOK' /\ Moves(u, "idle")
<1>1. Refuse(u) => PcOK' /\ Moves(u, "idle")
  BY ThreadFacts, Labels, GotoStep DEF Refuse
<1>2. PushBack(u) => PcOK' /\ Moves(u, "idle")
  BY ThreadFacts, Labels, GotoStep DEF PushBack
<1>3. BroadcastPush(u) => PcOK' /\ Moves(u, "signal")
  BY ThreadFacts, Labels, GotoStep DEF BroadcastPush
<1>4. BroadcastSignal(u) => PcOK' /\ Wakes(u, "enqueue", cur[u])
  BY ThreadFacts, Labels, NotifyStep DEF BroadcastSignal, CurOK, At
<1>5. BroadcastEnd(u) => PcOK' /\ Moves(u, "idle")
  BY ThreadFacts, Labels, GotoStep DEF BroadcastEnd
<1>6. CloseNext(u) => PcOK' /\ Moves(u, "once")
  BY ThreadFacts, Labels, GotoStep DEF CloseNext
<1>7. CloseDone(u) => PcOK' /\ Moves(u, "idle")
  BY ThreadFacts, Labels, GotoStep DEF CloseDone
<1>8. QED
  BY <1>1, <1>2, <1>3, <1>4, <1>5, <1>6, <1>7

(* The constructor starts the two workers of its client.                   *)
LEMMA StartMoves ==
    ASSUME PcOK, CurOK, NEW u \in Users
    PROVE  /\ StartReceiver(u) =>
                 PcOK' /\ \A x \in Threads :
                    pc'[x] = IF x = u THEN "startSender"
                             ELSE IF x = Recv(cur[u]) THEN "setup" ELSE pc[x]
           /\ StartSender(u) =>
                 PcOK' /\ \A x \in Threads :
                    pc'[x] = IF x = u THEN "pushBack"
                             ELSE IF x = Send(cur[u]) THEN "lock" ELSE pc[x]
<1>1. ASSUME StartReceiver(u)
      PROVE  PcOK' /\ \A x \in Threads :
                pc'[x] = IF x = u THEN "startSender"
                         ELSE IF x = Recv(cur[u]) THEN "setup" ELSE pc[x]
  <2>1. cur[u] \in Clients
    BY <1>1 DEF StartReceiver, At, CurOK
  <2>2. \A x \in Threads : pc'[x] = IF x = u THEN "startSender"
                                    ELSE IF x = Recv(cur[u]) THEN "setup" ELSE pc[x]
    BY <1>1, <2>1, ThreadFacts DEF StartReceiver, PcOK
  <2>3. pc' \in [Threads -> UserPCs \cup RecvPCs \cup SendPCs]
    BY <1>1, Labels DEF StartReceiver, PcOK
  <2>4. QED
    BY <2>1, <2>2, <2>3, ThreadFacts, Labels DEF PcOK
<1>2. ASSUME StartSender(u)
      PROVE  PcOK' /\ \A x \in Threads :
                pc'[x] = IF x = u THEN "pushBack"
                         ELSE IF x = Send(cur[u]) THEN "lock" ELSE pc[x]
  <2>1. cur[u] \in Clients
    BY <1>2 DEF StartSender, At, CurOK
  <2>2. \A x \in Threads : pc'[x] = IF x = u THEN "pushBack"
                                    ELSE IF x = Send(cur[u]) THEN "lock" ELSE pc[x]
    BY <1>2, <2>1, ThreadFacts DEF StartSender, PcOK
  <2>3. pc' \in [Threads -> UserPCs \cup RecvPCs \cup SendPCs]
    BY <1>2, Labels DEF StartSender, PcOK
  <2>4. QED
    BY <2>1, <2>2, <2>3, ThreadFacts, Labels DEF PcOK
<1>3. QED
  BY <1>1, <1>2

LEMMA ReturnLabel ==
    ASSUME NEW t \in Threads
    PROVE  /\ t \in Users => Return(t) = "closeNext"
           /\ t \notin Users => Return(t) = "exited"
           /\ \A label \in TeardownPCs \cup {Return(t), "undefined"} :
                 \/ t \in Users /\ label \in UserPCs
                 \/ t \in RecvThreads /\ label \in RecvPCs
                 \/ t \in SendThreads /\ label \in SendPCs
BY ThreadFacts, Labels DEF Return

LEMMA CloseMoves ==
    ASSUME PcOK, CurOK, NEW t \in Threads
    PROVE  /\ CloseOnce(t) =>
                 PcOK' /\ Moves(t, IF obj[Target(t)] # "alive" THEN "undefined"
                                   ELSE IF closeStarted[Target(t)] THEN Return(t)
                                   ELSE "flag")
           /\ SetClosing(t) => PcOK' /\ Moves(t, "remove")
           /\ RemoveClient(t) => PcOK' /\ Moves(t, "onClosing")
           /\ OnClosing(t) => PcOK' /\ Moves(t, "wake")
           /\ UseGoneEndpoint(t) => PcOK' /\ Moves(t, "undefined")
           /\ WakeSender(t) => PcOK' /\ Wakes(t, "shutdown", Target(t))
           /\ InterruptSocket(t) =>
                 PcOK' /\ Moves(t, IF t \in SendThreads THEN "joinRecv" ELSE "joinSend")
           /\ JoinSend(t) =>
                 PcOK' /\ Moves(t, IF t \in RecvThreads THEN "freeSock" ELSE "joinRecv")
           /\ JoinRecv(t) => PcOK' /\ Moves(t, "freeSock")
           /\ FreeClientSockData(t) => PcOK' /\ Moves(t, "delete")
           /\ DeleteThis(t) => PcOK' /\ Moves(t, Return(t))
<1>0. /\ "flag" \in TeardownPCs /\ "remove" \in TeardownPCs /\ "onClosing" \in TeardownPCs
      /\ "wake" \in TeardownPCs /\ "shutdown" \in TeardownPCs /\ "joinSend" \in TeardownPCs
      /\ "joinRecv" \in TeardownPCs /\ "freeSock" \in TeardownPCs /\ "delete" \in TeardownPCs
  BY Labels
<1>1. ASSUME NEW label \in TeardownPCs \cup {Return(t), "undefined"}, Goto(t, label)
      PROVE  PcOK' /\ Moves(t, label)
  BY <1>1, ReturnLabel, GotoStep
<1>2. CloseOnce(t) =>
          PcOK' /\ Moves(t, IF obj[Target(t)] # "alive" THEN "undefined"
                            ELSE IF closeStarted[Target(t)] THEN Return(t) ELSE "flag")
  BY <1>0, <1>1 DEF CloseOnce
<1>3. SetClosing(t) => PcOK' /\ Moves(t, "remove")
  BY <1>0, <1>1 DEF SetClosing
<1>4. RemoveClient(t) => PcOK' /\ Moves(t, "onClosing")
  BY <1>0, <1>1 DEF RemoveClient
<1>5. OnClosing(t) => PcOK' /\ Moves(t, "wake")
  BY <1>0, <1>1 DEF OnClosing
<1>6. UseGoneEndpoint(t) => PcOK' /\ Moves(t, "undefined")
  BY <1>0, <1>1 DEF UseGoneEndpoint
<1>7. ASSUME WakeSender(t) PROVE PcOK' /\ Wakes(t, "shutdown", Target(t))
  <2>1. Target(t) \in Clients
    BY <1>0, <1>7, ThreadFacts DEF WakeSender, At, CurOK
  <2>2. QED
    BY <1>0, <1>7, <2>1, ReturnLabel, NotifyStep DEF WakeSender, At
<1>8. InterruptSocket(t) =>
          PcOK' /\ Moves(t, IF t \in SendThreads THEN "joinRecv" ELSE "joinSend")
  BY <1>0, <1>1 DEF InterruptSocket
<1>9. JoinSend(t) =>
          PcOK' /\ Moves(t, IF t \in RecvThreads THEN "freeSock" ELSE "joinRecv")
  BY <1>0, <1>1 DEF JoinSend
<1>10. JoinRecv(t) => PcOK' /\ Moves(t, "freeSock")
  BY <1>0, <1>1 DEF JoinRecv
<1>11. FreeClientSockData(t) => PcOK' /\ Moves(t, "delete")
  BY <1>0, <1>1 DEF FreeClientSockData
<1>12. DeleteThis(t) => PcOK' /\ Moves(t, Return(t))
  BY <1>0, <1>1 DEF DeleteThis
<1>13. QED
  BY <1>2, <1>3, <1>4, <1>5, <1>6, <1>7, <1>8, <1>9, <1>10, <1>11, <1>12

(* A worker that is not closing its client goes on, or leaves its loop.    *)
RecvWork == {"setup", "loop", "recv", "pong", "pongSignal", "reply", "replySignal"}
SendWork == {"lock", "check", "doze", "waiting", "woken", "send"}

LEMMA RecvMoves ==
    ASSUME PcOK, NEW c \in Clients, RecvStep(c) \/ RecvFrame(c)
    PROVE  /\ PcOK' /\ pc[Recv(c)] \in RecvWork
           /\ \E label \in RecvWork \cup {"once", "exited"} :
                 Moves(Recv(c), label) \/ Wakes(Recv(c), label, c)
<1>0. RecvWork \cup {"once", "exited"} \subseteq RecvPCs
  BY DEF RecvWork, RecvPCs
<1>1. ASSUME NEW label \in RecvWork \cup {"once", "exited"}, Goto(Recv(c), label)
      PROVE  PcOK' /\ Moves(Recv(c), label)
  BY <1>0, <1>1, GotoStep, ThreadFacts
<1>2. ASSUME NEW label \in RecvWork \cup {"once", "exited"}, Notify(Recv(c), label, c),
             pc[Recv(c)] # "waiting"
      PROVE  PcOK' /\ Wakes(Recv(c), label, c)
  BY <1>0, <1>2, NotifyStep, ThreadFacts
<1>3. CASE RecvSetup(c)
  BY <1>1, <1>3 DEF RecvSetup, At, RecvWork
<1>4. CASE RecvLoop(c)
  BY <1>1, <1>4 DEF RecvLoop, At, RecvWork
<1>5. CASE RecvError(c)
  BY <1>1, <1>5 DEF RecvError, At, RecvWork
<1>6. CASE RecvInterrupted(c)
  BY <1>1, <1>6 DEF RecvInterrupted, At, RecvWork
<1>7. CASE RecvAnswer(c)
  BY <1>1, <1>7 DEF RecvAnswer, At, RecvWork
<1>8. CASE RecvSignal(c)
  BY <1>2, <1>8 DEF RecvSignal, At, RecvWork
<1>9. CASE RecvFrame(c)
  BY <1>1, <1>9 DEF RecvFrame, At, RecvWork
<1>10. QED
  BY <1>3, <1>4, <1>5, <1>6, <1>7, <1>8, <1>9 DEF RecvStep

LEMMA SendMoves ==
    ASSUME PcOK, NEW c \in Clients, SendStep(c) \/ SpuriousWakeup(c)
    PROVE  /\ PcOK' /\ pc[Send(c)] \in SendWork
           /\ \E label \in SendWork \cup {"once", "exited"} :
                 /\ Moves(Send(c), label)
                 /\ label = "send" => ~closing[c] /\ sendingQueue[c] # <<>> /\ SendCheck(c)
<1>0. SendWork \cup {"once", "exited"} \subseteq SendPCs
  BY DEF SendWork, SendPCs
<1>1. ASSUME NEW label \in SendWork \cup {"once", "exited"}, Goto(Send(c), label)
      PROVE  PcOK' /\ Moves(Send(c), label)
  BY <1>0, <1>1, GotoStep, ThreadFacts
<1>2. CASE SendLock(c)
  BY <1>1, <1>2 DEF SendLock, SendWork
<1>3. CASE SendCheck(c)
  BY <1>1, <1>3 DEF SendCheck, At, SendWork
<1>4. CASE SendWait(c)
  BY <1>1, <1>4 DEF SendWait, At, SendWork
<1>5. CASE SendMessage(c)
  BY <1>1, <1>5 DEF SendMessage, At, SendWork
<1>6. CASE SendFailed(c)
  BY <1>1, <1>6 DEF SendFailed, At, SendWork
<1>7. CASE SpuriousWakeup(c)
  BY <1>1, <1>7 DEF SpuriousWakeup, At, SendWork
<1>8. QED
  BY <1>2, <1>3, <1>4, <1>5, <1>6, <1>7 DEF SendStep

LEMMA UserCallAux ==
    ASSUME TypeInv, NEW u \in Users, UserCall(u)
    PROVE  CurOK' /\ MsgOK' /\ HandOK'
<1>. USE ThreadFacts DEF At, Moves, Wakes, userVars, queueVars
<1>0. /\ PcOK /\ CurOK /\ MsgOK /\ HandOK
      /\ cur \in [Users -> Clients \cup {NoClient}]
      /\ msg \in [Users -> Broadcasts \cup {NoMsg}]
      /\ todo \in [Users -> SUBSET Clients]
  BY DEF TypeInv, TypeOK, DataOK
<1>1. ASSUME NEW c \in Clients, NewConnectionRequest(u, c) PROVE CurOK' /\ MsgOK' /\ HandOK'
  <2>1. Moves(u, "opening")
    BY <1>0, <1>1, UserCallMoves
  <2>2. CurOK'
    BY <1>0, <1>1, <2>1 DEF NewConnectionRequest, CurOK, TeardownPCs
  <2>3. MsgOK' /\ HandOK'
    BY <1>0, <1>1, <2>1 DEF NewConnectionRequest, MsgOK, HandOK
  <2>4. QED
    BY <2>2, <2>3
<1>2. ASSUME NEW c \in Clients, RemoveClientOf(u, c) PROVE CurOK' /\ MsgOK' /\ HandOK'
  <2>1. Moves(u, "closeNext")
    BY <1>0, <1>2, UserCallMoves
  <2>2. CurOK'
    BY <1>0, <1>2, <2>1 DEF RemoveClientOf, CurOK, TeardownPCs
  <2>3. MsgOK' /\ HandOK'
    BY <1>0, <1>2, <2>1 DEF RemoveClientOf, MsgOK, HandOK
  <2>4. QED
    BY <2>2, <2>3
<1>3. ASSUME NEW m \in Broadcasts, SendBroadcast(u, m) PROVE CurOK' /\ MsgOK' /\ HandOK'
  <2>1. Moves(u, "enqueue")
    BY <1>0, <1>3, UserCallMoves
  <2>2. CurOK'
    BY <1>0, <1>3, <2>1 DEF SendBroadcast, CurOK, TeardownPCs
  <2>3. MsgOK' /\ HandOK'
    BY <1>0, <1>3, <2>1 DEF SendBroadcast, MsgOK, HandOK
  <2>4. QED
    BY <2>2, <2>3
<1>4. ASSUME RemoveAllClients(u) PROVE CurOK' /\ MsgOK' /\ HandOK'
  <2>1. Moves(u, "closeNext")
    BY <1>0, <1>4, UserCallMoves
  <2>2. CurOK'
    BY <1>0, <1>4, <2>1 DEF RemoveAllClients, CurOK, TeardownPCs
  <2>3. MsgOK' /\ HandOK'
    BY <1>0, <1>4, <2>1 DEF RemoveAllClients, MsgOK, HandOK
  <2>4. QED
    BY <2>2, <2>3
<1>5. ASSUME Destruct(u) PROVE CurOK' /\ MsgOK' /\ HandOK'
  <2>1. Moves(u, "closeNext")
    BY <1>0, <1>5, UserCallMoves
  <2>2. CurOK'
    BY <1>0, <1>5, <2>1 DEF Destruct, CurOK, TeardownPCs
  <2>3. MsgOK' /\ HandOK'
    BY <1>0, <1>5, <2>1 DEF Destruct, MsgOK, HandOK
  <2>4. QED
    BY <2>2, <2>3
<1>6. QED
  BY <1>1, <1>2, <1>3, <1>4, <1>5 DEF UserCall

LEMMA UserStepAux ==
    ASSUME TypeInv, NEW u \in Users, UserStep(u)
    PROVE  CurOK' /\ MsgOK' /\ HandOK'
<1>. USE ThreadFacts DEF At, Moves, Wakes, userVars, queueVars
<1>0. /\ PcOK /\ CurOK /\ MsgOK /\ HandOK
      /\ cur \in [Users -> Clients \cup {NoClient}]
      /\ msg \in [Users -> Broadcasts \cup {NoMsg}]
      /\ todo \in [Users -> SUBSET Clients]
  BY DEF TypeInv, TypeOK, DataOK
<1>1. ASSUME Refuse(u) PROVE CurOK' /\ MsgOK' /\ HandOK'
  <2>1. Moves(u, "idle")
    BY <1>0, <1>1, UserStepMoves
  <2>2. CurOK'
    BY <1>0, <1>1, <2>1 DEF Refuse, CurOK, TeardownPCs
  <2>3. MsgOK' /\ HandOK'
    BY <1>0, <1>1, <2>1 DEF Refuse, MsgOK, HandOK
  <2>4. QED
    BY <2>2, <2>3
<1>2. ASSUME StartReceiver(u) PROVE CurOK' /\ MsgOK' /\ HandOK'
  <2>1. \A x \in Threads :
            pc'[x] = IF x = u THEN "startSender"
                     ELSE IF x = Recv(cur[u]) THEN "setup" ELSE pc[x]
    BY <1>0, <1>2, StartMoves
  <2>2. CurOK'
    BY <1>0, <1>2, <2>1 DEF StartReceiver, CurOK, TeardownPCs
  <2>3. MsgOK' /\ HandOK'
    <3>1. cur[u] \in Clients
      BY <1>0, <1>2 DEF StartReceiver, CurOK
    <3>2. MsgOK'
      BY <1>0, <1>2, <2>1, <3>1 DEF StartReceiver, MsgOK
    <3>3. HandOK'
      BY <1>0, <1>2, <2>1, <3>1 DEF StartReceiver, HandOK
    <3>4. QED
      BY <3>2, <3>3
  <2>4. QED
    BY <2>2, <2>3
<1>3. ASSUME StartSender(u) PROVE CurOK' /\ MsgOK' /\ HandOK'
  <2>1. \A x \in Threads :
            pc'[x] = IF x = u THEN "pushBack"
                     ELSE IF x = Send(cur[u]) THEN "lock" ELSE pc[x]
    BY <1>0, <1>3, StartMoves
  <2>2. CurOK'
    BY <1>0, <1>3, <2>1 DEF StartSender, CurOK, TeardownPCs
  <2>3. MsgOK' /\ HandOK'
    <3>1. cur[u] \in Clients
      BY <1>0, <1>3 DEF StartSender, CurOK
    <3>2. MsgOK'
      BY <1>0, <1>3, <2>1, <3>1 DEF StartSender, MsgOK
    <3>3. HandOK'
      BY <1>0, <1>3, <2>1, <3>1 DEF StartSender, HandOK
    <3>4. QED
      BY <3>2, <3>3
  <2>4. QED
    BY <2>2, <2>3
<1>4. ASSUME PushBack(u) PROVE CurOK' /\ MsgOK' /\ HandOK'
  <2>1. Moves(u, "idle")
    BY <1>0, <1>4, UserStepMoves
  <2>2. CurOK'
    BY <1>0, <1>4, <2>1 DEF PushBack, CurOK, TeardownPCs
  <2>3. MsgOK' /\ HandOK'
    BY <1>0, <1>4, <2>1 DEF PushBack, MsgOK, HandOK
  <2>4. QED
    BY <2>2, <2>3
<1>5. ASSUME BroadcastPush(u) PROVE CurOK' /\ MsgOK' /\ HandOK'
  <2>1. Moves(u, "signal")
    BY <1>0, <1>5, UserStepMoves
  <2>2. CurOK'
    BY <1>0, <1>5, <2>1 DEF BroadcastPush, CurOK, TeardownPCs
  <2>3. MsgOK' /\ HandOK'
    BY <1>0, <1>5, <2>1 DEF BroadcastPush, MsgOK, HandOK
  <2>4. QED
    BY <2>2, <2>3
<1>6. ASSUME BroadcastSignal(u) PROVE CurOK' /\ MsgOK' /\ HandOK'
  <2>1. Wakes(u, "enqueue", cur[u])
    BY <1>0, <1>6, UserStepMoves
  <2>2. CurOK'
    BY <1>0, <1>6, <2>1 DEF BroadcastSignal, CurOK, TeardownPCs
  <2>3. MsgOK' /\ HandOK'
    BY <1>0, <1>6, <2>1 DEF BroadcastSignal, MsgOK, HandOK
  <2>4. QED
    BY <2>2, <2>3
<1>7. ASSUME BroadcastEnd(u) PROVE CurOK' /\ MsgOK' /\ HandOK'
  <2>1. Moves(u, "idle")
    BY <1>0, <1>7, UserStepMoves
  <2>2. CurOK'
    BY <1>0, <1>7, <2>1 DEF BroadcastEnd, CurOK, TeardownPCs
  <2>3. MsgOK' /\ HandOK'
    BY <1>0, <1>7, <2>1 DEF BroadcastEnd, MsgOK, HandOK
  <2>4. QED
    BY <2>2, <2>3
<1>8. ASSUME CloseNext(u) PROVE CurOK' /\ MsgOK' /\ HandOK'
  <2>1. Moves(u, "once")
    BY <1>0, <1>8, UserStepMoves
  <2>2. CurOK'
    BY <1>0, <1>8, <2>1 DEF CloseNext, CurOK, TeardownPCs
  <2>3. MsgOK' /\ HandOK'
    BY <1>0, <1>8, <2>1 DEF CloseNext, MsgOK, HandOK
  <2>4. QED
    BY <2>2, <2>3
<1>9. ASSUME CloseDone(u) PROVE CurOK' /\ MsgOK' /\ HandOK'
  <2>1. Moves(u, "idle")
    BY <1>0, <1>9, UserStepMoves
  <2>2. CurOK'
    BY <1>0, <1>9, <2>1 DEF CloseDone, CurOK, TeardownPCs
  <2>3. MsgOK' /\ HandOK'
    BY <1>0, <1>9, <2>1 DEF CloseDone, MsgOK, HandOK
  <2>4. QED
    BY <2>2, <2>3
<1>10. QED
  BY <1>1, <1>2, <1>3, <1>4, <1>5, <1>6, <1>7, <1>8, <1>9 DEF UserStep

LEMMA CloseStepMoves ==
    ASSUME PcOK, CurOK, NEW t \in Threads, CloseStep(t)
    PROVE  /\ PcOK' /\ pc[t] \in TeardownPCs \cup {"once"}
           /\ \E label \in TeardownPCs \cup {Return(t), "undefined"} :
                 Moves(t, label) \/ Wakes(t, label, Target(t))
<1>. USE CloseMoves, Labels
<1>1. CASE CloseOnce(t)
  BY <1>1 DEF CloseOnce, At
<1>2. CASE SetClosing(t)
  BY <1>2 DEF SetClosing, At
<1>3. CASE RemoveClient(t)
  BY <1>3 DEF RemoveClient, At
<1>4. CASE OnClosing(t)
  BY <1>4 DEF OnClosing, At
<1>5. CASE UseGoneEndpoint(t)
  BY <1>5 DEF UseGoneEndpoint
<1>6. CASE WakeSender(t)
  BY <1>6 DEF WakeSender, At
<1>7. CASE InterruptSocket(t)
  BY <1>7 DEF InterruptSocket, At
<1>8. CASE JoinSend(t)
  BY <1>8 DEF JoinSend, At
<1>9. CASE JoinRecv(t)
  BY <1>9 DEF JoinRecv, At
<1>10. CASE FreeClientSockData(t)
  BY <1>10 DEF FreeClientSockData, At
<1>11. CASE DeleteThis(t)
  BY <1>11 DEF DeleteThis, At
<1>12. QED
  BY <1>1, <1>2, <1>3, <1>4, <1>5, <1>6, <1>7, <1>8, <1>9, <1>10, <1>11 DEF CloseStep

LEMMA CloseStepAux ==
    ASSUME TypeInv, NEW t \in Threads, CloseStep(t)
    PROVE  CurOK' /\ MsgOK' /\ HandOK'
<1>1. UNCHANGED <<cur, msg, hand>>
  BY DEF CloseStep, CloseOnce, SetClosing, RemoveClient, OnClosing, UseGoneEndpoint, WakeSender,
         InterruptSocket, JoinSend, JoinRecv, FreeClientSockData, DeleteThis, userVars, queueVars
<1>2. PICK label \in TeardownPCs \cup {Return(t), "undefined"} :
          Moves(t, label) \/ Wakes(t, label, Target(t))
  BY CloseStepMoves DEF TypeInv, TypeOK
<1>3. pc[t] \in TeardownPCs \cup {"once"}
  BY CloseStepMoves DEF TypeInv, TypeOK
<1>4. label \notin {"opening", "startSender", "pushBack", "signal", "once", "enqueue", "send"}
  BY DEF TeardownPCs, Return
<1>5. \A x \in Threads : pc'[x] \in {pc[x], "woken"} \/ (x = t /\ pc'[x] = label)
  BY <1>2 DEF Moves, Wakes
<1>6. CurOK'
  BY <1>1, <1>3, <1>4, <1>5, ThreadFacts, Labels DEF CurOK, TypeInv, TeardownPCs
<1>7. MsgOK' /\ HandOK'
  BY <1>1, <1>4, <1>5, ThreadFacts DEF MsgOK, HandOK, TypeInv
<1>8. QED
  BY <1>6, <1>7

LEMMA TypeNext == TypeInv /\ [Next]_vars => TypeInv'
<1> SUFFICES ASSUME TypeInv, [Next]_vars PROVE TypeInv'
  OBVIOUS
<1>0. PcOK /\ CurOK /\ MsgOK /\ HandOK
  BY DEF TypeInv, TypeOK
<1>1. ASSUME NEW u \in Users, UserCall(u) PROVE TypeInv'
  <2>1. PcOK'
    BY <1>0, <1>1, UserCallMoves DEF UserCall
  <2>2. QED
    BY <1>1, <2>1, UserCallData, UserCallAux DEF TypeInv, TypeOK
<1>2. ASSUME NEW u \in Users, UserStep(u) PROVE TypeInv'
  <2>1. PcOK'
    BY <1>0, <1>2, UserStepMoves, StartMoves DEF UserStep
  <2>2. QED
    BY <1>2, <2>1, UserStepData, UserStepAux DEF TypeInv, TypeOK
<1>3. ASSUME NEW t \in Threads, CloseStep(t) PROVE TypeInv'
  <2>1. PcOK'
    BY <1>0, <1>3, CloseStepMoves
  <2>2. QED
    BY <1>3, <2>1, CloseStepData, CloseStepAux DEF TypeInv, TypeOK
<1>4. ASSUME NEW c \in Clients, RecvStep(c) \/ RecvFrame(c) PROVE TypeInv'
  <2>1. PcOK'
    BY <1>0, <1>4, RecvMoves
  <2>2. DataOK'
    BY <1>4, RecvStepData, PeerData DEF Peer
  <2>3. UNCHANGED <<cur, msg, hand>>
    BY <1>4 DEF RecvStep, RecvFrame, RecvSetup, RecvLoop, RecvError, RecvInterrupted,
                RecvAnswer, RecvSignal, RecvOnly, userVars
  <2>4. \A x \in Threads : pc'[x] \in {pc[x], "woken"} \/ x = Recv(c)
    BY <1>0, <1>4, RecvMoves DEF Moves, Wakes
  <2>5. CurOK' /\ MsgOK' /\ HandOK'
    BY <1>0, <2>3, <2>4, ThreadFacts DEF CurOK, MsgOK, HandOK, TeardownPCs
  <2>6. QED
    BY <2>1, <2>2, <2>5 DEF TypeInv, TypeOK
<1>5. ASSUME NEW c \in Clients, SendStep(c) \/ SpuriousWakeup(c) PROVE TypeInv'
  <2>1. PcOK'
    BY <1>0, <1>5, SendMoves
  <2>2. DataOK'
    BY <1>5, SendStepData
  <2>3. UNCHANGED <<cur, msg>>
    BY <1>5 DEF SendStep, SendLock, SendCheck, SendWait, SendMessage, SendFailed,
                SpuriousWakeup, SendOnly, userVars
  <2>4. \A x \in Threads : pc'[x] = pc[x] \/ x = Send(c)
    BY <1>0, <1>5, SendMoves DEF Moves
  <2>5. CurOK' /\ MsgOK'
    BY <1>0, <2>3, <2>4, ThreadFacts DEF CurOK, MsgOK
  <2>6. \A d \in Clients : d # c => hand'[d] = hand[d]
    BY <1>5 DEF SendStep, SendLock, SendCheck, SendWait, SendMessage, SendFailed,
                SpuriousWakeup, queueVars, TypeInv, TypeOK, DataOK
  <2>7. pc'[Send(c)] = "send" => hand'[c] \in Messages
    <3>1. SUFFICES ASSUME pc'[Send(c)] = "send" PROVE hand'[c] \in Messages
      OBVIOUS
    <3>2. SendCheck(c) /\ ~closing[c] /\ sendingQueue[c] # <<>>
      BY <1>0, <1>5, <3>1, SendMoves, ThreadFacts DEF Moves
    <3>3. hand' = [hand EXCEPT ![c] = Head(sendingQueue[c])]
      BY <3>2 DEF SendCheck
    <3>4. QED
      BY <3>2, <3>3, SeqFacts DEF TypeInv, TypeOK, DataOK
  <2>8. HandOK'
    BY <1>0, <2>4, <2>6, <2>7, ThreadFacts DEF HandOK
  <2>9. QED
    BY <2>1, <2>2, <2>5, <2>8 DEF TypeInv, TypeOK
<1>6. ASSUME NEW c \in Clients, PeerShutdown(c) \/ PeerReset(c) PROVE TypeInv'
  <2>1. DataOK'
    BY <1>6, PeerData DEF Peer
  <2>2. UNCHANGED <<pc, cur, msg, hand>>
    BY <1>6 DEF PeerShutdown, PeerReset, userVars, queueVars
  <2>3. QED
    BY <1>0, <2>1, <2>2 DEF TypeInv, TypeOK, PcOK, CurOK, MsgOK, HandOK
<1>7. CASE UNCHANGED vars
  BY <1>7 DEF vars, clientVars, queueVars, userVars, TypeInv, TypeOK, DataOK, PcOK, CurOK,
              MsgOK, HandOK
<1>8. QED
  BY <1>1, <1>2, <1>3, <1>4, <1>5, <1>6, <1>7 DEF Next, Peer

(* Every state of the endpoint is well typed: no field takes a value, no   *)
(* thread reaches a point of the code, that the types of the program       *)
(* exclude; the NULL client is never put in webSocketClientList.           *)
THEOREM TypeCorrect == Spec => []TypeOK
<1>1. Spec => []TypeInv
  BY TypeInit, TypeNext, PTL DEF Spec
<1>2. TypeInv => TypeOK
  BY DEF TypeInv
<1>3. QED
  BY <1>1, <1>2, PTL

-----------------------------------------------------------------------------
(* The inductive invariant of the lifetime theorems.                       *)

LockPCs == {"opening", "startSender", "pushBack", "enqueue", "signal"}

\* The list mutex is held by exactly the user inside one of its sections.
LockInv == \A u \in Users : pc[u] \in LockPCs <=> listLock = u

\* u is in the constructor of client c, or about to list it.
Constructs(u, c) == pc[u] \in {"startSender", "pushBack"} /\ cur[u] = c

\* Before its construction a client has no thread and no teardown.
BirthInv ==
    /\ \A u \in Users : pc[u] = "opening" => obj[cur[u]] = "unborn"
    /\ \A u \in Users : pc[u] = "startSender" => pc[Send(cur[u])] = "unborn"
    /\ \A c \in Clients :
         obj[c] \in {"unborn", "refused"} =>
             pc[Recv(c)] = "unborn" /\ pc[Send(c)] = "unborn" /\ ~closeStarted[c]

\* Who may count on the client being there.
AliveInv ==
    \A c \in Clients :
        \/ c \in webSocketClientList
        \/ Running(Recv(c)) \/ Running(Send(c))
        \/ \E u \in Users : Constructs(u, c)
        => obj[c] = "alive"

\* A broadcast visits listed clients only.
BroadcastInv ==
    /\ \A u \in Users : pc[u] \in {"enqueue", "signal"} => todo[u] \subseteq webSocketClientList
    /\ \A u \in Users : pc[u] = "signal" => cur[u] \in webSocketClientList

\* A client that is listed, or will be, has no teardown beyond removeClient().
ListInv ==
    /\ BroadcastInv
    /\ \A c \in Clients : \A t \in Threads :
         /\ InTeardown(t, c)
         /\ c \in webSocketClientList \/ \E u \in Users : Constructs(u, c)
         => pc[t] \in {"flag", "remove"}

\* closeOnce() lets one thread through, and `delete this' ends its teardown.
TeardownInv ==
    \A c \in Clients : \A t \in Threads :
        InTeardown(t, c) =>
            /\ closeStarted[c] /\ obj[c] = "alive"
            /\ \A t2 \in Threads : InTeardown(t2, c) => t2 = t

\* What the joins of finalizeClose() have established.
JoinInv ==
    \A c \in Clients : \A t \in Threads :
        InTeardown(t, c) =>
            /\ t \notin SendThreads /\ pc[t] \in {"joinRecv", "freeSock", "delete"}
                 => pc[Send(c)] = "exited"
            /\ t \notin RecvThreads /\ pc[t] \in {"freeSock", "delete"}
                 => pc[Recv(c)] = "exited"

\* The socket of a client is freed by a refusal or at the end of its teardown.
SockInv ==
    \A c \in Clients :
        sock[c] = "freed" =>
            \/ obj[c] \in {"refused", "freed"}
            \/ \E t \in Threads : InTeardown(t, c) /\ pc[t] = "delete"

IInv == LockInv /\ BirthInv /\ AliveInv /\ ListInv /\ TeardownInv /\ JoinInv /\ SockInv

LEMMA IInvInit == Init => IInv
<1> SUFFICES ASSUME Init PROVE IInv
  OBVIOUS
<1>1. /\ \A u \in Users : pc[u] = "idle"
      /\ \A c \in Clients : pc[Recv(c)] = "unborn" /\ pc[Send(c)] = "unborn"
      /\ \A t \in Threads : pc[t] \notin TeardownPCs
  BY ThreadFacts DEF Init, TeardownPCs
<1>2. LockInv
  BY <1>1, ThreadFacts DEF Init, LockInv, LockPCs
<1>3. BirthInv /\ AliveInv
  BY <1>1 DEF Init, BirthInv, AliveInv, Running, Constructs
<1>4. ListInv /\ TeardownInv /\ JoinInv
  BY <1>1 DEF ListInv, BroadcastInv, TeardownInv, JoinInv, InTeardown, Constructs
<1>5. SockInv
  BY DEF Init, SockInv
<1>6. QED
  BY <1>2, <1>3, <1>4, <1>5 DEF IInv

\* A step that moves threads inside their loops, or on in a teardown that has
\* been begun, and touches neither the list nor the life of a client.
Inner ==
    /\ UNCHANGED <<webSocketClientList, listLock, obj, closeStarted, cur, todo>>
    /\ \A u \in Users :
         pc'[u] # pc[u] => pc[u] \notin LockPCs /\ pc'[u] \notin LockPCs
    /\ \A x \in Threads :
         /\ pc'[x] \in TeardownPCs => pc[x] \in TeardownPCs
         /\ pc[x] \in {"flag", "remove"} /\ pc'[x] \in TeardownPCs
              => pc'[x] \in {"flag", "remove"}
    /\ \A x \in RecvThreads \cup SendThreads :
         /\ pc'[x] = "unborn" <=> pc[x] = "unborn"
         /\ pc[x] = "exited" => pc'[x] = "exited"

LEMMA InnerTeardown ==
    ASSUME UNCHANGED cur, NEW t \in Threads, NEW c \in Clients
    PROVE  /\ Target(t)' = Target(t)
           /\ pc'[t] \in TeardownPCs /\ pc[t] \in TeardownPCs
                => (InTeardown(t, c)' <=> InTeardown(t, c))
           /\ pc'[t] \notin TeardownPCs => ~InTeardown(t, c)'
           /\ pc[t] \notin TeardownPCs => ~InTeardown(t, c)
BY DEF Target, InTeardown

LEMMA InnerStep ==
    ASSUME CurOK, LockInv, BirthInv, AliveInv, ListInv, TeardownInv, Inner
    PROVE  LockInv' /\ BirthInv' /\ AliveInv' /\ ListInv' /\ TeardownInv'
<1>1. /\ webSocketClientList' = webSocketClientList /\ listLock' = listLock /\ obj' = obj
      /\ closeStarted' = closeStarted /\ cur' = cur /\ todo' = todo
  BY DEF Inner
<1>2. \A t \in Threads, c \in Clients : InTeardown(t, c)' => InTeardown(t, c)
  BY <1>1, InnerTeardown DEF Inner
<1>3. \A u \in Users : \A c \in Clients : Constructs(u, c)' <=> Constructs(u, c)
  BY <1>1 DEF Inner, Constructs, LockPCs
<1>4. LockInv'
  BY <1>1 DEF LockInv, Inner
<1>5. BirthInv'
  <2>1. \A c \in Clients : /\ pc'[Recv(c)] = "unborn" <=> pc[Recv(c)] = "unborn"
                          /\ pc'[Send(c)] = "unborn" <=> pc[Send(c)] = "unborn"
    BY DEF Inner, RecvThreads, SendThreads
  <2>2. \A u \in Users : pc'[u] \in {"opening", "startSender"} => pc'[u] = pc[u]
    BY DEF Inner, LockPCs
  <2>3. \A u \in Users : pc[u] = "startSender" => cur[u] \in Clients
    BY DEF CurOK
  <2>4. \A u \in Users : pc'[u] = "opening" => obj'[cur'[u]] = "unborn"
    BY <1>1, <2>2 DEF BirthInv
  <2>5. \A u \in Users : pc'[u] = "startSender" => pc'[Send(cur'[u])] = "unborn"
    BY <1>1, <2>1, <2>2, <2>3 DEF BirthInv
  <2>6. \A c \in Clients :
           obj'[c] \in {"unborn", "refused"} =>
               pc'[Recv(c)] = "unborn" /\ pc'[Send(c)] = "unborn" /\ ~closeStarted'[c]
    BY <1>1, <2>1 DEF BirthInv
  <2>7. QED
    BY <2>4, <2>5, <2>6 DEF BirthInv
<1>6. AliveInv'
  BY <1>1, <1>3, ThreadFacts DEF AliveInv, Inner, Running
<1>7. ListInv'
  <2>1. \A u \in Users : pc'[u] \in {"enqueue", "signal"} => pc'[u] = pc[u]
    BY DEF Inner, LockPCs
  <2>2. \A t \in Threads, c \in Clients :
           InTeardown(t, c)' => (pc[t] \in {"flag", "remove"} => pc'[t] \in {"flag", "remove"})
    BY DEF Inner, InTeardown
  <2>3. QED
    BY <1>1, <1>2, <1>3, <2>1, <2>2 DEF ListInv, BroadcastInv
<1>8. TeardownInv'
  BY <1>1, <1>2 DEF TeardownInv
<1>9. QED
  BY <1>4, <1>5, <1>6, <1>7, <1>8

LEMMA InnerJoin ==
    ASSUME JoinInv, Inner,
           \A x \in Threads : pc'[x] \in {"joinRecv", "freeSock", "delete"} => pc'[x] = pc[x]
    PROVE  JoinInv'
<1>1. \A t \in Threads, c \in Clients : InTeardown(t, c)' => InTeardown(t, c)
  BY InnerTeardown DEF Inner
<1>2. QED
  BY <1>1, ThreadFacts DEF JoinInv, Inner

LEMMA InnerSock ==
    ASSUME SockInv, UNCHANGED <<obj, cur>>,
           \A c \in Clients : sock'[c] = "freed" => sock[c] = "freed",
           \A x \in Threads : pc[x] = "delete" => pc'[x] = "delete"
    PROVE  SockInv'
<1>1. \A t \in Threads, c \in Clients :
         InTeardown(t, c) /\ pc[t] = "delete" => InTeardown(t, c)' /\ pc'[t] = "delete"
  BY InnerTeardown DEF InTeardown
<1>2. QED
  BY <1>1 DEF SockInv

LEMMA RecvSendInner ==
    ASSUME TypeInv, IInv, NEW c \in Clients,
           \/ RecvStep(c) \/ SendStep(c) \/ SpuriousWakeup(c) \/ Peer(c)
    PROVE  IInv'
<1>0. PcOK
  BY DEF TypeInv, TypeOK
<1>1. /\ UNCHANGED <<webSocketClientList, listLock, obj, closeStarted, cur, todo>>
      /\ \A d \in Clients : sock'[d] = "freed" => sock[d] = "freed"
  <2>1. CASE RecvStep(c)
    BY <2>1 DEF RecvStep, RecvSetup, RecvLoop, RecvError, RecvInterrupted, RecvAnswer,
                RecvSignal, RecvOnly, userVars
  <2>2. CASE SendStep(c) \/ SpuriousWakeup(c)
    BY <2>2 DEF SendStep, SendLock, SendCheck, SendWait, SendMessage, SendFailed,
                SpuriousWakeup, SendOnly, userVars, clientVars
  <2>3. CASE Peer(c)
    BY <2>3 DEF Peer, PeerShutdown, PeerReset, RecvFrame, RecvOnly, userVars, clientVars,
                TypeInv, TypeOK, DataOK
  <2>4. QED
    BY <2>1, <2>2, <2>3
<1>2. \A x \in Threads :
         \/ pc'[x] = pc[x]
         \/ /\ x \in RecvThreads \cup SendThreads
            /\ pc[x] \in RecvWork \cup SendWork
            /\ pc'[x] \in RecvWork \cup SendWork \cup {"once", "exited"}
  <2>1. CASE RecvStep(c) \/ RecvFrame(c)
    BY <1>0, <2>1, RecvMoves, ThreadFacts DEF Moves, Wakes, SendWork
  <2>2. CASE SendStep(c) \/ SpuriousWakeup(c)
    BY <1>0, <2>2, SendMoves, ThreadFacts DEF Moves
  <2>3. CASE PeerShutdown(c) \/ PeerReset(c)
    BY <2>3 DEF PeerShutdown, PeerReset
  <2>4. QED
    BY <2>1, <2>2, <2>3 DEF Peer
<1>3. /\ {"unborn", "exited"} \cap (RecvWork \cup SendWork) = {}
      /\ TeardownPCs \cap (RecvWork \cup SendWork \cup {"once", "exited"}) = {}
      /\ "unborn" \notin RecvWork \cup SendWork \cup {"once", "exited"}
      /\ {"joinRecv", "freeSock", "delete"} \subseteq TeardownPCs
  BY DEF RecvWork, SendWork, TeardownPCs
<1>4. Inner
  <2>1. \A u \in Users : pc'[u] = pc[u]
    BY <1>2, ThreadFacts
  <2>2. \A x \in Threads :
         /\ pc'[x] \in TeardownPCs => pc'[x] = pc[x]
         /\ pc[x] \in TeardownPCs => pc'[x] = pc[x]
    BY <1>2, <1>3
  <2>3. \A x \in RecvThreads \cup SendThreads :
         /\ pc'[x] = "unborn" <=> pc[x] = "unborn"
         /\ pc[x] = "exited" => pc'[x] = "exited"
    BY <1>2, <1>3 DEF Threads
  <2>4. QED
    BY <1>1, <2>1, <2>2, <2>3 DEF Inner
<1>5. JoinInv'
  BY <1>2, <1>3, <1>4, InnerJoin DEF IInv
<1>6. SockInv'
  BY <1>1, <1>2, <1>3, InnerSock DEF IInv
<1>7. QED
  BY <1>4, <1>5, <1>6, InnerStep DEF IInv, TypeInv

-----------------------------------------------------------------------------
(* Steps of a teardown.                                                    *)

LEMMA CloseInner ==
    ASSUME IInv, NEW t \in Threads, pc[t] \in TeardownPCs,
           UNCHANGED <<webSocketClientList, listLock, obj, closeStarted, cur, todo>>,
           NEW label \in TeardownPCs \cup {"undefined"},
           pc[t] \in {"flag", "remove"} => label \in {"flag", "remove", "undefined"},
           Moves(t, label) \/ Wakes(t, label, Target(t))
    PROVE  Inner /\ \A x \in Threads : x # t => pc'[x] \in {pc[x], "woken"}
<1>1. \A x \in Threads :
         \/ x = t /\ pc'[x] = label
         \/ x # t /\ pc'[x] = pc[x]
         \/ x # t /\ pc[x] = "waiting" /\ pc'[x] = "woken" /\ x = Send(Target(t))
  BY DEF Moves, Wakes
<1>3. /\ {"woken", "waiting", "unborn", "exited", "undefined"} \cap TeardownPCs = {}
      /\ LockPCs \cap (TeardownPCs \cup {"undefined", "waiting", "woken"}) = {}
  BY DEF TeardownPCs, LockPCs
<1>4. \A u \in Users : pc'[u] # pc[u] => pc[u] \notin LockPCs /\ pc'[u] \notin LockPCs
  BY <1>1, <1>3, ThreadFacts
<1>5. \A x \in Threads :
         /\ pc'[x] \in TeardownPCs => pc[x] \in TeardownPCs
         /\ pc[x] \in {"flag", "remove"} /\ pc'[x] \in TeardownPCs
              => pc'[x] \in {"flag", "remove"}
  BY <1>1, <1>3
<1>6. \A x \in RecvThreads \cup SendThreads :
         /\ pc'[x] = "unborn" <=> pc[x] = "unborn"
         /\ pc[x] = "exited" => pc'[x] = "exited"
  BY <1>1, <1>3 DEF Threads
<1>7. QED
  BY <1>1, <1>4, <1>5, <1>6 DEF Inner

LEMMA CloseStepInv ==
    ASSUME TypeInv, IInv, NEW t \in Threads,
           \/ SetClosing(t) \/ OnClosing(t) \/ UseGoneEndpoint(t) \/ WakeSender(t)
           \/ InterruptSocket(t) \/ JoinSend(t) \/ JoinRecv(t) \/ FreeClientSockData(t)
    PROVE  IInv'
<1>0. PcOK /\ CurOK
  BY DEF TypeInv, TypeOK
<1>1. UNCHANGED <<webSocketClientList, listLock, obj, closeStarted, cur, todo>>
  BY DEF SetClosing, OnClosing, UseGoneEndpoint, WakeSender, InterruptSocket, JoinSend,
         JoinRecv, FreeClientSockData, userVars, clientVars
<1>2. pc[t] \in TeardownPCs
  BY DEF SetClosing, OnClosing, UseGoneEndpoint, WakeSender, InterruptSocket, JoinSend,
         JoinRecv, FreeClientSockData, TeardownPCs, At
<1>3. Target(t) \in Clients
  BY <1>0, <1>2, ThreadFacts DEF CurOK
<1>4. PICK label \in TeardownPCs \cup {"undefined"} :
         /\ Moves(t, label) \/ Wakes(t, label, Target(t))
         /\ pc[t] \in {"flag", "remove"} => label \in {"flag", "remove", "undefined"}
         /\ pc[t] # "delete"
         /\ label = "delete" => FreeClientSockData(t)
         /\ label = "freeSock" => (JoinSend(t) /\ t \in RecvThreads) \/ JoinRecv(t)
         /\ label = "joinRecv" => JoinSend(t) \/ t \in SendThreads
  <2>1. CASE SetClosing(t)
    <3>1. Moves(t, "remove") /\ pc[t] = "flag"
      BY <1>0, <2>1, CloseMoves DEF SetClosing, At
    <3>2. QED
      BY <2>1, <3>1, Labels
  <2>2. CASE OnClosing(t)
    BY <1>0, <2>2, CloseMoves, Labels DEF OnClosing, At
  <2>3. CASE UseGoneEndpoint(t)
    BY <1>0, <2>3, CloseMoves, Labels DEF UseGoneEndpoint
  <2>4. CASE WakeSender(t)
    <3>1. Wakes(t, "shutdown", Target(t)) /\ pc[t] = "wake"
      BY <1>0, <2>4, CloseMoves DEF WakeSender, At
    <3>2. QED
      BY <2>4, <3>1, Labels
  <2>5. CASE InterruptSocket(t)
    <3>1. /\ t \in SendThreads => Moves(t, "joinRecv")
          /\ t \notin SendThreads => Moves(t, "joinSend")
          /\ pc[t] = "shutdown"
      BY <1>0, <2>5, CloseMoves DEF InterruptSocket, At
    <3>2. CASE t \in SendThreads
      BY <3>1, <3>2, Labels
    <3>3. CASE t \notin SendThreads
      BY <3>1, <3>3, Labels
    <3>4. QED
      BY <3>2, <3>3
  <2>6. CASE JoinSend(t)
    BY <1>0, <2>6, CloseMoves, Labels DEF JoinSend, At
  <2>7. CASE JoinRecv(t)
    BY <1>0, <2>7, CloseMoves, Labels DEF JoinRecv, At
  <2>8. CASE FreeClientSockData(t)
    <3>1. Moves(t, "delete") /\ pc[t] = "freeSock"
      BY <1>0, <2>8, CloseMoves DEF FreeClientSockData, At
    <3>2. QED
      BY <2>8, <3>1, Labels
  <2>9. QED
    BY <2>1, <2>2, <2>3, <2>4, <2>5, <2>6, <2>7, <2>8
<1>5. Inner /\ \A x \in Threads : x # t => pc'[x] \in {pc[x], "woken"}
  BY <1>1, <1>2, <1>4, CloseInner
<1>6. pc'[t] = label
  BY <1>4 DEF Moves, Wakes
<1>7. \A d \in Clients, x \in Threads : InTeardown(x, d)' => InTeardown(x, d)
  BY <1>5, InnerTeardown DEF Inner
<1>8. JoinInv'
  <2>1. SUFFICES ASSUME NEW d \in Clients, NEW x \in Threads, InTeardown(x, d)'
                 PROVE  /\ x \notin SendThreads /\ pc'[x] \in {"joinRecv", "freeSock", "delete"}
                             => pc'[Send(d)] = "exited"
                        /\ x \notin RecvThreads /\ pc'[x] \in {"freeSock", "delete"}
                             => pc'[Recv(d)] = "exited"
    BY DEF JoinInv
  <2>2. InTeardown(x, d)
    BY <1>7, <2>1
  <2>3. /\ pc[Send(d)] = "exited" => pc'[Send(d)] = "exited"
        /\ pc[Recv(d)] = "exited" => pc'[Recv(d)] = "exited"
    BY <1>5 DEF Inner, RecvThreads, SendThreads
  <2>4. CASE x # t
    BY <1>5, <2>2, <2>3, <2>4 DEF IInv, JoinInv
  <2>5. CASE x = t
    <3>1. Target(t) = d
      BY <2>2, <2>5 DEF InTeardown
    <3>2. t \notin SendThreads /\ pc'[t] \in {"joinRecv", "freeSock", "delete"}
             => pc[Send(d)] = "exited"
      BY <1>4, <1>6, <2>2, <2>5, <3>1
         DEF IInv, JoinInv, JoinSend, JoinRecv, FreeClientSockData, At
    <3>3. t \notin RecvThreads /\ pc'[t] \in {"freeSock", "delete"} => pc[Recv(d)] = "exited"
      BY <1>4, <1>6, <2>2, <2>5, <3>1
         DEF IInv, JoinInv, JoinSend, JoinRecv, FreeClientSockData, At
    <3>4. QED
      BY <2>3, <2>5, <3>2, <3>3
  <2>6. QED
    BY <2>4, <2>5
<1>9. SockInv'
  <2>1. \A d \in Clients :
           sock'[d] = "freed" => sock[d] = "freed" \/ (d = Target(t) /\ FreeClientSockData(t))
    BY <1>3 DEF SetClosing, OnClosing, UseGoneEndpoint, WakeSender, InterruptSocket, JoinSend,
                JoinRecv, FreeClientSockData, TypeInv, TypeOK, DataOK
  <2>2. \A d \in Clients :
           d = Target(t) /\ FreeClientSockData(t) => pc'[t] = "delete" /\ InTeardown(t, d)'
    BY <1>0, <1>1, CloseMoves, Labels, InnerTeardown DEF Moves, InTeardown
  <2>3. \A x \in Threads : pc[x] = "delete" => pc'[x] = "delete"
    <3>1. SUFFICES ASSUME NEW x \in Threads, pc[x] = "delete" PROVE pc'[x] = "delete"
      OBVIOUS
    <3>2. x # t
      BY <1>4, <3>1
    <3>3. QED
      BY <1>4, <3>1, <3>2 DEF Moves, Wakes
  <2>4. \A d \in Clients, x \in Threads :
           InTeardown(x, d) /\ pc[x] = "delete" => InTeardown(x, d)' /\ pc'[x] = "delete"
    BY <1>1, <2>3, Labels, InnerTeardown
  <2>5. QED
    BY <1>1, <2>1, <2>2, <2>4 DEF IInv, SockInv
<1>10. QED
  BY <1>0, <1>5, <1>8, <1>9, InnerStep DEF IInv

LEMMA CloseOnceInv ==
    ASSUME TypeInv, IInv, NEW t \in Threads, CloseOnce(t)
    PROVE  IInv'
<1>0. PcOK /\ CurOK /\ Target(t) \in Clients /\ pc[t] = "once"
  BY ThreadFacts DEF CloseOnce, At, TypeInv, TypeOK, CurOK
<1>1. UNCHANGED <<webSocketClientList, listLock, obj, sock, cur, todo>>
  BY DEF CloseOnce, userVars
<1>2. Moves(t, IF obj[Target(t)] # "alive" THEN "undefined"
               ELSE IF closeStarted[Target(t)] THEN Return(t) ELSE "flag")
  BY <1>0, CloseMoves
<1>3. \A d \in Clients :
         closeStarted'[d] = (closeStarted[d] \/ (d = Target(t) /\ obj[d] = "alive"))
  BY <1>0 DEF CloseOnce, TypeInv, TypeOK, DataOK
<1>4. CASE obj[Target(t)] # "alive" \/ closeStarted[Target(t)]
  <2>1. PICK label \in {"undefined", "exited", "closeNext"} : Moves(t, label)
    BY <1>2, <1>4, ReturnLabel
  <2>2. closeStarted' = closeStarted
    BY <1>3, <1>4 DEF CloseOnce, TypeInv, TypeOK, DataOK
  <2>3. \A x \in Threads : pc'[x] = IF x = t THEN label ELSE pc[x]
    BY <2>1 DEF Moves
  <2>4. /\ {"once", "undefined", "exited", "closeNext"} \cap (LockPCs \cup TeardownPCs) = {}
        /\ {"joinRecv", "freeSock", "delete"} \subseteq TeardownPCs
    BY DEF LockPCs, TeardownPCs
  <2>5. /\ \A u \in Users :
              pc'[u] # pc[u] => pc[u] \notin LockPCs /\ pc'[u] \notin LockPCs
        /\ \A x \in Threads : pc'[x] \in TeardownPCs \/ pc[x] \in TeardownPCs => pc'[x] = pc[x]
        /\ \A x \in RecvThreads \cup SendThreads :
              /\ pc'[x] = "unborn" <=> pc[x] = "unborn"
              /\ pc[x] = "exited" => pc'[x] = "exited"
    BY <1>0, <2>3, <2>4, ThreadFacts DEF Threads
  <2>6. Inner
    BY <1>1, <2>2, <2>5 DEF Inner
  <2>7. JoinInv'
    BY <2>4, <2>5, <2>6, InnerJoin DEF IInv
  <2>8. SockInv'
    BY <1>1, <2>4, <2>5, InnerSock DEF IInv
  <2>9. QED
    BY <1>0, <2>6, <2>7, <2>8, InnerStep DEF IInv
<1>5. CASE obj[Target(t)] = "alive" /\ ~closeStarted[Target(t)]
  <2>1. \A x \in Threads : pc'[x] = IF x = t THEN "flag" ELSE pc[x]
    BY <1>2, <1>5 DEF Moves
  <2>2. "flag" \in TeardownPCs /\ "once" \notin TeardownPCs
    BY DEF TeardownPCs
  <2>3. /\ \A u \in Users : pc'[u] # pc[u] => pc[u] = "once" /\ pc'[u] = "flag"
        /\ \A x \in RecvThreads \cup SendThreads :
              /\ pc'[x] = "unborn" <=> pc[x] = "unborn"
              /\ pc[x] = "exited" => pc'[x] = "exited"
              /\ Running(x)' <=> Running(x)
    BY <1>0, <2>1, ThreadFacts DEF Threads, Running
  <2>4. \A x \in Threads, d \in Clients :
           /\ x # t => (InTeardown(x, d)' <=> InTeardown(x, d))
           /\ InTeardown(t, d)' <=> d = Target(t)
           /\ ~InTeardown(t, d)
    BY <1>0, <1>1, <2>1, <2>2 DEF InTeardown, Target
  <2>5. \A x \in Threads : ~InTeardown(x, Target(t))
    BY <1>0, <1>5 DEF IInv, TeardownInv
  <2>6. \A u \in Users, d \in Clients : Constructs(u, d)' <=> Constructs(u, d)
    BY <1>1, <2>3 DEF Constructs
  <2>7. LockInv'
    BY <1>1, <2>3 DEF IInv, LockInv, LockPCs
  <2>8. BirthInv'
    <3>1. \A d \in Clients : /\ pc'[Recv(d)] = "unborn" <=> pc[Recv(d)] = "unborn"
                            /\ pc'[Send(d)] = "unborn" <=> pc[Send(d)] = "unborn"
      BY <2>3, ThreadFacts
    <3>2. \A u \in Users : pc'[u] \in {"opening", "startSender"} => pc'[u] = pc[u]
      BY <2>3
    <3>3. \A u \in Users : pc[u] = "startSender" => cur[u] \in Clients
      BY <1>0 DEF CurOK
    <3>4. \A d \in Clients : obj[d] \in {"unborn", "refused"} => closeStarted'[d] = closeStarted[d]
      BY <1>3, <1>5 DEF TypeInv, TypeOK, DataOK
    <3>5. \A u \in Users : pc'[u] = "opening" => obj'[cur'[u]] = "unborn"
      BY <1>1, <3>2 DEF IInv, BirthInv
    <3>6. \A u \in Users : pc'[u] = "startSender" => pc'[Send(cur'[u])] = "unborn"
      BY <1>1, <3>1, <3>2, <3>3 DEF IInv, BirthInv
    <3>7. \A d \in Clients :
             obj'[d] \in {"unborn", "refused"} =>
                 pc'[Recv(d)] = "unborn" /\ pc'[Send(d)] = "unborn" /\ ~closeStarted'[d]
      BY <1>1, <3>1, <3>4 DEF IInv, BirthInv
    <3>8. QED
      BY <3>5, <3>6, <3>7 DEF BirthInv
  <2>9. AliveInv'
    BY <1>1, <2>3, <2>6, ThreadFacts DEF IInv, AliveInv
  <2>10. ListInv'
    <3>1. BroadcastInv'
      BY <1>1, <2>3 DEF IInv, ListInv, BroadcastInv
    <3>2. QED
      BY <1>1, <2>1, <2>4, <2>6, <3>1 DEF IInv, ListInv
  <2>11. TeardownInv'
    BY ZenonT(60), <1>1, <1>3, <1>5, <2>4, <2>5 DEF IInv, TeardownInv
  <2>12. JoinInv'
    BY <2>1, <2>3, <2>4, ThreadFacts DEF IInv, JoinInv
  <2>13. SockInv'
    BY <1>1, <2>1, <2>4 DEF IInv, SockInv
  <2>14. QED
    BY <2>7, <2>8, <2>9, <2>10, <2>11, <2>12, <2>13 DEF IInv
<1>6. QED
  BY <1>4, <1>5

\* removeClient() runs under the list mutex, so nobody broadcasts and nobody
\* is between the creation of a client and its listing.
LEMMA RemoveClientInv ==
    ASSUME TypeInv, IInv, NEW t \in Threads, RemoveClient(t)
    PROVE  IInv'
<1>0. /\ PcOK /\ CurOK /\ Target(t) \in Clients /\ pc[t] = "remove"
      /\ listLock = NoThread
  BY Labels, ThreadFacts DEF RemoveClient, At, TypeInv, TypeOK, CurOK
<1>1. /\ UNCHANGED <<listLock, obj, sock, closeStarted, cur, todo>>
      /\ webSocketClientList' = webSocketClientList \ {Target(t)}
  BY DEF RemoveClient, userVars, clientVars
<1>2. \A x \in Threads : pc'[x] = IF x = t THEN "onClosing" ELSE pc[x]
  BY <1>0, CloseMoves DEF Moves
<1>3. \A u \in Users : pc[u] \notin LockPCs
  BY <1>0, ThreadFacts DEF IInv, LockInv
<1>4. \A u \in Users : pc'[u] \notin LockPCs
  BY <1>2, <1>3, ThreadFacts DEF LockPCs
<1>5. \A u \in Users, d \in Clients : ~Constructs(u, d) /\ ~Constructs(u, d)'
  BY <1>3, <1>4 DEF Constructs, LockPCs
<1>6. \A x \in Threads, d \in Clients : InTeardown(x, d)' <=> InTeardown(x, d)
  BY <1>0, <1>1, <1>2, Labels DEF InTeardown, Target
<1>7. \A x \in RecvThreads \cup SendThreads :
         /\ pc'[x] = "unborn" <=> pc[x] = "unborn"
         /\ pc'[x] = "exited" <=> pc[x] = "exited"
         /\ Running(x)' <=> Running(x)
  BY <1>0, <1>2 DEF Threads, Running
<1>8. LockInv'
  BY <1>0, <1>1, <1>4, ThreadFacts DEF LockInv
<1>9. BirthInv'
  <2>1. \A u \in Users : pc'[u] \notin {"opening", "startSender"}
    BY <1>4 DEF LockPCs
  <2>2. QED
    BY <1>1, <1>7, <2>1, ThreadFacts DEF IInv, BirthInv
<1>10. AliveInv'
  BY <1>1, <1>5, <1>7, ThreadFacts DEF IInv, AliveInv
<1>11. ListInv'
  <2>1. BroadcastInv'
    BY <1>4 DEF BroadcastInv, LockPCs
  <2>2. \A d \in Clients, x \in Threads :
           InTeardown(x, d)' /\ d \in webSocketClientList' => pc'[x] \in {"flag", "remove"}
    BY <1>1, <1>2, <1>6 DEF IInv, ListInv, InTeardown
  <2>3. QED
    BY <1>5, <2>1, <2>2 DEF ListInv
<1>12. TeardownInv'
  BY <1>1, <1>6 DEF IInv, TeardownInv
<1>13. JoinInv'
  BY <1>2, <1>6, <1>7, ThreadFacts DEF IInv, JoinInv
<1>14. SockInv'
  BY <1>0, <1>1, <1>2, <1>6 DEF IInv, SockInv
<1>15. QED
  BY <1>8, <1>9, <1>10, <1>11, <1>12, <1>13, <1>14 DEF IInv

\* The joins have seen the other workers exit: nobody is left to use the
\* client, and its own worker exits.
LEMMA DeleteThisInv ==
    ASSUME TypeInv, IInv, NEW t \in Threads, DeleteThis(t)
    PROVE  IInv'
<1>. DEFINE c == Target(t)
<1>0. PcOK /\ CurOK /\ c \in Clients /\ pc[t] = "delete" /\ InTeardown(t, c)
  BY Labels, ThreadFacts DEF DeleteThis, At, TypeInv, TypeOK, CurOK, InTeardown
<1>1. /\ UNCHANGED <<webSocketClientList, listLock, sock, closeStarted, cur, todo>>
      /\ \A d \in Clients : obj'[d] = IF d = c THEN "freed" ELSE obj[d]
  BY <1>0 DEF DeleteThis, userVars, clientVars, TypeInv, TypeOK, DataOK
<1>2. \A x \in Threads : pc'[x] = IF x = t THEN Return(t) ELSE pc[x]
  BY <1>0, CloseMoves DEF Moves
<1>3. /\ Return(t) \notin TeardownPCs \cup LockPCs \cup {"unborn"}
      /\ "delete" \notin LockPCs
  BY DEF Return, TeardownPCs, LockPCs
<1>4. /\ obj[c] = "alive" /\ closeStarted[c] /\ c \notin webSocketClientList
      /\ \A u \in Users : ~Constructs(u, c)
      /\ \A x \in Threads : InTeardown(x, c) => x = t
      /\ t \notin SendThreads => pc[Send(c)] = "exited"
      /\ t \notin RecvThreads => pc[Recv(c)] = "exited"
  BY <1>0 DEF IInv, TeardownInv, ListInv, JoinInv
<1>5. \A u \in Users : pc'[u] # pc[u] => pc[u] \notin LockPCs /\ pc'[u] \notin LockPCs
  BY <1>0, <1>2, <1>3, ThreadFacts
<1>6. \A u \in Users, d \in Clients : Constructs(u, d)' <=> Constructs(u, d)
  BY <1>1, <1>5 DEF Constructs, LockPCs
<1>7. \A x \in Threads, d \in Clients :
         InTeardown(x, d)' <=> InTeardown(x, d) /\ x # t
  BY <1>1, <1>2, <1>3 DEF InTeardown, Target
<1>8. \A x \in RecvThreads \cup SendThreads :
         /\ pc'[x] = "unborn" <=> pc[x] = "unborn"
         /\ pc[x] = "exited" => pc'[x] = "exited"
         /\ Running(x)' => Running(x)
  <2>1. t \in RecvThreads \cup SendThreads => Return(t) = "exited"
    BY ReturnLabel, EndpointAssumption
  <2>2. QED
    BY <1>0, <1>2, <2>1 DEF Threads, Running
<1>9. \A d \in Clients : d = c => ~Running(Recv(d))' /\ ~Running(Send(d))'
  <2>1. t \notin Users => Return(t) = "exited"
    BY ReturnLabel
  <2>2. pc'[Send(c)] = "exited"
    <3>1. CASE t \in SendThreads
      <4>1. t = Send(c) /\ t \notin Users
        BY <3>1, ThreadFacts DEF SendThreads
      <4>2. QED
        BY <1>2, <2>1, <4>1
    <3>2. CASE t \notin SendThreads
      BY <1>0, <1>4, <1>8, <3>2, ThreadFacts
    <3>3. QED
      BY <3>1, <3>2
  <2>3. pc'[Recv(c)] = "exited"
    <3>1. CASE t \in RecvThreads
      <4>1. t = Recv(c) /\ t \notin Users
        BY <3>1, ThreadFacts DEF RecvThreads
      <4>2. QED
        BY <1>2, <2>1, <4>1
    <3>2. CASE t \notin RecvThreads
      BY <1>0, <1>4, <1>8, <3>2, ThreadFacts
    <3>3. QED
      BY <3>1, <3>2
  <2>4. QED
    BY <2>2, <2>3 DEF Running
<1>10. LockInv'
  BY <1>1, <1>5 DEF IInv, LockInv
<1>11. BirthInv'
  <2>1. \A d \in Clients : /\ pc'[Recv(d)] = "unborn" <=> pc[Recv(d)] = "unborn"
                          /\ pc'[Send(d)] = "unborn" <=> pc[Send(d)] = "unborn"
    BY <1>8, ThreadFacts
  <2>2. \A u \in Users : pc'[u] \in {"opening", "startSender"} =>
           pc'[u] = pc[u] /\ cur[u] \in Clients
    BY <1>0, <1>5 DEF CurOK, LockPCs
  <2>3. \A u \in Users : pc'[u] = "opening" => obj'[cur'[u]] = "unborn"
    BY <1>1, <1>4, <2>2 DEF IInv, BirthInv
  <2>4. \A u \in Users : pc'[u] = "startSender" => pc'[Send(cur'[u])] = "unborn"
    BY <1>1, <2>1, <2>2 DEF IInv, BirthInv
  <2>5. \A d \in Clients :
           obj'[d] \in {"unborn", "refused"} =>
               pc'[Recv(d)] = "unborn" /\ pc'[Send(d)] = "unborn" /\ ~closeStarted'[d]
    BY <1>1, <2>1 DEF IInv, BirthInv
  <2>6. QED
    BY <2>3, <2>4, <2>5 DEF BirthInv
<1>12. AliveInv'
  <2>1. SUFFICES ASSUME NEW d \in Clients,
                        \/ d \in webSocketClientList'
                        \/ Running(Recv(d))' \/ Running(Send(d))'
                        \/ \E u \in Users : Constructs(u, d)'
                 PROVE  obj'[d] = "alive"
    BY DEF AliveInv
  <2>2. d # c
    BY <1>1, <1>4, <1>6, <1>9, <2>1
  <2>3. \/ d \in webSocketClientList
        \/ Running(Recv(d)) \/ Running(Send(d))
        \/ \E u \in Users : Constructs(u, d)
    BY <1>1, <1>6, <1>8, <2>1, ThreadFacts
  <2>4. QED
    BY <1>1, <2>2, <2>3 DEF IInv, AliveInv
<1>13. ListInv'
  <2>1. BroadcastInv'
    BY <1>1, <1>5 DEF IInv, ListInv, BroadcastInv, LockPCs
  <2>2. QED
    BY <1>1, <1>2, <1>6, <1>7, <2>1 DEF IInv, ListInv
<1>14. TeardownInv'
  BY <1>1, <1>4, <1>7 DEF IInv, TeardownInv
<1>15. JoinInv'
  BY <1>2, <1>7, <1>8, ThreadFacts DEF IInv, JoinInv
<1>16. SockInv'
  <2>1. \A d \in Clients : InTeardown(t, d) => obj'[d] = "freed"
    BY <1>1 DEF InTeardown
  <2>2. \A d \in Clients : obj[d] \in {"refused", "freed"} => obj'[d] \in {"refused", "freed"}
    BY <1>1
  <2>3. QED
    BY <1>1, <1>2, <1>7, <2>1, <2>2 DEF IInv, SockInv
<1>17. QED
  BY <1>10, <1>11, <1>12, <1>13, <1>14, <1>15, <1>16 DEF IInv

-----------------------------------------------------------------------------
(* Steps of a user outside a teardown.                                     *)

\* u goes on outside the teardowns, the threads of a client are started or
\* woken, and no client dies.
Quiet(u) ==
    /\ pc[u] \notin TeardownPCs /\ pc'[u] \notin TeardownPCs
    /\ \A v \in Users : v # u => pc'[v] = pc[v] /\ cur'[v] = cur[v]
    /\ \A x \in RecvThreads \cup SendThreads :
         \/ pc'[x] = pc[x]
         \/ pc[x] = "waiting" /\ pc'[x] = "woken"
         \/ pc[x] = "unborn" /\ pc'[x] \in {"setup", "lock"}
    /\ UNCHANGED closeStarted
    /\ \A c \in Clients :
         /\ obj[c] \in {"alive", "refused", "freed"} => obj'[c] = obj[c]
         /\ sock'[c] = "freed" => sock[c] = "freed" \/ obj'[c] = "refused"

LEMMA QuietTeardown ==
    ASSUME TeardownInv, JoinInv, SockInv, NEW u \in Users, Quiet(u)
    PROVE  /\ \A x \in Threads : pc'[x] \in TeardownPCs \/ pc[x] \in TeardownPCs
                => pc'[x] = pc[x]
           /\ \A x \in Threads, c \in Clients : InTeardown(x, c)' <=> InTeardown(x, c)
           /\ TeardownInv' /\ JoinInv' /\ SockInv'
<1>1. {"waiting", "woken", "unborn", "setup", "lock"} \cap TeardownPCs = {}
  BY DEF TeardownPCs
<1>2. \A x \in Threads : pc'[x] \in TeardownPCs \/ pc[x] \in TeardownPCs => pc'[x] = pc[x]
  BY <1>1 DEF Quiet, Threads
<1>3. \A x \in Threads, c \in Clients : InTeardown(x, c)' <=> InTeardown(x, c)
  BY <1>2, ThreadFacts DEF Quiet, InTeardown, Target
<1>4. TeardownInv'
  BY <1>3 DEF TeardownInv, Quiet
<1>5. JoinInv'
  <2>1. \A x \in RecvThreads \cup SendThreads : pc[x] = "exited" => pc'[x] = "exited"
    BY DEF Quiet
  <2>2. \A x \in Threads, c \in Clients : InTeardown(x, c)' => pc'[x] = pc[x]
    BY <1>2 DEF InTeardown
  <2>3. QED
    BY <1>3, <2>1, <2>2, ThreadFacts DEF JoinInv
<1>6. SockInv'
  <2>1. \A x \in Threads : pc[x] = "delete" => pc'[x] = "delete"
    BY <1>2, Labels
  <2>2. QED
    BY <1>3, <2>1 DEF SockInv, Quiet
<1>7. QED
  BY <1>2, <1>3, <1>4, <1>5, <1>6

\* No client is created, and none enters the list.
LEMMA PlainStep ==
    ASSUME TypeInv, IInv, NEW u \in Users, Quiet(u),
           UNCHANGED <<obj, closeStarted>>,
           webSocketClientList' \subseteq webSocketClientList,
           pc[u] \notin {"startSender", "pushBack"},
           pc'[u] \notin {"startSender", "pushBack"},
           pc'[u] = "opening" => obj[cur'[u]] = "unborn",
           \A x \in RecvThreads \cup SendThreads : pc[x] = "unborn" => pc'[x] = "unborn",
           LockInv', BroadcastInv'
    PROVE  IInv'
<1>1. \A x \in RecvThreads \cup SendThreads :
         /\ pc'[x] = "unborn" <=> pc[x] = "unborn"
         /\ Running(x)' <=> Running(x)
  BY DEF Quiet, Running
<1>2. \A v \in Users, c \in Clients : Constructs(v, c)' <=> Constructs(v, c)
  BY DEF Quiet, Constructs
<1>3. BirthInv'
  <2>1. \A v \in Users : pc'[v] = "startSender" =>
           v # u /\ pc[v] = "startSender" /\ cur'[v] = cur[v] /\ cur[v] \in Clients
    BY DEF Quiet, TypeInv, CurOK
  <2>2. \A v \in Users : pc'[v] = "startSender" => pc'[Send(cur'[v])] = "unborn"
    BY <1>1, <2>1, ThreadFacts DEF IInv, BirthInv
  <2>3. \A v \in Users : pc'[v] = "opening" => obj'[cur'[v]] = "unborn"
    BY DEF Quiet, IInv, BirthInv
  <2>4. \A c \in Clients :
           obj'[c] \in {"unborn", "refused"} =>
               pc'[Recv(c)] = "unborn" /\ pc'[Send(c)] = "unborn" /\ ~closeStarted'[c]
    BY <1>1, ThreadFacts DEF IInv, BirthInv
  <2>5. QED
    BY <2>2, <2>3, <2>4 DEF BirthInv
<1>4. AliveInv'
  BY <1>1, <1>2, ThreadFacts DEF IInv, AliveInv
<1>5. /\ \A x \in Threads, c \in Clients : InTeardown(x, c)' => InTeardown(x, c) /\ pc'[x] = pc[x]
      /\ TeardownInv' /\ JoinInv' /\ SockInv'
  BY QuietTeardown DEF IInv, InTeardown
<1>6. ListInv'
  BY <1>2, <1>5 DEF IInv, ListInv
<1>7. QED
  BY <1>3, <1>4, <1>5, <1>6 DEF IInv

\* Under the mutex no other user is in one of its sections.
LEMMA Alone ==
    ASSUME LockInv, NEW u \in Users, listLock \in {NoThread, u}
    PROVE  \A v \in Users : v # u => pc[v] \notin LockPCs
BY ThreadFacts DEF LockInv

LEMMA MoveIsQuiet ==
    ASSUME NEW u \in Users, NEW label,
           Moves(u, label) \/ \E c \in Clients : Wakes(u, label, c),
           pc[u] \notin TeardownPCs, label \notin TeardownPCs,
           \A v \in Users : v # u => cur'[v] = cur[v],
           UNCHANGED <<obj, sock, closeStarted>>
    PROVE  /\ Quiet(u) /\ pc'[u] = label
           /\ \A v \in Users : v # u => pc'[v] = pc[v]
           /\ \A x \in RecvThreads \cup SendThreads : pc[x] = "unborn" => pc'[x] = "unborn"
<1>1. \A x \in Threads :
         /\ x = u => pc'[x] = label
         /\ x # u => pc'[x] = pc[x] \/ (x \in SendThreads /\ pc[x] = "waiting" /\ pc'[x] = "woken")
  <2>1. CASE Moves(u, label)
    BY <2>1 DEF Moves
  <2>2. ASSUME NEW c \in Clients, Wakes(u, label, c)
        PROVE  \A x \in Threads :
                 /\ x = u => pc'[x] = label
                 /\ x # u => \/ pc'[x] = pc[x]
                             \/ x \in SendThreads /\ pc[x] = "waiting" /\ pc'[x] = "woken"
    <3>1. Send(c) \in SendThreads
      BY ThreadFacts
    <3>2. QED
      BY <2>2, <3>1 DEF Wakes
  <2>3. QED
    BY <2>1, <2>2
<1>2. pc'[u] = label /\ \A v \in Users : v # u => pc'[v] = pc[v]
  BY <1>1, ThreadFacts
<1>3. \A x \in RecvThreads \cup SendThreads : x \in Threads /\ x # u
  BY ThreadFacts DEF Threads
<1>4. \A x \in RecvThreads \cup SendThreads :
         pc'[x] = pc[x] \/ (pc[x] = "waiting" /\ pc'[x] = "woken")
  BY <1>1, <1>3
<1>5. QED
  BY <1>2, <1>4 DEF Quiet

\* The calls that start at an idle user and find the mutex free.
LEMMA UserCallInv ==
    ASSUME TypeInv, IInv, NEW u \in Users, UserCall(u)
    PROVE  IInv'
<1>0. PcOK /\ CurOK
  BY DEF TypeInv, TypeOK
<1>1. /\ pc[u] = "idle" \/ Destruct(u)
      /\ listLock = NoThread
      /\ UNCHANGED <<obj, sock, closeStarted>>
  BY DEF UserCall, NewConnectionRequest, RemoveClientOf, SendBroadcast, RemoveAllClients,
         Destruct, At, clientVars
<1>2. pc[u] = "idle" /\ \A v \in Users : pc[v] \notin LockPCs
  BY <1>1, ThreadFacts DEF Destruct, At, IInv, LockInv
<1>3. \A v \in Users : v # u => cur'[v] = cur[v]
  BY DEF UserCall, NewConnectionRequest, RemoveClientOf, SendBroadcast, RemoveAllClients,
         Destruct, TypeInv, TypeOK, DataOK, userVars
<1>4. ASSUME NEW label \in {"opening", "enqueue", "closeNext"}, Moves(u, label)
      PROVE  /\ Quiet(u) /\ pc'[u] = label
             /\ \A v \in Users : v # u => pc'[v] = pc[v]
             /\ \A x \in RecvThreads \cup SendThreads : pc[x] = "unborn" => pc'[x] = "unborn"
  <2>1. "idle" \notin TeardownPCs /\ label \notin TeardownPCs
    BY DEF TeardownPCs
  <2>2. QED
    BY <1>1, <1>2, <1>3, <1>4, <2>1, MoveIsQuiet
<1>5. ASSUME NEW c \in Clients, NewConnectionRequest(u, c) PROVE IInv'
  <2>1. /\ Quiet(u) /\ pc'[u] = "opening"
        /\ \A v \in Users : v # u => pc'[v] = pc[v]
        /\ \A x \in RecvThreads \cup SendThreads : pc[x] = "unborn" => pc'[x] = "unborn"
    BY <1>0, <1>4, <1>5, UserCallMoves
  <2>2. /\ webSocketClientList' = webSocketClientList /\ listLock' = u
        /\ obj[cur'[u]] = "unborn"
    BY <1>5 DEF NewConnectionRequest, TypeInv, TypeOK, DataOK
  <2>3. LockInv' /\ BroadcastInv'
    BY <1>2, <2>1, <2>2 DEF LockInv, BroadcastInv, LockPCs
  <2>4. QED
    BY <1>1, <1>2, <2>1, <2>2, <2>3, PlainStep
<1>6. ASSUME NEW m \in Broadcasts, SendBroadcast(u, m) PROVE IInv'
  <2>1. /\ Quiet(u) /\ pc'[u] = "enqueue"
        /\ \A v \in Users : v # u => pc'[v] = pc[v]
        /\ \A x \in RecvThreads \cup SendThreads : pc[x] = "unborn" => pc'[x] = "unborn"
    BY <1>0, <1>4, <1>6, UserCallMoves
  <2>2. /\ webSocketClientList' = webSocketClientList /\ listLock' = u
        /\ todo'[u] = webSocketClientList
    BY <1>6 DEF SendBroadcast, TypeInv, TypeOK, DataOK
  <2>3. LockInv' /\ BroadcastInv'
    BY <1>2, <2>1, <2>2 DEF LockInv, BroadcastInv, LockPCs
  <2>4. QED
    BY <1>1, <1>2, <2>1, <2>2, <2>3, PlainStep
<1>7. ASSUME \/ \E c \in Clients : RemoveClientOf(u, c)
             \/ RemoveAllClients(u) \/ Destruct(u)
      PROVE  IInv'
  <2>1. /\ Quiet(u) /\ pc'[u] = "closeNext"
        /\ \A v \in Users : v # u => pc'[v] = pc[v]
        /\ \A x \in RecvThreads \cup SendThreads : pc[x] = "unborn" => pc'[x] = "unborn"
    BY <1>0, <1>4, <1>7, UserCallMoves
  <2>2. webSocketClientList' \subseteq webSocketClientList /\ listLock' = NoThread
    BY <1>1, <1>7 DEF RemoveClientOf, RemoveAllClients, Destruct
  <2>3. LockInv' /\ BroadcastInv'
    BY <1>2, <2>1, <2>2, ThreadFacts DEF LockInv, BroadcastInv, LockPCs
  <2>4. QED
    BY <1>1, <1>2, <2>1, <2>2, <2>3, PlainStep
<1>8. QED
  BY <1>5, <1>6, <1>7 DEF UserCall

\* The loop of a broadcast and the loop that closes detached clients.
LEMMA UserLoopInv ==
    ASSUME TypeInv, IInv, NEW u \in Users,
           \/ BroadcastPush(u) \/ BroadcastSignal(u) \/ BroadcastEnd(u)
           \/ CloseNext(u) \/ CloseDone(u)
    PROVE  IInv'
<1>0. PcOK /\ CurOK
  BY DEF TypeInv, TypeOK
<1>1. /\ pc[u] \in {"enqueue", "signal", "closeNext"}
      /\ UNCHANGED <<obj, sock, closeStarted, webSocketClientList>>
      /\ \A v \in Users : v # u => cur'[v] = cur[v] /\ todo'[v] = todo[v]
  BY DEF BroadcastPush, BroadcastSignal, BroadcastEnd, CloseNext, CloseDone, At,
         clientVars, userVars, TypeInv, TypeOK, DataOK
<1>2. PICK label \in {"enqueue", "signal", "idle", "once"} :
         /\ Moves(u, label) \/ \E c \in Clients : Wakes(u, label, c)
         /\ label \in {"enqueue", "signal"} =>
              pc[u] \in {"enqueue", "signal"} /\ listLock' = listLock
         /\ label = "idle" =>
              \/ pc[u] = "enqueue" /\ listLock' = NoThread
              \/ pc[u] = "closeNext" /\ listLock' = listLock
         /\ label = "once" => pc[u] = "closeNext" /\ listLock' = listLock
         /\ label = "signal" => cur'[u] \in todo[u]
         /\ label \in {"enqueue", "signal"} => todo'[u] \subseteq todo[u]
  <2>1. CASE BroadcastPush(u)
    <3>1. Moves(u, "signal") /\ pc[u] = "enqueue" /\ listLock' = listLock
      BY <1>0, <2>1, UserStepMoves DEF BroadcastPush, At
    <3>2. cur'[u] \in todo[u] /\ todo'[u] \subseteq todo[u]
      BY <2>1 DEF BroadcastPush, TypeInv, TypeOK, DataOK
    <3>3. QED
      BY <3>1, <3>2
  <2>2. CASE BroadcastSignal(u)
    <3>1. /\ Wakes(u, "enqueue", cur[u]) /\ pc[u] = "signal" /\ listLock' = listLock
          /\ todo' = todo
      BY <1>0, <2>2, UserStepMoves DEF BroadcastSignal, At
    <3>2. cur[u] \in Clients
      BY <1>0, <3>1 DEF CurOK
    <3>3. QED
      BY <3>1, <3>2
  <2>3. CASE BroadcastEnd(u)
    <3>1. Moves(u, "idle") /\ pc[u] = "enqueue" /\ listLock' = NoThread
      BY <1>0, <2>3, UserStepMoves DEF BroadcastEnd, At
    <3>2. QED
      BY <3>1
  <2>4. CASE CloseNext(u)
    <3>1. Moves(u, "once") /\ pc[u] = "closeNext" /\ listLock' = listLock
      BY <1>0, <2>4, UserStepMoves DEF CloseNext, At
    <3>2. QED
      BY <3>1
  <2>5. CASE CloseDone(u)
    <3>1. Moves(u, "idle") /\ pc[u] = "closeNext" /\ listLock' = listLock
      BY <1>0, <2>5, UserStepMoves DEF CloseDone, At
    <3>2. QED
      BY <3>1
  <2>6. QED
    BY <2>1, <2>2, <2>3, <2>4, <2>5
<1>3. {"enqueue", "signal", "closeNext", "idle", "once"} \cap TeardownPCs = {}
  BY DEF TeardownPCs
<1>4. /\ Quiet(u) /\ pc'[u] = label
      /\ \A v \in Users : v # u => pc'[v] = pc[v]
      /\ \A x \in RecvThreads \cup SendThreads : pc[x] = "unborn" => pc'[x] = "unborn"
  BY <1>1, <1>2, <1>3, MoveIsQuiet
<1>5. LockInv'
  <2>1. CASE label \in {"enqueue", "signal"}
    BY <1>2, <1>4, <2>1 DEF IInv, LockInv, LockPCs
  <2>2. CASE label = "idle" /\ pc[u] = "enqueue"
    <3>1. listLock = u /\ listLock' = NoThread
      BY <1>2, <2>2 DEF IInv, LockInv, LockPCs
    <3>2. \A v \in Users : pc'[v] \notin LockPCs
      BY <1>4, <2>2, <3>1, Alone DEF IInv, LockPCs
    <3>3. QED
      BY <3>1, <3>2, ThreadFacts DEF LockInv
  <2>3. CASE label \in {"idle", "once"} /\ pc[u] = "closeNext"
    BY <1>2, <1>4, <2>3 DEF IInv, LockInv, LockPCs
  <2>4. QED
    BY <1>2, <2>1, <2>2, <2>3
<1>6. BroadcastInv'
  <2>1. pc'[u] \in {"enqueue", "signal"} => todo[u] \subseteq webSocketClientList
    BY <1>2, <1>4 DEF IInv, ListInv, BroadcastInv
  <2>2. QED
    BY <1>1, <1>2, <1>4, <2>1 DEF IInv, ListInv, BroadcastInv
<1>7. QED
  BY <1>1, <1>2, <1>4, <1>5, <1>6, PlainStep

\* onOpening() refused the client: it never had a thread.
LEMMA RefuseInv ==
    ASSUME TypeInv, IInv, NEW u \in Users, Refuse(u)
    PROVE  IInv'
<1>. DEFINE c == cur[u]
<1>0. PcOK /\ CurOK /\ pc[u] = "opening" /\ c \in Clients /\ listLock = u
  BY DEF TypeInv, TypeOK, CurOK, Refuse, At, IInv, LockInv, LockPCs
<1>1. /\ UNCHANGED <<webSocketClientList, closeStarted, todo>>
      /\ listLock' = NoThread
      /\ \A v \in Users : v # u => cur'[v] = cur[v]
      /\ \A d \in Clients : obj'[d] = IF d = c THEN "refused" ELSE obj[d]
      /\ \A d \in Clients : sock'[d] = IF d = c THEN "freed" ELSE sock[d]
  BY <1>0 DEF Refuse, clientVars, TypeInv, TypeOK, DataOK
<1>2. \A x \in Threads : pc'[x] = IF x = u THEN "idle" ELSE pc[x]
  BY <1>0, UserStepMoves DEF Moves
<1>3. obj[c] = "unborn"
  BY <1>0 DEF IInv, BirthInv
<1>4. \A x \in RecvThreads \cup SendThreads : pc'[x] = pc[x]
  <2>1. \A x \in RecvThreads \cup SendThreads : x \in Threads /\ x # u
    BY ThreadFacts DEF Threads
  <2>2. QED
    BY <1>2, <2>1
<1>5. Quiet(u)
  <2>1. "opening" \notin TeardownPCs /\ "idle" \notin TeardownPCs
    BY DEF TeardownPCs
  <2>2. QED
    BY <1>0, <1>1, <1>2, <1>3, <1>4, <2>1, ThreadFacts DEF Quiet
<1>6. \A v \in Users : pc'[v] \notin LockPCs
  BY <1>0, <1>2, Alone, ThreadFacts DEF IInv, LockPCs
<1>7. LockInv' /\ BroadcastInv'
  BY <1>1, <1>6, ThreadFacts DEF LockInv, BroadcastInv, LockPCs
<1>8. BirthInv'
  BY <1>1, <1>3, <1>4, <1>6, ThreadFacts DEF IInv, BirthInv, LockPCs
<1>9. \A v \in Users, d \in Clients : ~Constructs(v, d)'
  BY <1>6 DEF Constructs, LockPCs
<1>10. AliveInv'
  BY <1>1, <1>3, <1>4, <1>9, ThreadFacts DEF IInv, AliveInv, Running
<1>11. /\ \A x \in Threads, d \in Clients : InTeardown(x, d)' => InTeardown(x, d) /\ pc'[x] = pc[x]
       /\ TeardownInv' /\ JoinInv' /\ SockInv'
  BY <1>5, QuietTeardown DEF IInv, InTeardown
<1>12. ListInv'
  BY <1>1, <1>7, <1>9, <1>11 DEF IInv, ListInv
<1>13. QED
  BY <1>7, <1>8, <1>10, <1>11, <1>12 DEF IInv

\* The constructor creates R and then S; nothing has closed the client, and
\* something may close it from here on.
LEMMA StartInv ==
    ASSUME TypeInv, IInv, NEW u \in Users, StartReceiver(u) \/ StartSender(u)
    PROVE  IInv'
<1>. DEFINE c == cur[u]
<1>0. /\ PcOK /\ CurOK /\ c \in Clients /\ listLock = u
      /\ pc[u] \in {"opening", "startSender"}
  BY DEF TypeInv, TypeOK, CurOK, StartReceiver, StartSender, At, IInv, LockInv, LockPCs
<1>1. UNCHANGED <<webSocketClientList, listLock, sock, closeStarted, cur, todo>>
  BY DEF StartReceiver, StartSender, userVars, clientVars
<1>2. PICK w \in {Recv(c), Send(c)}, label \in {"startSender", "pushBack"} :
         /\ pc'[u] = label
         /\ w = Recv(c) <=> label = "startSender"
         /\ pc[w] = "unborn" /\ pc'[w] \in {"setup", "lock"}
         /\ \A x \in Threads : x # u /\ x # w => pc'[x] = pc[x]
         /\ label = "startSender" => pc[u] = "opening" /\ pc[Send(c)] = "unborn" /\ obj[c] = "unborn"
         /\ label = "pushBack" => pc[u] = "startSender" /\ obj[c] = "alive"
         /\ \A d \in Clients : obj'[d] = IF d = c THEN "alive" ELSE obj[d]
  <2>1. CASE StartReceiver(u)
    <3>1. /\ pc'[u] = "startSender" /\ pc'[Recv(c)] = "setup"
          /\ \A x \in Threads : x # u /\ x # Recv(c) => pc'[x] = pc[x]
      BY <1>0, <2>1, StartMoves, ThreadFacts
    <3>2. pc[u] = "opening" /\ obj[c] = "unborn"
      BY <2>1 DEF StartReceiver, At, IInv, BirthInv
    <3>3. pc[Recv(c)] = "unborn" /\ pc[Send(c)] = "unborn"
      BY <1>0, <3>2 DEF IInv, BirthInv
    <3>4. \A d \in Clients : obj'[d] = IF d = c THEN "alive" ELSE obj[d]
      BY <1>0, <2>1 DEF StartReceiver, TypeInv, TypeOK, DataOK
    <3>5. Recv(c) # Send(c)
      BY <1>0, ThreadFacts
    <3>6. QED
      BY <3>1, <3>2, <3>3, <3>4, <3>5
  <2>2. CASE StartSender(u)
    <3>1. /\ pc'[u] = "pushBack" /\ pc'[Send(c)] = "lock"
          /\ \A x \in Threads : x # u /\ x # Send(c) => pc'[x] = pc[x]
      BY <1>0, <2>2, StartMoves, ThreadFacts
    <3>2. pc[u] = "startSender" /\ pc[Send(c)] = "unborn"
      BY <2>2 DEF StartSender, At, IInv, BirthInv
    <3>3. obj[c] = "alive" /\ obj' = obj
      BY <1>0, <2>2, <3>2 DEF StartSender, IInv, AliveInv, Constructs
    <3>4. Recv(c) # Send(c)
      BY <1>0, ThreadFacts
    <3>5. QED
      BY <3>1, <3>2, <3>3, <3>4
  <2>3. QED
    BY <2>1, <2>2
<1>3. w \in RecvThreads \cup SendThreads /\ w \notin Users
  BY <1>0, ThreadFacts
<1>4. \A v \in Users : v # u => pc'[v] = pc[v] /\ pc'[v] \notin LockPCs
  BY <1>0, <1>2, <1>3, Alone, ThreadFacts DEF IInv
<1>5. \A x \in RecvThreads \cup SendThreads : x # w => pc'[x] = pc[x]
  <2>1. \A x \in RecvThreads \cup SendThreads : x \in Threads /\ x # u
    BY ThreadFacts DEF Threads
  <2>2. QED
    BY <1>2, <2>1
<1>6. Quiet(u)
  <2>1. {"opening", "startSender", "pushBack"} \cap TeardownPCs = {}
    BY DEF TeardownPCs
  <2>2. \A x \in RecvThreads \cup SendThreads :
           \/ pc'[x] = pc[x]
           \/ pc[x] = "unborn" /\ pc'[x] \in {"setup", "lock"}
    BY <1>2, <1>5
  <2>3. \A d \in Clients : obj[d] \in {"alive", "refused", "freed"} => obj'[d] = obj[d]
    BY <1>2
  <2>4. QED
    BY <1>0, <1>1, <1>2, <1>4, <2>1, <2>2, <2>3 DEF Quiet
<1>7. LockInv'
  BY <1>0, <1>1, <1>2, <1>4 DEF IInv, LockInv, LockPCs
<1>8. BroadcastInv'
  BY <1>1, <1>2, <1>4 DEF BroadcastInv, LockPCs
<1>9. BirthInv'
  <2>1. \A v \in Users : pc'[v] # "opening"
    BY <1>2, <1>4 DEF LockPCs
  <2>2. \A v \in Users : pc'[v] = "startSender" => pc'[Send(cur'[v])] = "unborn"
    <3>1. SUFFICES ASSUME NEW v \in Users, pc'[v] = "startSender"
                   PROVE  pc'[Send(cur'[v])] = "unborn"
      OBVIOUS
    <3>2. v = u /\ w = Recv(c)
      BY <1>2, <1>4, <3>1 DEF LockPCs
    <3>3. pc'[Send(c)] = pc[Send(c)] /\ pc[Send(c)] = "unborn"
      BY <1>0, <1>2, <1>5, <3>1, <3>2, ThreadFacts
    <3>4. QED
      BY <1>1, <3>2, <3>3
  <2>3. \A d \in Clients : d # c => Recv(d) # w /\ Send(d) # w
    BY <1>0, ThreadFacts
  <2>4. \A d \in Clients :
           obj'[d] \in {"unborn", "refused"} =>
               pc'[Recv(d)] = "unborn" /\ pc'[Send(d)] = "unborn" /\ ~closeStarted'[d]
    BY <1>1, <1>2, <1>5, <2>3, ThreadFacts DEF IInv, BirthInv
  <2>5. QED
    BY <2>1, <2>2, <2>4 DEF BirthInv
<1>10. \A v \in Users, d \in Clients :
         /\ v # u => ~Constructs(v, d)'
         /\ Constructs(u, d)' <=> d = c
  BY <1>1, <1>2, <1>4 DEF Constructs, LockPCs
<1>11. AliveInv'
  <2>1. \A d \in Clients : d # c =>
           (Running(Recv(d))' <=> Running(Recv(d))) /\ (Running(Send(d))' <=> Running(Send(d)))
    BY <1>0, <1>5, ThreadFacts DEF Running
  <2>2. QED
    BY <1>1, <1>2, <1>10, <2>1 DEF IInv, AliveInv
<1>12. /\ \A x \in Threads, d \in Clients : InTeardown(x, d)' => InTeardown(x, d) /\ pc'[x] = pc[x]
       /\ TeardownInv' /\ JoinInv' /\ SockInv'
  BY <1>6, QuietTeardown DEF IInv, InTeardown
<1>13. ListInv'
  <2>1. \A x \in Threads : InTeardown(x, c) => pc[x] \in {"flag", "remove"}
    <3>1. CASE label = "startSender"
      BY <1>0, <1>2, <3>1 DEF IInv, TeardownInv
    <3>2. CASE label = "pushBack"
      BY <1>0, <1>2, <3>2 DEF IInv, ListInv, Constructs
    <3>3. QED
      BY <3>1, <3>2
  <2>2. QED
    BY <1>1, <1>8, <1>10, <1>12, <2>1 DEF IInv, ListInv
<1>14. QED
  BY <1>7, <1>9, <1>11, <1>12, <1>13 DEF IInv

LEMMA PushBackInv ==
    ASSUME TypeInv, IInv, NEW u \in Users, PushBack(u)
    PROVE  IInv'
<1>. DEFINE c == cur[u]
<1>0. PcOK /\ CurOK /\ pc[u] = "pushBack" /\ c \in Clients /\ listLock = u
  BY DEF TypeInv, TypeOK, CurOK, PushBack, At, IInv, LockInv, LockPCs
<1>1. /\ UNCHANGED <<obj, sock, closeStarted, todo>>
      /\ webSocketClientList' = webSocketClientList \cup {c} /\ listLock' = NoThread
      /\ \A v \in Users : v # u => cur'[v] = cur[v]
  BY <1>0 DEF PushBack, clientVars, TypeInv, TypeOK, DataOK
<1>2. Moves(u, "idle")
  BY <1>0, UserStepMoves
<1>3. /\ Quiet(u) /\ pc'[u] = "idle"
      /\ \A v \in Users : v # u => pc'[v] = pc[v]
      /\ \A x \in RecvThreads \cup SendThreads : pc[x] = "unborn" => pc'[x] = "unborn"
  <2>1. "pushBack" \notin TeardownPCs /\ "idle" \notin TeardownPCs
    BY DEF TeardownPCs
  <2>2. QED
    BY <1>0, <1>1, <1>2, <2>1, MoveIsQuiet
<1>4. \A v \in Users : pc'[v] \notin LockPCs
  BY <1>0, <1>3, Alone DEF IInv, LockPCs
<1>5. \A x \in RecvThreads \cup SendThreads :
         /\ pc'[x] = "unborn" <=> pc[x] = "unborn"
         /\ Running(x)' <=> Running(x)
  BY <1>3 DEF Quiet, Running
<1>6. LockInv' /\ BroadcastInv'
  BY <1>1, <1>4, ThreadFacts DEF LockInv, BroadcastInv, LockPCs
<1>7. BirthInv'
  BY <1>1, <1>4, <1>5, ThreadFacts DEF IInv, BirthInv, LockPCs
<1>8. Constructs(u, c) /\ \A v \in Users, d \in Clients : ~Constructs(v, d)'
  BY <1>0, <1>4 DEF Constructs, LockPCs
<1>9. AliveInv'
  BY <1>0, <1>1, <1>5, <1>8, ThreadFacts DEF IInv, AliveInv
<1>10. /\ \A x \in Threads, d \in Clients : InTeardown(x, d)' => InTeardown(x, d) /\ pc'[x] = pc[x]
       /\ TeardownInv' /\ JoinInv' /\ SockInv'
  BY <1>3, QuietTeardown DEF IInv, InTeardown
<1>11. ListInv'
  <2>1. \A d \in Clients : d \in webSocketClientList' =>
           d \in webSocketClientList \/ \E v \in Users : Constructs(v, d)
    BY <1>1, <1>8
  <2>2. QED
    BY <1>6, <1>8, <1>10, <2>1 DEF IInv, ListInv
<1>12. QED
  BY <1>6, <1>7, <1>9, <1>10, <1>11 DEF IInv

LEMMA IInvNext == TypeInv /\ IInv /\ [Next]_vars => IInv'
<1> SUFFICES ASSUME TypeInv, IInv, [Next]_vars PROVE IInv'
  OBVIOUS
<1>1. ASSUME NEW u \in Users, UserCall(u) \/ UserStep(u) PROVE IInv'
  BY <1>1, UserCallInv, RefuseInv, StartInv, PushBackInv, UserLoopInv DEF UserStep
<1>2. ASSUME NEW t \in Threads, CloseStep(t) PROVE IInv'
  BY <1>2, CloseOnceInv, RemoveClientInv, CloseStepInv, DeleteThisInv DEF CloseStep
<1>3. ASSUME NEW c \in Clients, RecvStep(c) \/ SendStep(c) \/ Peer(c) \/ SpuriousWakeup(c)
      PROVE  IInv'
  BY <1>3, RecvSendInner
<1>4. CASE UNCHANGED vars
  <2>1. UNCHANGED <<webSocketClientList, listLock, obj, sock, closeStarted, pc, cur, todo>>
    BY <1>4 DEF vars, clientVars, userVars
  <2>2. \A t \in Threads, c \in Clients : InTeardown(t, c)' <=> InTeardown(t, c)
    BY <2>1 DEF InTeardown, Target
  <2>3. QED
    BY <2>1, <2>2 DEF IInv, LockInv, BirthInv, AliveInv, ListInv, BroadcastInv, TeardownInv,
                      JoinInv, SockInv, Constructs, Running
<1>5. QED
  BY <1>1, <1>2, <1>3, <1>4 DEF Next

LEMMA Invariance == Spec => [](TypeInv /\ IInv)
<1>1. Init => TypeInv /\ IInv
  BY TypeInit, IInvInit
<1>2. TypeInv /\ IInv /\ [Next]_vars => (TypeInv /\ IInv)'
  BY TypeNext, IInvNext
<1>3. QED
  BY <1>1, <1>2, PTL DEF Spec

-----------------------------------------------------------------------------

(* Whatever closes a client, its worker threads, the thread that constructs *)
(* it and every thread that broadcasts to it run on a live WebSocketClient: *)
(* finalizeClose() joins the workers, and removeClient() waits for the list *)
(* mutex, before `delete this'.                                             *)
THEOREM LiveClient == Spec => []LiveWhileUsed
<1>1. TypeInv /\ IInv => LiveWhileUsed
  <2>1. SUFFICES ASSUME TypeInv, IInv, NEW c \in Clients,
                        \/ Running(Recv(c)) \/ Running(Send(c))
                        \/ c \in webSocketClientList
                        \/ \E u \in Users : Visiting(u, c)
                 PROVE  obj[c] = "alive"
    BY DEF LiveWhileUsed
  <2>2. ASSUME NEW u \in Users, Visiting(u, c)
        PROVE  c \in webSocketClientList \/ Constructs(u, c)
    BY <2>1, <2>2 DEF Visiting, Constructs, IInv, ListInv, BroadcastInv
  <2>3. QED
    BY <2>1, <2>2 DEF IInv, AliveInv
<1>2. QED
  BY <1>1, Invariance, PTL

(* closeWS(), closeSend() and closeRecv() may race: closeOnce() lets one    *)
(* thread through, so a client has at most one teardown, which runs on a    *)
(* live client.                                                             *)
THEOREM OneTeardown == Spec => []TeardownOnce
<1>1. TypeInv /\ IInv => TeardownOnce
  BY DEF IInv, TeardownInv, TeardownOnce
<1>2. QED
  BY <1>1, Invariance, PTL

(* freeClientSockData() comes after the joins: the receiving thread never   *)
(* calls recv(), nor the sending thread send(), on a freed socket.          *)
THEOREM SocketOutlivesIO == Spec => []SockLiveDuringIO
<1>1. TypeInv /\ IInv => SockLiveDuringIO
  <2>1. SUFFICES ASSUME TypeInv, IInv, NEW c \in Clients, sock[c] = "freed",
                        pc[Recv(c)] \in {"setup", "recv"} \/ pc[Send(c)] = "send"
                 PROVE  FALSE
    BY DEF SockLiveDuringIO
  <2>2. obj[c] = "alive"
    BY <2>1 DEF IInv, AliveInv, Running
  <2>3. PICK t \in Threads : InTeardown(t, c) /\ pc[t] = "delete"
    BY <2>1, <2>2 DEF IInv, SockInv
  <2>4. /\ t \notin SendThreads => pc[Send(c)] = "exited"
        /\ t \notin RecvThreads => pc[Recv(c)] = "exited"
    BY <2>1, <2>3 DEF IInv, JoinInv
  <2>5. t \in SendThreads => t = Send(c)
    BY <2>3, ThreadFacts DEF InTeardown, SendThreads
  <2>6. t \in RecvThreads => t = Recv(c)
    BY <2>3, ThreadFacts DEF InTeardown, RecvThreads
  <2>7. CASE pc[Recv(c)] \in {"setup", "recv"}
    <3>1. t \in RecvThreads
      BY <2>3, <2>4, <2>7
    <3>2. QED
      BY <2>3, <2>6, <2>7, <3>1
  <2>8. CASE pc[Send(c)] = "send"
    <3>1. t \in SendThreads
      BY <2>3, <2>4, <2>8
    <3>2. QED
      BY <2>3, <2>5, <2>8, <3>1
  <2>9. QED
    BY <2>1, <2>7, <2>8
<1>2. QED
  BY <1>1, Invariance, PTL

-----------------------------------------------------------------------------
(* No client is forgotten.  NoOrphan is not inductive: a closer whom        *)
(* closeOnce() refuses drops its client, so that whoever set closeStarted   *)
(* must be known to be at work still.                                       *)

\* Some thread has used a client or an endpoint that was gone.
Lost == \E t \in Threads : pc[t] = "undefined"

\* closeOnce() refuses a second closer because the first is at work, or done.
StartedInv ==
    \A c \in Clients : closeStarted[c] =>
        obj[c] = "freed" \/ Lost \/ \E t \in Threads : InTeardown(t, c)

\* t closes c, will close it, or will list it.
Minds(t, c) ==
    \/ InTeardown(t, c)
    \/ t \in Users /\ (Detached(t, c) \/ Constructs(t, c))

OrphanInv ==
    \A c \in Clients : obj[c] = "alive" /\ c \notin webSocketClientList =>
        Lost \/ \E t \in Threads : Minds(t, c)

\* Where a thread has a client to mind, and where it is lost.
Settled == TeardownPCs \cup {"once", "closeNext", "startSender", "pushBack", "undefined"}

\* A step of t moves no other thread from there.
Stays(t) == \A x \in Threads : x # t /\ pc[x] \in Settled => pc'[x] = pc[x]

\* A step of t: no other thread forgets its clients, and t forgets one only if
\* it lists it, frees it, or finds it in the teardown of another thread.
LEMMA OrphanFrame ==
    ASSUME StartedInv, OrphanInv, NEW t \in Threads, pc[t] # "undefined",
           Stays(t), \A x \in Users : x # t => cur'[x] = cur[x] /\ todo'[x] = todo[x],
           \A c \in Clients :
               /\ obj[c] = "freed" => obj'[c] = "freed"
               /\ closeStarted'[c] => closeStarted[c] \/ InTeardown(t, c)'
               /\ InTeardown(t, c) => InTeardown(t, c)' \/ pc'[t] = "undefined" \/ obj'[c] = "freed"
               /\ obj'[c] = "alive" /\ c \notin webSocketClientList'
                    => \/ Minds(t, c)' \/ closeStarted'[c] \/ pc'[t] = "undefined"
                       \/ obj[c] = "alive" /\ c \notin webSocketClientList /\ ~Minds(t, c)
    PROVE  StartedInv' /\ OrphanInv'
<1>1. \A x \in Threads, c \in Clients : x # t =>
         (InTeardown(x, c) => InTeardown(x, c)') /\ (Minds(x, c) => Minds(x, c)')
  <2> SUFFICES ASSUME NEW x \in Threads, NEW c \in Clients, x # t
               PROVE  (InTeardown(x, c) => InTeardown(x, c)') /\ (Minds(x, c) => Minds(x, c)')
    OBVIOUS
  <2>1. InTeardown(x, c) => InTeardown(x, c)'
    BY DEF InTeardown, Target, Stays, Settled
  <2>2. x \in Users /\ Detached(x, c) => Detached(x, c)'
    BY DEF Detached, Stays, Settled
  <2>3. x \in Users /\ Constructs(x, c) => Constructs(x, c)'
    BY DEF Constructs, Stays, Settled
  <2>4. QED
    BY <2>1, <2>2, <2>3 DEF Minds
<1>2. Lost => Lost'
  BY DEF Lost, Stays, Settled
<1>3. pc'[t] = "undefined" => Lost'
  BY DEF Lost
<1>4. StartedInv'
  <2> SUFFICES ASSUME NEW c \in Clients, closeStarted'[c], obj'[c] # "freed", ~Lost'
               PROVE  \E x \in Threads : InTeardown(x, c)'
    BY DEF StartedInv
  <2>1. CASE ~closeStarted[c]
    BY <2>1
  <2>2. CASE closeStarted[c]
    <3>1. PICK x \in Threads : InTeardown(x, c)
      BY <1>2, <2>2 DEF StartedInv
    <3>2. CASE x = t
      BY <1>3, <3>1, <3>2
    <3>3. CASE x # t
      BY <1>1, <3>1, <3>3
    <3>4. QED
      BY <3>2, <3>3
  <2>3. QED
    BY <2>1, <2>2
<1>5. OrphanInv'
  <2> SUFFICES ASSUME NEW c \in Clients, obj'[c] = "alive", c \notin webSocketClientList', ~Lost'
               PROVE  \E x \in Threads : Minds(x, c)'
    BY DEF OrphanInv
  <2>1. CASE closeStarted'[c]
    <3>1. PICK x \in Threads : InTeardown(x, c)'
      BY <1>4, <2>1 DEF StartedInv
    <3>2. QED
      BY <3>1 DEF Minds
  <2>2. CASE Minds(t, c)'
    BY <2>2
  <2>3. CASE obj[c] = "alive" /\ c \notin webSocketClientList /\ ~Minds(t, c)
    <3>1. PICK x \in Threads : Minds(x, c)
      BY <1>2, <2>3 DEF OrphanInv
    <3>2. QED
      BY <1>1, <2>3, <3>1
  <2>4. QED
    BY <1>3, <2>1, <2>2, <2>3
<1>6. QED
  BY <1>4, <1>5

\* What Moves and Wakes leave alone.
LEMMA OthersStay ==
    ASSUME NEW t \in Threads, NEW label,
           Moves(t, label) \/ \E c \in Clients : Wakes(t, label, c)
    PROVE  pc'[t] = label /\ Stays(t)
BY DEF Moves, Wakes, TeardownPCs, Settled, Stays

LEMMA OrphanUserCall ==
    ASSUME TypeInv, IInv, StartedInv, OrphanInv, NEW u \in Users, UserCall(u)
    PROVE  StartedInv' /\ OrphanInv'
<1>0. PcOK /\ CurOK /\ DataOK /\ u \in Threads
  BY ThreadFacts DEF TypeInv, TypeOK
<1>1. ASSUME NEW c \in Clients, NewConnectionRequest(u, c) PROVE StartedInv' /\ OrphanInv'
  <2>1. pc[u] = "idle" /\ pc'[u] = "opening" /\ Stays(u)
    BY <1>0, <1>1, UserCallMoves, OthersStay DEF NewConnectionRequest, At
  <2>2. QED
    BY <1>0, <1>1, <2>1, OrphanFrame, ThreadFacts
       DEF NewConnectionRequest, Minds, InTeardown, Detached, Constructs, TeardownPCs, DataOK, clientVars
<1>2. ASSUME NEW m \in Broadcasts, SendBroadcast(u, m) PROVE StartedInv' /\ OrphanInv'
  <2>1. pc[u] = "idle" /\ pc'[u] = "enqueue" /\ Stays(u)
    BY <1>0, <1>2, UserCallMoves, OthersStay DEF SendBroadcast, At
  <2>2. QED
    BY <1>0, <1>2, <2>1, OrphanFrame, ThreadFacts
       DEF SendBroadcast, Minds, InTeardown, Detached, Constructs, TeardownPCs, DataOK, clientVars
<1>3. ASSUME \/ \E c \in Clients : RemoveClientOf(u, c)
             \/ RemoveAllClients(u) \/ Destruct(u)
      PROVE  StartedInv' /\ OrphanInv'
  <2>1. pc[u] = "idle" /\ pc'[u] = "closeNext" /\ Stays(u)
    BY <1>0, <1>3, UserCallMoves, OthersStay DEF RemoveClientOf, RemoveAllClients, Destruct, At
  <2>2. /\ UNCHANGED <<obj, closeStarted, cur>>
        /\ \A v \in Users : v # u => todo'[v] = todo[v]
        /\ todo'[u] = webSocketClientList \ webSocketClientList'
    BY <1>0, <1>3 DEF RemoveClientOf, RemoveAllClients, Destruct, clientVars, DataOK
  <2>3. QED
    BY <1>0, <2>1, <2>2, OrphanFrame, ThreadFacts
       DEF Minds, InTeardown, Detached, Constructs, TeardownPCs
<1>4. QED
  BY <1>1, <1>2, <1>3 DEF UserCall

LEMMA OrphanUserStep ==
    ASSUME TypeInv, IInv, StartedInv, OrphanInv, NEW u \in Users, UserStep(u)
    PROVE  StartedInv' /\ OrphanInv'
<1>0. PcOK /\ CurOK /\ DataOK /\ u \in Threads
  BY ThreadFacts DEF TypeInv, TypeOK
<1>1. CASE Refuse(u)
  <2>1. pc[u] = "opening" /\ pc'[u] = "idle" /\ Stays(u) /\ obj[cur[u]] = "unborn" /\ cur[u] \in Clients
    BY <1>0, <1>1, UserStepMoves, OthersStay DEF Refuse, At, IInv, BirthInv, CurOK
  <2>2. /\ UNCHANGED <<webSocketClientList, closeStarted, todo>>
        /\ \A v \in Users : v # u => cur'[v] = cur[v]
        /\ \A d \in Clients : obj'[d] = IF d = cur[u] THEN "refused" ELSE obj[d]
    BY <1>0, <1>1, <2>1 DEF Refuse, DataOK, clientVars
  <2>3. \A d \in Clients : ~Minds(u, d)
    BY <2>1, ThreadFacts DEF Minds, InTeardown, Detached, Constructs, TeardownPCs
  <2>4. QED
    BY <1>0, <2>1, <2>2, <2>3, OrphanFrame DEF Minds
<1>2. CASE StartReceiver(u)
  <2>1. pc[u] = "opening" /\ pc'[u] = "startSender" /\ obj[cur[u]] = "unborn" /\ cur[u] \in Clients
    BY ZenonT(60), <1>0, <1>2, StartMoves DEF StartReceiver, At, IInv, BirthInv, CurOK
  <2>2. Stays(u)
    BY <1>0, <1>2, <2>1, StartMoves, ThreadFacts DEF IInv, BirthInv, TeardownPCs, Stays, Settled
  <2>3. /\ UNCHANGED <<webSocketClientList, closeStarted, cur, todo>>
        /\ \A d \in Clients : obj'[d] = IF d = cur[u] THEN "alive" ELSE obj[d]
    BY <1>0, <1>2, <2>1 DEF StartReceiver, DataOK, clientVars, userVars
  <2>4. \A d \in Clients : ~Minds(u, d)
    BY <2>1, ThreadFacts DEF Minds, InTeardown, Detached, Constructs, TeardownPCs
  <2>5. Minds(u, cur[u])'
    BY <2>1, <2>3 DEF Minds, Constructs
  <2>6. QED
    BY <1>0, <2>1, <2>2, <2>3, <2>4, <2>5, OrphanFrame DEF Minds
<1>3. CASE StartSender(u)
  <2>1. pc[u] = "startSender" /\ pc'[u] = "pushBack" /\ pc[Send(cur[u])] = "unborn" /\ cur[u] \in Clients
    BY ZenonT(60), <1>0, <1>3, StartMoves DEF StartSender, At, IInv, BirthInv, CurOK
  <2>2. Stays(u)
    BY <1>0, <1>3, <2>1, StartMoves, ThreadFacts DEF TeardownPCs, Stays, Settled
  <2>3. QED
    BY <1>0, <1>3, <2>1, <2>2, OrphanFrame, ThreadFacts
       DEF StartSender, Minds, InTeardown, Detached, Constructs, TeardownPCs, DataOK, clientVars, userVars
<1>4. CASE PushBack(u)
  <2>1. pc[u] = "pushBack" /\ pc'[u] = "idle" /\ Stays(u) /\ cur[u] \in Clients
    BY <1>0, <1>4, UserStepMoves, OthersStay DEF PushBack, At, CurOK
  <2>2. QED
    BY <1>0, <1>4, <2>1, OrphanFrame, ThreadFacts
       DEF PushBack, Minds, InTeardown, Detached, Constructs, TeardownPCs, DataOK, clientVars
<1>5. CASE BroadcastPush(u)
  <2>1. pc[u] = "enqueue" /\ pc'[u] = "signal" /\ Stays(u)
    BY <1>0, <1>5, UserStepMoves, OthersStay DEF BroadcastPush, At
  <2>2. QED
    BY <1>0, <1>5, <2>1, OrphanFrame, ThreadFacts
       DEF BroadcastPush, Minds, InTeardown, Detached, Constructs, TeardownPCs, DataOK, clientVars
<1>6. CASE BroadcastSignal(u)
  <2>1. pc[u] = "signal" /\ pc'[u] = "enqueue" /\ Stays(u)
    BY <1>0, <1>6, UserStepMoves, OthersStay DEF BroadcastSignal, At, CurOK
  <2>2. QED
    BY <1>0, <1>6, <2>1, OrphanFrame, ThreadFacts
       DEF BroadcastSignal, Minds, InTeardown, Detached, Constructs, TeardownPCs, DataOK, clientVars
<1>7. CASE BroadcastEnd(u)
  <2>1. pc[u] = "enqueue" /\ pc'[u] = "idle" /\ Stays(u)
    BY <1>0, <1>7, UserStepMoves, OthersStay DEF BroadcastEnd, At
  <2>2. QED
    BY <1>0, <1>7, <2>1, OrphanFrame, ThreadFacts
       DEF BroadcastEnd, Minds, InTeardown, Detached, Constructs, TeardownPCs, DataOK, clientVars
<1>8. CASE CloseNext(u)
  <2>1. pc[u] = "closeNext" /\ pc'[u] = "once" /\ Stays(u)
    BY <1>0, <1>8, UserStepMoves, OthersStay DEF CloseNext, At
  <2>2. /\ UNCHANGED <<webSocketClientList, obj, closeStarted>>
        /\ \A v \in Users : v # u => cur'[v] = cur[v] /\ todo'[v] = todo[v]
        /\ todo[u] \subseteq todo'[u] \cup {cur'[u]}
    BY <1>0, <1>8 DEF CloseNext, DataOK, clientVars
  <2>3. \A d \in Clients : /\ Minds(u, d) => Minds(u, d)'
                          /\ ~InTeardown(u, d)
    BY <2>1, <2>2, ThreadFacts DEF Minds, InTeardown, Detached, Constructs, TeardownPCs
  <2>4. pc[u] # "undefined" /\ u \in Threads
    BY <1>0, <2>1
  <2>5. QED
    BY <2>1, <2>2, <2>3, <2>4, OrphanFrame
<1>9. CASE CloseDone(u)
  <2>1. pc[u] = "closeNext" /\ pc'[u] = "idle" /\ Stays(u)
    BY <1>0, <1>9, UserStepMoves, OthersStay DEF CloseDone, At
  <2>2. QED
    BY <1>0, <1>9, <2>1, OrphanFrame, ThreadFacts
       DEF CloseDone, Minds, InTeardown, Detached, Constructs, TeardownPCs, DataOK, clientVars, userVars
<1>10. QED
  BY <1>1, <1>2, <1>3, <1>4, <1>5, <1>6, <1>7, <1>8, <1>9 DEF UserStep

LEMMA OrphanClose ==
    ASSUME TypeInv, IInv, StartedInv, OrphanInv, NEW t \in Threads, CloseStep(t)
    PROVE  StartedInv' /\ OrphanInv'
<1>0. PcOK /\ CurOK /\ DataOK
  BY DEF TypeInv, TypeOK
<1>1. /\ UNCHANGED <<cur, todo>> /\ Target(t)' = Target(t)
      /\ pc[t] \in TeardownPCs \cup {"once"} => Target(t) \in Clients
  BY ThreadFacts, CloseStepMoves DEF CloseStep, CloseOnce, SetClosing, RemoveClient, OnClosing, UseGoneEndpoint, WakeSender,
         InterruptSocket, JoinSend, JoinRecv, FreeClientSockData, DeleteThis, userVars,
         TypeInv, CurOK, Target
<1>2. Stays(t) /\ pc[t] \in TeardownPCs \cup {"once"} /\ Target(t) \in Clients
  BY <1>0, <1>1, CloseStepMoves, OthersStay
<1>3. CASE CloseOnce(t)
  <2>1. /\ pc[t] = "once"
        /\ pc'[t] = IF obj[Target(t)] # "alive" THEN "undefined"
                                   ELSE IF closeStarted[Target(t)] THEN Return(t)
                                   ELSE "flag"
    BY <1>0, <1>3, CloseMoves, OthersStay DEF CloseOnce, At
  <2>2. /\ UNCHANGED <<webSocketClientList, obj>>
        /\ \A d \in Clients : closeStarted'[d] <=>
              closeStarted[d] \/ (d = Target(t) /\ obj[d] = "alive")
    BY <1>0, <1>2, <1>3 DEF CloseOnce, DataOK
  <2>3. \A d \in Clients : ~InTeardown(t, d)
    BY <2>1 DEF InTeardown, TeardownPCs
  <2>4. \A d \in Clients : pc'[t] = "flag" /\ d = Target(t) => InTeardown(t, d)'
    BY <1>1 DEF InTeardown, TeardownPCs
  <2>5. ASSUME NEW d \in Clients, Minds(t, d)
        PROVE  d = Target(t) \/ Minds(t, d)' \/ pc'[t] = "undefined"
    <3>1. t \in Users /\ (d = cur[t] \/ d \in todo[t])
      BY <2>1, <2>3, <2>5 DEF Minds, Detached, Constructs, TeardownPCs
    <3>2. d # Target(t) => d \in todo'[t]
      BY <1>1, <3>1, ThreadFacts
    <3>3. pc'[t] \in {"undefined", "closeNext"} \cup TeardownPCs
      BY <2>1, <3>1, ReturnLabel DEF TeardownPCs
    <3>4. QED
      BY <3>1, <3>2, <3>3 DEF Minds, Detached
  <2>6. pc'[t] \in {"flag", "undefined"} \/ closeStarted[Target(t)]
    BY <2>1
  <2>7. ASSUME NEW d \in Clients
        PROVE  /\ obj[d] = "freed" => obj'[d] = "freed"
               /\ closeStarted'[d] => closeStarted[d] \/ InTeardown(t, d)'
               /\ InTeardown(t, d) => InTeardown(t, d)' \/ pc'[t] = "undefined" \/ obj'[d] = "freed"
               /\ obj'[d] = "alive" /\ d \notin webSocketClientList'
                    => \/ Minds(t, d)' \/ closeStarted'[d] \/ pc'[t] = "undefined"
                       \/ obj[d] = "alive" /\ d \notin webSocketClientList /\ ~Minds(t, d)
    <3>1. closeStarted'[d] => closeStarted[d] \/ InTeardown(t, d)'
      <4>1. CASE d = Target(t) /\ obj[d] = "alive" /\ ~closeStarted[d]
        BY <2>1, <2>4, <4>1
      <4>2. QED
        BY <2>2, <4>1
    <3>2. QED
      BY <2>2, <2>3, <2>5, <3>1
  <2>8. QED
    BY <1>1, <1>2, <2>1, <2>7, OrphanFrame, ThreadFacts
<1>4. CASE RemoveClient(t)
  <2>1. pc[t] = "remove" /\ pc'[t] = "onClosing"
    BY <1>0, <1>4, CloseMoves, OthersStay DEF RemoveClient, At
  <2>2. QED
    BY <1>0, <1>1, <1>2, <1>4, <2>1, OrphanFrame, ThreadFacts
       DEF RemoveClient, Minds, InTeardown, Detached, Constructs, TeardownPCs, clientVars
<1>5. CASE DeleteThis(t)
  <2>1. pc[t] = "delete" /\ pc'[t] = Return(t)
    BY <1>0, <1>5, CloseMoves, OthersStay DEF DeleteThis, At
  <2>2. /\ UNCHANGED <<webSocketClientList, closeStarted>>
        /\ \A d \in Clients : obj'[d] = IF d = Target(t) THEN "freed" ELSE obj[d]
    BY <1>0, <1>2, <1>5 DEF DeleteThis, DataOK, clientVars
  <2>3. \A d \in Clients : InTeardown(t, d) => d = Target(t)
    BY DEF InTeardown
  <2>4. \A d \in Clients : Minds(t, d) => d = Target(t) \/ Minds(t, d)'
    BY <1>1, <2>1, <2>3, ReturnLabel, ThreadFacts DEF Minds, Detached, Constructs, TeardownPCs
  <2>5. QED
    BY <1>0, <1>1, <1>2, <2>1, <2>2, <2>3, <2>4, OrphanFrame
<1>6. CASE \/ SetClosing(t) \/ OnClosing(t) \/ UseGoneEndpoint(t) \/ WakeSender(t)
           \/ InterruptSocket(t) \/ JoinSend(t) \/ JoinRecv(t) \/ FreeClientSockData(t)
  <2>1. pc[t] \in TeardownPCs /\ pc'[t] \in TeardownPCs \cup {"undefined"}
    BY <1>0, <1>2, <1>6, CloseMoves, OthersStay
       DEF SetClosing, OnClosing, UseGoneEndpoint, WakeSender, InterruptSocket, JoinSend,
           JoinRecv, FreeClientSockData, At, TeardownPCs
  <2>2. UNCHANGED <<obj, closeStarted, webSocketClientList>>
    BY <1>6 DEF SetClosing, OnClosing, UseGoneEndpoint, WakeSender, InterruptSocket, JoinSend,
           JoinRecv, FreeClientSockData, clientVars
  <2>3. QED
    BY <1>0, <1>1, <1>2, <2>1, <2>2, OrphanFrame, ThreadFacts
       DEF Minds, InTeardown, Detached, Constructs, TeardownPCs
<1>7. QED
  BY <1>3, <1>4, <1>5, <1>6 DEF CloseStep

LEMMA OrphanWorker ==
    ASSUME TypeInv, IInv, StartedInv, OrphanInv, NEW c \in Clients,
           RecvStep(c) \/ SendStep(c) \/ Peer(c) \/ SpuriousWakeup(c)
    PROVE  StartedInv' /\ OrphanInv'
<1>0. PcOK
  BY DEF TypeInv, TypeOK
<1>1. UNCHANGED <<obj, closeStarted, webSocketClientList, cur, todo>>
  BY DEF RecvStep, RecvSetup, RecvLoop, RecvError, RecvInterrupted, RecvAnswer, RecvSignal,
     SendStep, SendLock, SendCheck, SendWait, SendMessage, SendFailed, SpuriousWakeup,
     Peer, PeerShutdown, PeerReset, RecvFrame, clientVars, userVars, RecvOnly, SendOnly
<1>2. \A x \in Threads : 
         pc[x] \in Settled
           => pc'[x] = pc[x]
  <2>1. CASE RecvStep(c) \/ RecvFrame(c)
    BY ZenonT(60), <1>0, <2>1, RecvMoves, ThreadFacts, OthersStay DEF RecvWork, TeardownPCs, Stays, Settled
  <2>2. CASE SendStep(c) \/ SpuriousWakeup(c)
    BY <1>0, <2>2, SendMoves, ThreadFacts, OthersStay DEF SendWork, TeardownPCs, Stays, Settled
  <2>3. CASE PeerShutdown(c) \/ PeerReset(c)
    BY <2>3 DEF PeerShutdown, PeerReset
  <2>4. QED
    BY <2>1, <2>2, <2>3 DEF Peer
<1>3. \A x \in Threads, d \in Clients :
         (InTeardown(x, d) => InTeardown(x, d)') /\ (Minds(x, d) => Minds(x, d)')
  BY <1>1, <1>2 DEF InTeardown, Minds, Detached, Constructs, Target, Settled
<1>4. QED
  BY <1>1, <1>2, <1>3 DEF StartedInv, OrphanInv, Lost, Settled

LEMMA OrphanInvariance == Spec => [](StartedInv /\ OrphanInv)
<1>1. Init => StartedInv /\ OrphanInv
  BY DEF Init, StartedInv, OrphanInv
<1>2. TypeInv /\ IInv /\ StartedInv /\ OrphanInv /\ [Next]_vars => (StartedInv /\ OrphanInv)'
  <2> SUFFICES ASSUME TypeInv, IInv, StartedInv, OrphanInv, [Next]_vars
               PROVE  StartedInv' /\ OrphanInv'
    OBVIOUS
  <2>1. CASE UNCHANGED vars
    BY <2>1 DEF vars, clientVars, userVars, StartedInv, OrphanInv, Lost, Minds, InTeardown,
                Detached, Constructs, Target
  <2>2. QED
    BY <2>1, OrphanUserCall, OrphanUserStep, OrphanClose, OrphanWorker DEF Next
<1>3. QED
  BY <1>1, <1>2, Invariance, PTL DEF Spec

\* Every way out of the list leads through a teardown: who unlists a client closes
\* it, and who is refused by closeOnce() leaves it to a teardown under way.
THEOREM NoneForgotten == Spec => []NoOrphan
<1>1. OrphanInv => NoOrphan
  <2> SUFFICES ASSUME OrphanInv, NEW c \in Clients, obj[c] = "alive", c \notin webSocketClientList
               PROVE  \/ \E t \in Threads : InTeardown(t, c) \/ pc[t] = "undefined"
                      \/ \E u \in Users : Detached(u, c) \/ Visiting(u, c)
    BY DEF NoOrphan
  <2>1. QED
    BY DEF OrphanInv, Lost, Minds, Constructs, Visiting
<1>2. QED
  BY <1>1, OrphanInvariance, PTL

(***************************************************************************)
(* WebSocketEndpoint implements OrderedBroadcast                           *)
(***************************************************************************)

-----------------------------------------------------------------------------
(* Sequences.                                                              *)

LEMMA Concat ==
    ASSUME NEW S, NEW p \in Seq(S), NEW q \in Seq(S), NEW r \in Seq(S)
    PROVE  /\ p \o q \in Seq(S)
           /\ p \o <<>> = p /\ <<>> \o p = p
           /\ (p \o q) \o r = p \o (q \o r)
           /\ \A m \in S : Append(p, m) = p \o <<m>>
<1>1. p \o q \in Seq(S)
  BY ConcatProperties
<1>2. p \o <<>> = p /\ <<>> \o p = p
  BY ConcatEmptySeq
<1>3. (p \o q) \o r = p \o (q \o r)
  BY SMTT(60), ConcatAssociative
<1>4. \A m \in S : Append(p, m) = p \o <<m>>
  BY AppendIsConcat
<1>5. QED
  BY <1>1, <1>2, <1>3, <1>4

LEMMA First ==
    ASSUME NEW S, NEW m \in S, NEW q \in Seq(S)
    PROVE  /\ <<m>> \o q # <<>> /\ Len(<<m>> \o q) >= 1
           /\ Head(<<m>> \o q) = m /\ Tail(<<m>> \o q) = q
           /\ SubSeq(<<m>> \o q, 1, 1) = <<m>>
<1> DEFINE s == <<m>> \o q
<1>1. <<m>> \in Seq(S) /\ Len(<<m>>) = 1 /\ <<m>>[1] = m
  OBVIOUS
<1>2. s \in Seq(S) /\ Len(s) = 1 + Len(q)
  BY <1>1, ConcatProperties
<1>3. \A i \in 1..Len(s) : s[i] = IF i <= 1 THEN m ELSE q[i - 1]
  BY <1>1, <1>2, ConcatProperties
<1>4. Len(q) \in Nat
  BY LenProperties
<1>5. s # <<>> /\ Len(s) >= 1 /\ s[1] = m
  BY <1>2, <1>3, <1>4
<1>6. Head(s) = m
  BY <1>2, <1>5
<1>7. Tail(s) = q
  BY <1>2, <1>3, <1>4, <1>5, HeadTailProperties, SeqEqual
<1>8. SubSeq(s, 1, 1) = <<m>>
  <2>1. /\ SubSeq(s, 1, 1) \in Seq(S) /\ Len(SubSeq(s, 1, 1)) = 1
        /\ SubSeq(s, 1, 1)[1] = s[1]
    BY <1>5, SubSeqProperties
  <2>2. \A i \in 1..Len(SubSeq(s, 1, 1)) : SubSeq(s, 1, 1)[i] = <<m>>[i]
    BY <1>1, <1>5, <2>1
  <2>3. QED
    BY <1>1, <2>1, <2>2, SeqEqual
<1>9. QED
  BY <1>5, <1>6, <1>7, <1>8

LEMMA Rest ==
    ASSUME NEW S, NEW q \in Seq(S), q # <<>>
    PROVE  Head(q) \in S /\ Tail(q) \in Seq(S) /\ <<Head(q)>> \o Tail(q) = q
<1>1. Head(q) \in S /\ Tail(q) \in Seq(S) /\ Len(q) \in Nat \ {0}
  BY HeadTailProperties, EmptySeq
<1>2. <<Head(q)>> \in Seq(S) /\ Len(<<Head(q)>>) = 1 /\ <<Head(q)>>[1] = q[1]
  BY <1>1
<1>3. Len(Tail(q)) = Len(q) - 1 /\ \A i \in 1..Len(Tail(q)) : Tail(q)[i] = q[i + 1]
  BY HeadTailProperties
<1>4. QED
  BY <1>1, <1>2, <1>3, ConcatProperties, SeqEqual

LEMMA Parts ==
    ASSUME NEW S, NEW p \in Seq(S), NEW q \in Seq(S)
    PROVE  /\ Len(p) \in 0..Len(p \o q)
           /\ SubSeq(p \o q, 1, Len(p)) = p
           /\ SubSeq(p \o q, Len(p) + 1, Len(p \o q)) = q
<1>1. /\ p \o q \in Seq(S) /\ Len(p \o q) = Len(p) + Len(q)
      /\ \A i \in 1..Len(p) + Len(q) : (p \o q)[i] = IF i <= Len(p) THEN p[i] ELSE q[i - Len(p)]
  BY ConcatProperties
<1>2. Len(p) \in Nat /\ Len(q) \in Nat
  BY LenProperties
<1>3. \A i \in 1..Len(p \o q) : (p \o q)[i] \in S
  BY <1>1, ElementOfSeq
<1>4. SubSeq(p \o q, 1, Len(p)) = p
  <2>1. /\ SubSeq(p \o q, 1, Len(p)) \in Seq(S)
        /\ Len(SubSeq(p \o q, 1, Len(p))) = IF 1 <= Len(p) THEN Len(p) - 1 + 1 ELSE 0
        /\ \A i \in 1..Len(p) - 1 + 1 : SubSeq(p \o q, 1, Len(p))[i] = (p \o q)[1 + i - 1]
    BY <1>1, <1>2, <1>3, SubSeqProperties
  <2>2. QED
    BY <1>1, <1>2, <2>1, SeqEqual
<1>5. SubSeq(p \o q, Len(p) + 1, Len(p \o q)) = q
  <2> DEFINE s == SubSeq(p \o q, Len(p) + 1, Len(p \o q))
  <2>1. /\ s \in Seq(S)
        /\ Len(s) = IF Len(p) + 1 <= Len(p \o q) THEN Len(p \o q) - (Len(p) + 1) + 1 ELSE 0
        /\ \A i \in 1..Len(p \o q) - (Len(p) + 1) + 1 : s[i] = (p \o q)[Len(p) + 1 + i - 1]
    BY <1>1, <1>2, <1>3, SubSeqProperties
  <2>2. Len(s) = Len(q) /\ \A i \in 1..Len(q) : s[i] = q[i]
    BY <1>1, <1>2, <2>1
  <2>3. QED
    BY <2>1, <2>2, SeqEqual
<1>6. QED
  BY <1>1, <1>2, <1>4, <1>5

-----------------------------------------------------------------------------
(* The steps of the promise, in terms of the endpoint.                     *)

\* The promise sees nothing of d change.
Same(d) == Phase(d)' = Phase(d) /\ Pending(d)' = Pending(d)

SameBut(c) == \A d \in Clients \ {c} : Same(d)

LEMMA AsStutter ==
    ASSUME started' = started, wire' = wire, \A d \in Clients : Same(d)
    PROVE  UNCHANGED Promise!vars
BY DEF Promise!vars, Same

LEMMA AsJoin ==
    ASSUME NEW c \in Clients, SameBut(c), started' = started, wire' = wire,
           Phase(c) = "outside", Phase(c)' = "member", Pending(c)' = Pending(c)
    PROVE  Promise!Join(c)
BY DEF Promise!Join, Same, SameBut

LEMMA AsAnswer ==
    ASSUME NEW c \in Clients, SameBut(c), started' = started, wire' = wire,
           Phase(c) \in {"outside", "member", "leaving"}, Phase(c)' = Phase(c),
           Len(Pending(c)') > Len(Pending(c)),
           NEW a \in {Pong, Close}, NEW i \in 0..Len(Pending(c)),
           Pending(c)' = SubSeq(Pending(c), 1, i) \o <<a>>
                         \o SubSeq(Pending(c), i + 1, Len(Pending(c)))
    PROVE  Promise!Answer(c)
BY DEF Promise!Answer, Same, SameBut

LEMMA AsReceive ==
    ASSUME NEW c \in Clients, SameBut(c), started' = started,
           Phase(c)' = Phase(c), Pending(c) # <<>>, Pending(c)' = Tail(Pending(c)),
           wire' = IF Head(Pending(c)) \in {Pong, Close} THEN wire
                   ELSE [wire EXCEPT ![c] = Append(@, Head(Pending(c)))]
    PROVE  Promise!Receive(c)
BY DEF Promise!Receive, Same, SameBut

LEMMA AsEnd ==
    ASSUME NEW c \in Clients, SameBut(c), started' = started, wire' = wire,
           Phase(c) \in {"outside", "member", "leaving"}, Phase(c)' = "closing",
           NEW n \in {0, 1}, n <= Len(Pending(c)),
           Pending(c)' = SubSeq(Pending(c), 1, n)
    PROVE  Promise!EndConnection(c)
BY DEF Promise!EndConnection, Same, SameBut

LEMMA AsLose ==
    ASSUME NEW c \in Clients, SameBut(c), started' = started, wire' = wire,
           Phase(c) = "closing", Phase(c)' = "closing",
           Pending(c) # <<>>, Pending(c)' = <<>>
    PROVE  Promise!Lose(c)
BY DEF Promise!Lose, Same, SameBut

LEMMA AsVanish ==
    ASSUME NEW c \in Clients, SameBut(c), started' = started, wire' = wire,
           Phase(c) \in {"outside", "closing"}, Phase(c)' = "gone",
           Pending(c) = <<>>, Pending(c)' = <<>>
    PROVE  Promise!Vanish(c)
BY DEF Promise!Vanish, Same, SameBut

LEMMA AsLeave ==
    ASSUME NEW cs \in SUBSET Clients, cs # {}, started' = started, wire' = wire,
           \A d \in Clients : /\ Pending(d)' = Pending(d)
                              /\ d \in cs => Phase(d) = "member" /\ Phase(d)' = "leaving"
                              /\ d \notin cs => Phase(d)' = Phase(d)
    PROVE  Promise!Leave(cs)
BY DEF Promise!Leave

LEMMA AsBroadcast ==
    ASSUME NEW m \in Broadcasts, m \notin started, started' = started \cup {m}, wire' = wire,
           \A d \in Clients :
               /\ Phase(d)' = Phase(d)
               /\ Pending(d)' = IF Phase(d) = "member" THEN Append(Pending(d), m) ELSE Pending(d)
    PROVE  Promise!Broadcast(m)
BY DEF Promise!Broadcast

-----------------------------------------------------------------------------
(* What the refinement needs to know beyond the lifetime invariant.        *)

\* A teardown has set closing before it unlists the client.
ClosingInv ==
    \A c \in Clients : \A t \in Threads :
        InTeardown(t, c) /\ pc[t] # "flag" => closing[c]

\* A connection that is not a client yet has nothing queued.
FreshInv == \A c \in Clients : obj[c] = "unborn" => ~closing[c] /\ sendingQueue[c] = <<>>

\* S holds a message only while it sends it.
HandInv == \A c \in Clients : pc[Send(c)] # "send" => hand[c] = NoMsg

ViewInv == ClosingInv /\ FreshInv /\ HandInv

\* What most steps do: no teardown begins or ends, and no client changes.
LEMMA ViewFrame ==
    ASSUME ViewInv, NEW t \in Threads,
           \A x \in Threads : x # t =>
               /\ pc'[x] \in TeardownPCs \cup {"send"} <=> pc[x] \in TeardownPCs \cup {"send"}
               /\ pc[x] \in TeardownPCs \cup {"send"} => pc'[x] = pc[x]
               /\ Target(x)' = Target(x),
           \A c \in Clients : InTeardown(t, c)' /\ pc'[t] # "flag" => closing'[c],
           pc'[t] # "send" => \A c \in Clients : t = Send(c) => hand'[c] = NoMsg,
           \A c \in Clients :
               /\ closing[c] => closing'[c]
               /\ t # Send(c) => hand'[c] = hand[c]
               /\ obj'[c] = "unborn" => /\ obj[c] = "unborn"
                                        /\ closing'[c] = closing[c]
                                        /\ sendingQueue'[c] = sendingQueue[c]
    PROVE  ViewInv'
<1>1. ClosingInv'
  BY DEF ViewInv, ClosingInv, InTeardown
<1>2. FreshInv'
  BY DEF ViewInv, FreshInv
<1>3. HandInv'
  BY ThreadFacts DEF ViewInv, HandInv
<1>4. QED
  BY <1>1, <1>2, <1>3 DEF ViewInv

\* What Moves and Wakes do to the other threads.
LEMMA OthersView ==
    ASSUME NEW t \in Threads, NEW label,
           Moves(t, label) \/ \E c \in Clients : Wakes(t, label, c),
           \A v \in Users : v # t => cur'[v] = cur[v]
    PROVE  /\ pc'[t] = label
           /\ \A x \in Threads : x # t =>
               /\ pc'[x] \in TeardownPCs \cup {"send"} <=> pc[x] \in TeardownPCs \cup {"send"}
               /\ pc[x] \in TeardownPCs \cup {"send"} => pc'[x] = pc[x]
               /\ Target(x)' = Target(x)
BY DEF Moves, Wakes, TeardownPCs, Target

LEMMA ViewUser ==
    ASSUME TypeInv, IInv, ViewInv, NEW u \in Users, UserCall(u) \/ UserStep(u)
    PROVE  ViewInv'
<1>0. PcOK /\ CurOK /\ DataOK /\ u \in Threads /\ \A c \in Clients : u # Send(c)
  BY ThreadFacts DEF TypeInv, TypeOK
<1>1. /\ \A v \in Users : v # u => cur'[v] = cur[v]
      /\ UNCHANGED <<closing, hand>>
  BY <1>0 DEF UserCall, NewConnectionRequest, RemoveClientOf, SendBroadcast, RemoveAllClients,
         Destruct, UserStep, Refuse, StartReceiver, StartSender, PushBack, BroadcastPush,
         BroadcastSignal, BroadcastEnd, CloseNext, CloseDone, DataOK, userVars, clientVars, queueVars
<1>2. \A c \in Clients :
         obj'[c] = "unborn" => obj[c] = "unborn" /\ sendingQueue'[c] = sendingQueue[c]
  <2>1. CASE BroadcastPush(u)
    <3>1. PICK c \in todo[u] : Push(c, msg[u])
      BY <2>1 DEF BroadcastPush
    <3>2. obj[c] = "alive" /\ obj' = obj /\ c \in Clients
      BY <1>0, <2>1, <3>1 DEF BroadcastPush, At, IInv, ListInv, BroadcastInv, AliveInv, DataOK
    <3>3. QED
      BY <1>0, <3>1, <3>2 DEF Push, DataOK
  <2>2. CASE UserCall(u)
    BY <2>2 DEF UserCall, NewConnectionRequest, RemoveClientOf, SendBroadcast, RemoveAllClients,
         Destruct, queueVars
  <2>3. CASE Refuse(u) \/ StartReceiver(u)
    BY <1>0, <2>3 DEF Refuse, StartReceiver, At, CurOK, DataOK, queueVars
  <2>4. QED
    BY <2>1, <2>2, <2>3 DEF UserStep, StartSender, PushBack,
         BroadcastSignal, BroadcastEnd, CloseNext, CloseDone, queueVars
<1>3. /\ \A x \in Threads : x # u =>
               /\ pc'[x] \in TeardownPCs \cup {"send"} <=> pc[x] \in TeardownPCs \cup {"send"}
               /\ pc[x] \in TeardownPCs \cup {"send"} => pc'[x] = pc[x]
               /\ Target(x)' = Target(x)
      /\ pc'[u] \notin TeardownPCs
  <2>1. {"opening", "closeNext", "enqueue", "idle", "signal", "once", "startSender", "pushBack"}
           \cap TeardownPCs = {}
    BY DEF TeardownPCs
  <2>2. CASE UserCall(u)
    BY <1>0, <1>1, <2>1, <2>2, UserCallMoves, OthersView DEF UserCall
  <2>3. CASE StartReceiver(u) \/ StartSender(u)
    <3>1. /\ pc[Recv(cur[u])] = "unborn" \/ StartSender(u)
          /\ pc[Send(cur[u])] = "unborn" \/ StartReceiver(u)
          /\ cur[u] \in Clients
      BY <1>0, <2>3 DEF StartReceiver, StartSender, At, CurOK, IInv, BirthInv
    <3>2. \A x \in Threads : x # u =>
              pc'[x] = pc[x] \/ (pc[x] = "unborn" /\ pc'[x] \in {"setup", "lock"})
      BY <1>0, <2>3, <3>1, StartMoves, ThreadFacts
    <3>3. pc'[u] \in {"startSender", "pushBack"}
      BY <1>0, <2>3, StartMoves
    <3>4. \A x \in Threads : x # u => Target(x)' = Target(x)
      BY <1>1 DEF Target
    <3>5. QED
      BY <2>1, <3>2, <3>3, <3>4 DEF TeardownPCs
  <2>4. CASE BroadcastSignal(u)
    BY ZenonT(60), <1>0, <1>1, <2>1, <2>4, UserStepMoves, OthersView DEF BroadcastSignal, At, CurOK
  <2>5. QED
    BY <1>0, <1>1, <2>1, <2>2, <2>3, <2>4, UserStepMoves, OthersView DEF UserStep
<1>4. QED
  BY <1>0, <1>1, <1>2, <1>3, ViewFrame DEF InTeardown

LEMMA ViewClose ==
    ASSUME TypeInv, IInv, ViewInv, NEW t \in Threads, CloseStep(t)
    PROVE  ViewInv'
<1>0. PcOK /\ CurOK /\ DataOK
  BY DEF TypeInv, TypeOK
<1>1. UNCHANGED <<cur, hand>>
  BY DEF CloseStep, CloseOnce, SetClosing, RemoveClient, OnClosing, UseGoneEndpoint, WakeSender,
         InterruptSocket, JoinSend, JoinRecv, FreeClientSockData, DeleteThis, userVars, queueVars
<1>2. pc[t] \in TeardownPCs \cup {"once"} /\ Target(t) \in Clients /\ Target(t)' = Target(t)
  BY <1>0, <1>1, CloseStepMoves, ThreadFacts DEF CurOK, Target
<1>3. PICK label \in TeardownPCs \cup {Return(t), "undefined"} :
         Moves(t, label) \/ Wakes(t, label, Target(t))
  BY <1>0, CloseStepMoves
<1>4. /\ pc'[t] = label
      /\ \A x \in Threads : x # t =>
               /\ pc'[x] \in TeardownPCs \cup {"send"} <=> pc[x] \in TeardownPCs \cup {"send"}
               /\ pc[x] \in TeardownPCs \cup {"send"} => pc'[x] = pc[x]
               /\ Target(x)' = Target(x)
  BY <1>1, <1>2, <1>3, OthersView
<1>5. pc[t] # "send" /\ \A c \in Clients : t = Send(c) => hand'[c] = NoMsg
  BY <1>1, <1>2 DEF TeardownPCs, ViewInv, HandInv
<1>6. \A c \in Clients : InTeardown(t, c) => obj[c] = "alive"
  BY DEF IInv, TeardownInv
<1>7. \A c \in Clients : closing'[c] = (closing[c] \/ (c = Target(t) /\ (SetClosing(t) \/ WakeSender(t))))
  BY ZenonT(60), <1>0, <1>2 DEF CloseStep, CloseOnce, SetClosing, RemoveClient, OnClosing, UseGoneEndpoint, WakeSender,
         InterruptSocket, JoinSend, JoinRecv, FreeClientSockData, DeleteThis, clientVars, DataOK
<1>8. \A c \in Clients : obj'[c] = "unborn" => obj[c] = "unborn" /\ sendingQueue'[c] = sendingQueue[c]
  BY <1>0, <1>2 DEF CloseStep, CloseOnce, SetClosing, RemoveClient, OnClosing, UseGoneEndpoint, WakeSender,
         InterruptSocket, JoinSend, JoinRecv, FreeClientSockData, DeleteThis, queueVars, DataOK
<1>9. \A c \in Clients : c = Target(t) /\ (SetClosing(t) \/ WakeSender(t)) => InTeardown(t, c)
  BY DEF SetClosing, WakeSender, At, InTeardown, TeardownPCs
<1>10. ASSUME NEW c \in Clients, InTeardown(t, c)', pc'[t] # "flag"
       PROVE  closing'[c]
  <2>1. c = Target(t) /\ pc'[t] \in TeardownPCs
    BY <1>2, <1>10 DEF InTeardown
  <2>2. CASE SetClosing(t)
    BY <1>7, <2>1, <2>2
  <2>3. CASE ~SetClosing(t)
    <3>1. pc[t] \in TeardownPCs /\ pc[t] # "flag"
      BY <1>0, <1>4, <1>10, <2>1, <2>3, CloseMoves, ReturnLabel
         DEF CloseStep, CloseOnce, RemoveClient, OnClosing, UseGoneEndpoint, WakeSender,
         InterruptSocket, JoinSend, JoinRecv, FreeClientSockData, DeleteThis, At, TeardownPCs, Moves
    <3>2. QED
      BY <1>7, <2>1, <3>1 DEF ViewInv, ClosingInv, InTeardown
  <2>4. QED
    BY <2>2, <2>3
<1>11. \A c \in Clients : obj'[c] = "unborn" => closing'[c] = closing[c]
  BY ZenonT(60), <1>0, <1>2, <1>6, <1>7, <1>8, <1>9 DEF DataOK
<1>12. QED
  BY ZenonT(60), <1>1, <1>4, <1>5, <1>7, <1>8, <1>10, <1>11, ViewFrame

LEMMA ViewWorker ==
    ASSUME TypeInv, IInv, ViewInv, NEW c \in Clients,
           RecvStep(c) \/ SendStep(c) \/ Peer(c) \/ SpuriousWakeup(c)
    PROVE  ViewInv'
<1>0. PcOK /\ DataOK
  BY DEF TypeInv, TypeOK
<1>1. UNCHANGED <<obj, cur>> /\ \A x \in Threads : Target(x)' = Target(x)
  BY DEF RecvStep, RecvSetup, RecvLoop, RecvError, RecvInterrupted, RecvAnswer, RecvSignal,
     SendStep, SendLock, SendCheck, SendWait, SendMessage, SendFailed, SpuriousWakeup,
     Peer, PeerShutdown, PeerReset, RecvFrame, userVars, RecvOnly, SendOnly, Target
<1>2. /\ "send" \notin RecvWork \cup {"once", "exited"}
      /\ (RecvWork \cup SendWork \cup {"once", "exited"}) \cap TeardownPCs = {}
      /\ "unborn" \notin RecvWork \cup SendWork /\ "exited" \notin RecvWork \cup SendWork
  BY DEF RecvWork, SendWork, TeardownPCs
<1>3. CASE RecvStep(c) \/ RecvFrame(c)
  <2>1. PICK label \in RecvWork \cup {"once", "exited"} :
            Moves(Recv(c), label) \/ Wakes(Recv(c), label, c)
    BY <1>0, <1>3, RecvMoves
  <2>2. pc[Recv(c)] \in RecvWork /\ obj[c] = "alive"
    BY <1>0, <1>2, <1>3, RecvMoves DEF IInv, AliveInv, Running
  <2>3. /\ hand' = hand
        /\ \A d \in Clients : /\ closing[d] => closing'[d]
                              /\ d # c => closing'[d] = closing[d] /\ sendingQueue'[d] = sendingQueue[d]
    BY <1>0, <1>3 DEF RecvStep, RecvSetup, RecvLoop, RecvError, RecvInterrupted, RecvAnswer, RecvSignal,
       RecvFrame, RecvOnly, Push, DataOK
  <2>4. pc'[Recv(c)] = label /\ Recv(c) \in Threads /\ \A d \in Clients : Recv(c) # Send(d)
    BY <2>1, ThreadFacts, OthersView, <1>1
  <2>5. \A d \in Clients : ~InTeardown(Recv(c), d)'
    BY <1>2, <2>4 DEF InTeardown
  <2>6. \A x \in Threads : x # Recv(c) =>
               /\ pc'[x] \in TeardownPCs \cup {"send"} <=> pc[x] \in TeardownPCs \cup {"send"}
               /\ pc[x] \in TeardownPCs \cup {"send"} => pc'[x] = pc[x]
    BY <1>1, <2>1, <2>4, OthersView
  <2>7. QED
    BY <1>1, <2>2, <2>3, <2>4, <2>5, <2>6, ViewFrame
<1>4. CASE SendStep(c) \/ SpuriousWakeup(c)
  <2>1. PICK label \in SendWork \cup {"once", "exited"} :
            Moves(Send(c), label) /\ (label = "send" => SendCheck(c))
    BY <1>0, <1>4, SendMoves
  <2>2. pc[Send(c)] \in SendWork /\ obj[c] = "alive"
    BY <1>0, <1>2, <1>4, SendMoves DEF IInv, AliveInv, Running
  <2>3. /\ closing' = closing
        /\ \A d \in Clients : d # c => hand'[d] = hand[d] /\ sendingQueue'[d] = sendingQueue[d]
    BY <1>0, <1>4 DEF SendStep, SendLock, SendCheck, SendWait, SendMessage, SendFailed, SpuriousWakeup,
       SendOnly, clientVars, queueVars, DataOK
  <2>4. pc'[Send(c)] = label /\ Send(c) \in Threads /\ \A d \in Clients : Send(c) = Send(d) => d = c
    BY <2>1, ThreadFacts, OthersView, <1>1
  <2>5. \A d \in Clients : ~InTeardown(Send(c), d)'
    BY <1>2, <2>4 DEF InTeardown
  <2>6. \A x \in Threads : x # Send(c) =>
               /\ pc'[x] \in TeardownPCs \cup {"send"} <=> pc[x] \in TeardownPCs \cup {"send"}
               /\ pc[x] \in TeardownPCs \cup {"send"} => pc'[x] = pc[x]
    BY <1>1, <2>1, <2>4, OthersView
  <2>7. pc'[Send(c)] # "send" => hand'[c] = NoMsg
    BY <1>0, <1>4, <2>4 DEF SendStep, SendLock, SendCheck, SendWait, SendMessage, SendFailed, SpuriousWakeup,
       SendOnly, queueVars, DataOK, At, Goto, ViewInv, HandInv, PcOK
  <2>8. QED
    BY <1>1, <2>2, <2>3, <2>4, <2>5, <2>6, <2>7, ViewFrame
<1>5. CASE PeerShutdown(c) \/ PeerReset(c)
  BY <1>1, <1>5 DEF PeerShutdown, PeerReset, clientVars, queueVars, ViewInv, ClosingInv, FreshInv,
     HandInv, InTeardown
<1>6. QED
  BY <1>3, <1>4, <1>5 DEF Peer

LEMMA ViewInvariance == Spec => [](TypeInv /\ IInv /\ ViewInv)
<1>1. Init => ViewInv
  <2> SUFFICES ASSUME Init PROVE ViewInv
    OBVIOUS
  <2>1. \A t \in Threads : pc[t] \notin TeardownPCs
    BY DEF Init, TeardownPCs
  <2>2. QED
    BY <2>1 DEF Init, ViewInv, ClosingInv, FreshInv, HandInv, InTeardown
<1>2. TypeInv /\ IInv /\ ViewInv /\ [Next]_vars => ViewInv'
  <2> SUFFICES ASSUME TypeInv, IInv, ViewInv, [Next]_vars PROVE ViewInv'
    OBVIOUS
  <2>1. CASE UNCHANGED vars
    BY <2>1 DEF vars, clientVars, queueVars, userVars, ViewInv, ClosingInv, FreshInv, HandInv,
                InTeardown, Target
  <2>2. QED
    BY <2>1, ViewUser, ViewClose, ViewWorker DEF Next
<1>3. QED
  BY <1>1, <1>2, Invariance, PTL DEF Spec

-----------------------------------------------------------------------------
(* What the promise sees of a step.                                        *)

Casting == {"enqueue", "signal"}
EndingPCs == {"once", "exited", "undefined"} \cup TeardownPCs

LEMMA SameToCome ==
    ASSUME listLock' = listLock,
           \A u \in Users : /\ pc'[u] \in Casting <=> pc[u] \in Casting
                            /\ pc[u] \in Casting => todo'[u] = todo[u] /\ msg'[u] = msg[u],
           NEW c \in Clients
    PROVE  ToCome(c)' = ToCome(c)
BY DEF ToCome, Casting

\* Nothing is to come when no broadcast is under way.
LEMMA NoneToCome ==
    /\ listLock = NoThread \/ pc[listLock] \notin Casting => \A c \in Clients : ToCome(c) = <<>>
    /\ listLock' = NoThread \/ pc'[listLock'] \notin Casting => \A c \in Clients : ToCome(c)' = <<>>
BY ThreadFacts DEF ToCome, Casting

LEMMA SameClient ==
    ASSUME NEW d \in Clients,
           obj'[d] = obj[d], closing'[d] = closing[d], hand'[d] = hand[d],
           sendingQueue'[d] = sendingQueue[d],
           d \in webSocketClientList' <=> d \in webSocketClientList,
           pc'[Send(d)] \in EndingPCs <=> pc[Send(d)] \in EndingPCs,
           \A u \in Users : Constructs(u, d)' <=> Constructs(u, d),
           ToCome(d)' = ToCome(d)
    PROVE  Same(d)
<1>1. Ending(d)' <=> Ending(d)
  BY DEF Ending, EndingPCs
<1>2. Constructing(d)' <=> Constructing(d)
  BY DEF Constructing, Constructs
<1>3. Phase(d)' = Phase(d)
  BY <1>1, <1>2 DEF Phase
<1>4. QED
  BY <1>3 DEF Same, Pending, InHand

\* The parts of what is pending.
LEMMA PendingParts ==
    ASSUME TypeInv, IInv, NEW c \in Clients
    PROVE  /\ InHand(c) \in Seq(Messages) /\ sendingQueue[c] \in Seq(Messages)
           /\ ToCome(c) \in Seq(Messages)
           /\ wire[c] \in Seq(Broadcasts)
           /\ hand[c] # NoMsg => hand[c] \in Messages
<1>1. ToCome(c) = <<>> \/ \E m \in Messages : ToCome(c) = <<m>>
  BY DEF ToCome, TypeInv, MsgOK, Messages
<1>2. hand[c] \in Messages \cup {NoMsg} /\ sendingQueue[c] \in Seq(Messages) /\ wire[c] \in Seq(Broadcasts)
  BY DEF TypeInv, TypeOK, DataOK
<1>3. <<>> \in Seq(Messages) /\ \A m \in Messages : <<m>> \in Seq(Messages)
  OBVIOUS
<1>4. InHand(c) \in Seq(Messages)
  BY <1>2, <1>3 DEF InHand
<1>5. QED
  BY <1>1, <1>2, <1>3, <1>4

\* The phase of a client, from its life, its list and its sender.
LEMMA PhaseFacts ==
    ASSUME TypeInv, IInv, NEW c \in Clients
    PROVE  /\ Phase(c) \in {"outside", "member", "leaving", "closing", "gone"}
           /\ Phase(c) = "gone" <=> obj[c] \in {"freed", "refused"}
           /\ Phase(c) = "closing" <=> obj[c] = "alive" /\ Ending(c)
           /\ Phase(c) = "member" <=> ~Ending(c) /\ c \in webSocketClientList
           /\ Phase(c) \in {"outside", "leaving"} => c \notin webSocketClientList
           /\ Phase(c) \notin {"gone", "closing"}
                => Pending(c) = InHand(c) \o sendingQueue[c] \o ToCome(c)
           /\ Phase(c) = "closing" => Pending(c) = InHand(c)
           /\ Phase(c) = "gone" => Pending(c) = <<>>
<1>1. obj[c] \in {"unborn", "refused", "alive", "freed"}
  BY DEF TypeInv, TypeOK, DataOK
<1>2. c \in webSocketClientList => obj[c] = "alive"
  BY DEF IInv, AliveInv
<1>3. QED
  BY <1>1, <1>2 DEF Phase, Pending

\* What S has in hand goes first.
LEMMA HandFirst ==
    ASSUME TypeInv, IInv, NEW c \in Clients, Phase(c) \notin {"gone", "closing"}
    PROVE  /\ Pending(c) = InHand(c) \o (sendingQueue[c] \o ToCome(c))
           /\ sendingQueue[c] \o ToCome(c) \in Seq(Messages) /\ InHand(c) \in Seq(Messages)
<1>1. \A p, q, r \in Seq(Messages) : p \o q \in Seq(Messages) /\ (p \o q) \o r = p \o (q \o r)
  BY SMTT(60), Concat
<1>2. /\ InHand(c) \in Seq(Messages) /\ sendingQueue[c] \in Seq(Messages)
      /\ ToCome(c) \in Seq(Messages)
  BY PendingParts
<1>3. Pending(c) = InHand(c) \o (sendingQueue[c] \o ToCome(c))
  BY ZenonT(60), <1>1, <1>2, PhaseFacts
<1>4. sendingQueue[c] \o ToCome(c) \in Seq(Messages)
  BY <1>1, <1>2
<1>5. QED
  BY <1>2, <1>3, <1>4

\* Steps that only move threads, where no sender begins to end, no constructor
\* begins or ends, and no broadcast begins or ends.
LEMMA Unseen ==
    ASSUME UNCHANGED <<webSocketClientList, obj, closing, sendingQueue, hand, wire, started>>,
           \A c \in Clients : pc'[Send(c)] \in EndingPCs <=> pc[Send(c)] \in EndingPCs,
           \A u \in Users, c \in Clients : Constructs(u, c)' <=> Constructs(u, c),
           \A c \in Clients : ToCome(c)' = ToCome(c)
    PROVE  UNCHANGED Promise!vars
<1>1. \A d \in Clients : Same(d)
  BY SameClient
<1>2. QED
  BY <1>1, AsStutter

-----------------------------------------------------------------------------
(* The calls of users.                                                     *)

\* A user that moves: where the promise could see it.
LEMMA UserSeen ==
    ASSUME NEW u \in Users, NEW label,
           Moves(u, label) \/ \E c \in Clients : Wakes(u, label, c),
           \A v \in Users : v # u => cur'[v] = cur[v]
    PROVE  /\ pc'[u] = label
           /\ \A v \in Users : v # u => pc'[v] = pc[v]
           /\ \A c \in Clients : pc'[Send(c)] \in EndingPCs <=> pc[Send(c)] \in EndingPCs
           /\ \A v \in Users, c \in Clients : v # u => (Constructs(v, c)' <=> Constructs(v, c))
<1>1. /\ pc'[u] = label
      /\ \A x \in Threads : x # u =>
             pc'[x] = pc[x] \/ (pc[x] = "waiting" /\ pc'[x] = "woken" /\ x \in SendThreads)
  BY ThreadFacts DEF Moves, Wakes
<1>2. \A v \in Users : v # u => pc'[v] = pc[v]
  BY <1>1, ThreadFacts
<1>3. "waiting" \notin EndingPCs /\ "woken" \notin EndingPCs
  BY DEF EndingPCs, TeardownPCs
<1>4. \A c \in Clients : pc'[Send(c)] \in EndingPCs <=> pc[Send(c)] \in EndingPCs
  BY <1>1, <1>3, ThreadFacts
<1>5. \A v \in Users, c \in Clients : v # u => (Constructs(v, c)' <=> Constructs(v, c))
  BY <1>2 DEF Constructs
<1>6. QED
  BY <1>1, <1>2, <1>4, <1>5

\* A call that finds the mutex free, or starts with it, leaves no broadcast.
LEMMA StepCalls ==
    ASSUME TypeInv, IInv, ViewInv, NEW u \in Users, UserCall(u)
    PROVE  [Promise!Next]_(Promise!vars)
<1>0. PcOK /\ CurOK /\ DataOK /\ u \in Threads /\ LockInv
  BY ThreadFacts DEF TypeInv, TypeOK, IInv
<1>1. /\ pc[u] = "idle" /\ listLock = NoThread
      /\ UNCHANGED <<obj, closing, sendingQueue, hand, wire, cur>> \/ \E c \in Clients : NewConnectionRequest(u, c)
      /\ \A v \in Users : v # u => cur'[v] = cur[v]
  BY <1>0 DEF UserCall, NewConnectionRequest, RemoveClientOf, SendBroadcast, RemoveAllClients,
         Destruct, At, clientVars, queueVars, DataOK
<1>2. \A d \in Clients : ToCome(d) = <<>>
  BY <1>1, NoneToCome
<1>3. \A v \in Users : pc[v] \notin LockPCs
  BY <1>0, <1>1, ThreadFacts DEF LockInv
<1>4. ASSUME NEW c \in Clients, NewConnectionRequest(u, c) PROVE [Promise!Next]_(Promise!vars)
  <2>1. Moves(u, "opening")
    BY <1>0, <1>4, UserCallMoves
  <2>2. /\ UNCHANGED <<webSocketClientList, obj, closing, sendingQueue, hand, wire, started>>
        /\ listLock' = u
    BY <1>4 DEF NewConnectionRequest, clientVars, queueVars
  <2>3. \A d \in Clients : ToCome(d)' = <<>>
    BY <1>1, <2>1, <2>2, UserSeen, NoneToCome DEF Casting
  <2>4. \A d \in Clients : ~Constructs(u, d) /\ ~Constructs(u, d)'
    BY <1>1, <2>1, UserSeen DEF Constructs
  <2>5. QED
    BY <1>1, <1>2, <2>1, <2>2, <2>3, <2>4, UserSeen, Unseen
<1>5. ASSUME NEW m \in Broadcasts, SendBroadcast(u, m) PROVE [Promise!Next]_(Promise!vars)
  <2>1. Moves(u, "enqueue")
    BY <1>0, <1>5, UserCallMoves
  <2>2. /\ UNCHANGED <<webSocketClientList, obj, closing, sendingQueue, hand, wire, cur>>
        /\ listLock' = u /\ started' = started \cup {m} /\ m \notin started
        /\ todo'[u] = webSocketClientList /\ msg'[u] = m
    BY <1>0, <1>5 DEF SendBroadcast, clientVars, queueVars, DataOK
  <2>3. \A d \in Clients : ~Constructs(u, d) /\ ~Constructs(u, d)'
    BY <1>1, <2>1, UserSeen DEF Constructs
  <2>4. \A d \in Clients : ToCome(d)' = IF d \in webSocketClientList THEN <<m>> ELSE <<>>
    BY <2>1, <2>2, UserSeen DEF ToCome
  <2>5. ASSUME NEW d \in Clients
        PROVE  /\ Phase(d)' = Phase(d)
               /\ Pending(d)' = IF Phase(d) = "member" THEN Append(Pending(d), m) ELSE Pending(d)
    <3>1. (Ending(d)' <=> Ending(d)) /\ (Constructing(d)' <=> Constructing(d))
      BY <1>1, <2>1, <2>2, <2>3, UserSeen DEF Ending, EndingPCs, Constructing, Constructs
    <3>2. Phase(d)' = Phase(d)
      BY <2>2, <3>1 DEF Phase
    <3>3. CASE Phase(d) # "member"
      <4>1. Phase(d) \in {"outside", "leaving"} => d \notin webSocketClientList
        BY PhaseFacts
      <4>2. QED
        BY <1>2, <2>2, <2>4, <3>2, <3>3, <4>1, PhaseFacts DEF Pending, InHand
    <3>4. CASE Phase(d) = "member"
      <4>1. d \in webSocketClientList /\ Pending(d) = InHand(d) \o sendingQueue[d] \o <<>>
        BY <1>2, <3>4, PhaseFacts
      <4>2. Pending(d)' = InHand(d) \o sendingQueue[d] \o <<m>>
        BY <2>2, <2>4, <3>2, <3>4, <4>1 DEF Pending, InHand
      <4>3. InHand(d) \in Seq(Messages) /\ sendingQueue[d] \in Seq(Messages) /\ m \in Messages
        BY PendingParts DEF Messages
      <4>4. QED
        BY <3>2, <3>4, <4>1, <4>2, <4>3, Concat
    <3>5. QED
      BY <3>2, <3>3, <3>4
  <2>6. Promise!Broadcast(m)
    BY <2>2, <2>5, AsBroadcast
  <2>7. QED
    BY <2>6 DEF Promise!Next
<1>6. ASSUME \/ \E c \in Clients : RemoveClientOf(u, c)
             \/ RemoveAllClients(u) \/ Destruct(u)
      PROVE  [Promise!Next]_(Promise!vars)
  <2> DEFINE cs == {d \in Clients : Phase(d) = "member" /\ d \notin webSocketClientList'}
  <2>1. Moves(u, "closeNext")
    BY <1>0, <1>6, UserCallMoves
  <2>2. /\ UNCHANGED <<obj, closing, sendingQueue, hand, wire, cur, started>>
        /\ listLock' = NoThread /\ webSocketClientList' \subseteq webSocketClientList
    BY <1>1, <1>6 DEF RemoveClientOf, RemoveAllClients, Destruct, clientVars, queueVars
  <2>3. \A d \in Clients : ToCome(d)' = <<>>
    BY <2>2, NoneToCome
  <2>4. \A d \in Clients : ~Constructs(u, d) /\ ~Constructs(u, d)'
    BY <1>1, <2>1, UserSeen DEF Constructs
  <2>5. ASSUME NEW d \in Clients
        PROVE  /\ Pending(d)' = Pending(d)
               /\ d \in cs => Phase(d) = "member" /\ Phase(d)' = "leaving"
               /\ d \notin cs => Phase(d)' = Phase(d)
    <3>1. (Ending(d)' <=> Ending(d)) /\ (Constructing(d)' <=> Constructing(d))
      BY <1>1, <2>1, <2>2, <2>4, UserSeen DEF Ending, EndingPCs, Constructing, Constructs
    <3>2. ~Constructing(d)
      BY <1>3 DEF Constructing, LockPCs
    <3>3. d \in webSocketClientList => obj[d] = "alive"
      BY DEF IInv, AliveInv
    <3>4. /\ d \in cs => Phase(d)' = "leaving"
          /\ d \notin cs => Phase(d)' = Phase(d)
      <4>1. CASE d \in webSocketClientList /\ d \notin webSocketClientList'
        BY <2>2, <3>1, <3>2, <3>3, <4>1, PhaseFacts DEF Phase
      <4>2. CASE d \in webSocketClientList <=> d \in webSocketClientList'
        <5>1. Phase(d)' = Phase(d)
          BY <2>2, <3>1, <4>2 DEF Phase
        <5>2. d \notin cs
          BY <4>2, PhaseFacts
        <5>3. QED
          BY <5>1, <5>2
      <4>3. QED
        BY <2>2, <4>1, <4>2
    <3>5. QED
      BY <1>2, <2>2, <2>3, <3>4 DEF Pending, InHand
  <2>6. CASE cs # {}
    <3>1. Promise!Leave(cs)
      BY <2>2, <2>5, <2>6, AsLeave
    <3>2. QED
      BY <3>1 DEF Promise!Next
  <2>7. CASE cs = {}
    BY <2>2, <2>5, <2>7, AsStutter DEF Same
  <2>8. QED
    BY <2>6, <2>7
<1>7. QED
  BY <1>4, <1>5, <1>6 DEF UserCall
-----------------------------------------------------------------------------
(* The steps of a user's call.                                             *)

LEMMA StepConstruct ==
    ASSUME TypeInv, IInv, ViewInv, NEW u \in Users,
           Refuse(u) \/ StartReceiver(u) \/ StartSender(u) \/ PushBack(u)
    PROVE  [Promise!Next]_(Promise!vars)
<1>0. PcOK /\ CurOK /\ DataOK /\ LockInv
  BY DEF TypeInv, TypeOK, IInv
<1>a. cur[u] \in Clients /\ listLock = u /\ pc[u] \in {"opening", "startSender", "pushBack"}
  BY <1>0 DEF Refuse, StartReceiver, StartSender, PushBack, At, CurOK, LockInv, LockPCs
<1> PICK c \in Clients : c = cur[u]
  BY <1>a
<1>1. c = cur[u] /\ c \in Clients /\ listLock = u /\ pc[u] \in {"opening", "startSender", "pushBack"}
  BY <1>a
<1>2. \A d \in Clients : ToCome(d) = <<>>
  BY <1>1, NoneToCome DEF Casting
<1>3. UNCHANGED <<closing, sendingQueue, hand, wire, started>>
  BY DEF Refuse, StartReceiver, StartSender, PushBack, clientVars, queueVars, userVars
<1>4. ASSUME pc[u] = "opening"
      PROVE  /\ obj[c] = "unborn" /\ ~Ending(c) /\ c \notin webSocketClientList
             /\ Phase(c) = "outside" /\ Pending(c) = <<>>
             /\ pc[Send(c)] = "unborn"
  <2>1. obj[c] = "unborn" /\ pc[Send(c)] = "unborn"
    BY <1>1, <1>4 DEF IInv, BirthInv
  <2>2. ~closing[c] /\ sendingQueue[c] = <<>> /\ InHand(c) = <<>>
    BY <1>1, <2>1 DEF ViewInv, FreshInv, HandInv, InHand
  <2>3. ~Ending(c) /\ c \notin webSocketClientList /\ Phase(c) = "outside"
    BY <1>1, <2>1, <2>2 DEF Ending, TeardownPCs, Phase, IInv, AliveInv
  <2>4. Pending(c) = <<>>
    BY <1>1, <1>2, <2>2, <2>3, PendingParts, Concat DEF Pending
  <2>5. QED
    BY <2>1, <2>3, <2>4
<1>5. CASE StartReceiver(u)
  <2>1. /\ pc[u] = "opening" /\ pc'[u] = "startSender"
        /\ \A d \in Clients : pc'[Send(d)] = pc[Send(d)]
        /\ \A v \in Users : v # u => pc'[v] = pc[v]
    <3>1. \A x \in Threads : pc'[x] = IF x = u THEN "startSender"
                                      ELSE IF x = Recv(c) THEN "setup" ELSE pc[x]
      BY <1>0, <1>1, <1>5, StartMoves
    <3>2. \A d \in Clients : pc'[Send(d)] = pc[Send(d)]
      BY <3>1, ThreadFacts
    <3>3. pc'[u] = "startSender" /\ \A v \in Users : v # u => pc'[v] = pc[v]
      BY <3>1, ThreadFacts
    <3>4. QED
      BY <1>5, <3>2, <3>3 DEF StartReceiver, At
  <2>2. /\ UNCHANGED <<webSocketClientList, listLock, cur>>
        /\ obj'[c] = "alive" /\ \A d \in Clients \ {c} : obj'[d] = obj[d]
    BY <1>0, <1>1, <1>5 DEF StartReceiver, userVars, DataOK
  <2>3. \A d \in Clients : ToCome(d)' = <<>>
    BY <1>1, <2>1, <2>2, NoneToCome DEF Casting
  <2>4. ASSUME NEW d \in Clients, d # c PROVE Same(d)
    BY <1>2, <1>3, <2>1, <2>2, <2>3, <2>4, SameClient DEF Constructs
  <2>5. ~Ending(c)' /\ Constructing(c)' /\ InHand(c)' = InHand(c)
    BY <1>1, <1>3, <1>4, <2>1, <2>2 DEF Ending, Constructing, InHand
  <2>6. Phase(c)' = "outside"
    BY <1>1, <1>4, <2>1, <2>2, <2>5 DEF Phase
  <2>7. Pending(c)' = Pending(c)
    BY <1>1, <1>2, <1>3, <1>4, <2>1, <2>3, <2>5, <2>6 DEF Pending
  <2>8. \A d \in Clients : Same(d)
    BY <1>1, <1>4, <2>1, <2>4, <2>6, <2>7 DEF Same
  <2>9. QED
    BY <1>3, <2>8, AsStutter
<1>6. CASE StartSender(u)
  <2>1. /\ pc[u] = "startSender" /\ pc'[u] = "pushBack" /\ pc[Send(c)] = "unborn"
        /\ \A d \in Clients : pc'[Send(d)] = IF d = c THEN "lock" ELSE pc[Send(d)]
        /\ \A v \in Users : v # u => pc'[v] = pc[v]
    <3>1. \A x \in Threads : pc'[x] = IF x = u THEN "pushBack"
                                      ELSE IF x = Send(c) THEN "lock" ELSE pc[x]
      BY <1>0, <1>1, <1>6, StartMoves
    <3>2. \A d \in Clients : pc'[Send(d)] = IF d = c THEN "lock" ELSE pc[Send(d)]
      BY <3>1, ThreadFacts
    <3>3. pc'[u] = "pushBack" /\ \A v \in Users : v # u => pc'[v] = pc[v]
      BY <3>1, ThreadFacts
    <3>4. QED
      BY ZenonT(60), <1>1, <1>6, <3>2, <3>3 DEF StartSender, At, IInv, BirthInv
  <2>2. UNCHANGED <<webSocketClientList, listLock, obj, cur>>
    BY <1>6 DEF StartSender, userVars
  <2>3. \A d \in Clients : ToCome(d)' = <<>>
    BY <1>1, <2>1, <2>2, NoneToCome DEF Casting
  <2>4. \A d \in Clients : pc'[Send(d)] \in EndingPCs <=> pc[Send(d)] \in EndingPCs
    BY <2>1 DEF EndingPCs, TeardownPCs
  <2>5. \A v \in Users, d \in Clients : Constructs(v, d)' <=> Constructs(v, d)
    BY <2>1, <2>2 DEF Constructs
  <2>6. QED
    BY <1>2, <1>3, <2>2, <2>3, <2>4, <2>5, Unseen
<1>7. CASE Refuse(u) \/ PushBack(u)
  <2>1. /\ Moves(u, "idle") /\ listLock' = NoThread /\ cur' = [cur EXCEPT ![u] = NoClient]
    BY <1>0, <1>7, UserStepMoves DEF Refuse, PushBack
  <2>2. /\ \A v \in Users : v # u => cur'[v] = cur[v]
        /\ \A d \in Clients : ToCome(d)' = <<>>
    BY <1>0, <2>1, NoneToCome DEF DataOK
  <2>3. /\ pc'[u] = "idle"
        /\ \A d \in Clients : pc'[Send(d)] = pc[Send(d)]
        /\ \A v \in Users : v # u => pc'[v] = pc[v]
    BY <2>1, ThreadFacts DEF Moves
  <2>4. \A d \in Clients \ {c} : \A v \in Users : Constructs(v, d)' <=> Constructs(v, d)
    BY <2>2, <2>3 DEF Constructs
  <2>5. /\ \A d \in Clients \ {c} : obj'[d] = obj[d]
        /\ \A d \in Clients \ {c} : d \in webSocketClientList' <=> d \in webSocketClientList
    BY <1>0, <1>1, <1>7 DEF Refuse, PushBack, DataOK
  <2>6. SameBut(c)
    BY <1>2, <1>3, <2>2, <2>3, <2>4, <2>5, SameClient DEF SameBut
  <2>7. CASE Refuse(u)
    <3>1. pc[u] = "opening" /\ obj'[c] = "refused"
      BY <1>0, <1>1, <2>7 DEF Refuse, At, DataOK
    <3>2. Phase(c)' = "gone" /\ Pending(c)' = <<>>
      BY <3>1 DEF Phase, Pending
    <3>3. Promise!Vanish(c)
      BY <1>1, <1>3, <1>4, <2>6, <3>1, <3>2, AsVanish
    <3>4. QED
      BY <1>1, <3>3 DEF Promise!Next
  <2>8. CASE PushBack(u)
    <3>1. /\ pc[u] = "pushBack" /\ obj' = obj
          /\ c \in webSocketClientList'
      BY <1>0, <1>1, <2>8 DEF PushBack, At, DataOK
    <3>2. Constructs(u, c) /\ obj[c] = "alive"
      BY <1>1, <3>1 DEF Constructs, IInv, AliveInv
    <3>3. (Ending(c)' <=> Ending(c)) /\ InHand(c)' = InHand(c)
      BY <1>1, <1>3, <2>3 DEF Ending, InHand
    <3>4. CASE Ending(c) \/ c \in webSocketClientList
      <4>1. Phase(c)' = Phase(c)
        BY <3>1, <3>2, <3>3, <3>4 DEF Phase
      <4>2. Pending(c)' = Pending(c)
        BY <1>1, <1>2, <1>3, <2>2, <3>3, <4>1 DEF Pending
      <4>3. QED
        BY <1>1, <1>3, <2>6, <4>1, <4>2, AsStutter DEF SameBut, Same
    <3>5. CASE ~Ending(c) /\ c \notin webSocketClientList
      <4>1. Constructing(c)
        BY <3>1 DEF Constructing
      <4>2. Phase(c) = "outside" /\ Phase(c)' = "member"
        BY <3>1, <3>2, <3>3, <3>5, <4>1 DEF Phase
      <4>3. Pending(c)' = Pending(c)
        BY <1>1, <1>2, <1>3, <2>2, <3>3, <4>2 DEF Pending
      <4>4. Promise!Join(c)
        BY <1>1, <1>3, <2>6, <4>2, <4>3, AsJoin
      <4>5. QED
        BY <1>1, <4>4 DEF Promise!Next
    <3>6. QED
      BY <3>4, <3>5
  <2>9. QED
    BY <1>7, <2>7, <2>8
<1>8. QED
  BY <1>5, <1>6, <1>7

\* The loop of a broadcast delivers what was pending from its start.
LEMMA StepLoop ==
    ASSUME TypeInv, IInv, ViewInv, NEW u \in Users,
           \/ BroadcastPush(u) \/ BroadcastSignal(u) \/ BroadcastEnd(u)
           \/ CloseNext(u) \/ CloseDone(u)
    PROVE  [Promise!Next]_(Promise!vars)
<1>0. PcOK /\ CurOK /\ MsgOK /\ DataOK /\ LockInv /\ u # NoThread
  BY ThreadFacts DEF TypeInv, TypeOK, IInv
<1>1. /\ UNCHANGED <<webSocketClientList, obj, closing, hand, wire, started>>
      /\ \A v \in Users : v # u => /\ cur'[v] = cur[v] /\ todo'[v] = todo[v]
                                   /\ msg'[v] = msg[v]
  BY <1>0 DEF BroadcastPush, BroadcastSignal, BroadcastEnd, CloseNext, CloseDone,
     clientVars, queueVars, userVars, DataOK
<1>2. /\ pc[u] \in {"enqueue", "signal", "closeNext"}
      /\ pc'[u] \in {"enqueue", "signal", "closeNext", "once", "idle"}
      /\ \A v \in Users : v # u => pc'[v] = pc[v]
      /\ \A c \in Clients : pc'[Send(c)] \in EndingPCs <=> pc[Send(c)] \in EndingPCs
  <2>1. PICK label \in {"enqueue", "signal", "closeNext", "once", "idle"} :
            Moves(u, label) \/ \E c \in Clients : Wakes(u, label, c)
    BY <1>0, UserStepMoves DEF BroadcastSignal, At, CurOK
  <2>2. QED
    BY <1>1, <2>1, UserSeen DEF BroadcastPush, BroadcastSignal, BroadcastEnd, CloseNext, CloseDone, At
<1>3. \A v \in Users, c \in Clients : Constructs(v, c)' <=> Constructs(v, c)
  BY <1>1, <1>2 DEF Constructs
<1>4. CASE BroadcastPush(u)
  <2>1. PICK c \in todo[u] : /\ Push(c, msg[u])
                             /\ todo' = [todo EXCEPT ![u] = todo[u] \ {c}]
    BY <1>4 DEF BroadcastPush
  <2>2. /\ pc[u] = "enqueue" /\ pc'[u] = "signal" /\ listLock = u /\ listLock' = u
        /\ msg' = msg /\ msg[u] \in Messages
    BY <1>0, <1>4, UserStepMoves, ThreadFacts
       DEF BroadcastPush, At, LockInv, LockPCs, MsgOK, Messages, Moves
  <2>3. c \in Clients /\ c \in webSocketClientList /\ obj[c] = "alive"
    BY <1>0, <2>2 DEF IInv, ListInv, BroadcastInv, AliveInv, DataOK
  <2>4. /\ ToCome(c) = <<msg[u]>> /\ ToCome(c)' = <<>>
        /\ \A d \in Clients \ {c} : ToCome(d)' = ToCome(d)
    BY <1>0, <2>1, <2>2, <2>3 DEF ToCome, DataOK
  <2>5. /\ sendingQueue'[c] = IF closing[c] THEN sendingQueue[c] ELSE Append(sendingQueue[c], msg[u])
        /\ \A d \in Clients \ {c} : sendingQueue'[d] = sendingQueue[d]
    BY <1>0, <2>1, <2>3 DEF Push, DataOK
  <2>6. \A d \in Clients \ {c} : Same(d)
    BY <1>1, <1>2, <1>3, <2>4, <2>5, SameClient
  <2>7. (Ending(c)' <=> Ending(c)) /\ InHand(c)' = InHand(c)
    BY <1>1, <1>2, <2>3 DEF Ending, EndingPCs, InHand
  <2>8. Phase(c)' = Phase(c) /\ Phase(c) \in {"member", "closing"}
    BY <1>1, <2>3, <2>7 DEF Phase
  <2>9. CASE Phase(c) = "closing"
    <3>1. Pending(c)' = Pending(c)
      BY <2>7, <2>8, <2>9 DEF Pending
    <3>2. QED
      BY <1>1, <2>3, <2>6, <2>8, <3>1, AsStutter DEF Same
  <2>10. CASE Phase(c) = "member"
    <3>1. ~closing[c]
      BY <2>3, <2>10, PhaseFacts DEF Ending
    <3>2. /\ Pending(c) = InHand(c) \o sendingQueue[c] \o <<msg[u]>>
          /\ Pending(c)' = InHand(c) \o Append(sendingQueue[c], msg[u]) \o <<>>
      BY <2>4, <2>5, <2>7, <2>8, <2>10, <3>1 DEF Pending
    <3>3. InHand(c) \in Seq(Messages) /\ sendingQueue[c] \in Seq(Messages)
          /\ <<msg[u]>> \in Seq(Messages) /\ Append(sendingQueue[c], msg[u]) \in Seq(Messages)
      BY <2>2, <2>3, PendingParts
    <3>4. Pending(c)' = Pending(c)
      BY SMTT(60), <2>2, <3>2, <3>3, Concat
    <3>5. QED
      BY <1>1, <2>3, <2>6, <2>8, <3>4, AsStutter DEF Same
  <2>11. QED
    BY <2>8, <2>9, <2>10
<1>5. CASE ~BroadcastPush(u)
  <2>1. sendingQueue' = sendingQueue
    BY <1>5 DEF BroadcastSignal, BroadcastEnd, CloseNext, CloseDone, queueVars
  <2>2. \A c \in Clients : ToCome(c)' = ToCome(c)
    <3>1. CASE BroadcastSignal(u)
      <4>1. listLock' = listLock /\ todo' = todo /\ msg' = msg /\ pc[u] = "signal" /\ pc'[u] = "enqueue"
        BY <1>0, <3>1, UserStepMoves, ThreadFacts DEF BroadcastSignal, At, Wakes
      <4>2. QED
        BY <1>2, <4>1, SameToCome DEF Casting
    <3>2. CASE BroadcastEnd(u)
      <4>1. listLock = u /\ listLock' = NoThread /\ todo[u] = {}
        BY <1>0, <3>2 DEF BroadcastEnd, At, LockInv, LockPCs
      <4>2. QED
        BY <1>0, <4>1, NoneToCome DEF ToCome
    <3>3. CASE CloseNext(u) \/ CloseDone(u)
      <4>1. listLock' = listLock /\ pc[u] = "closeNext" /\ pc'[u] \in {"once", "idle"}
        BY <1>0, <3>3, UserStepMoves, ThreadFacts DEF CloseNext, CloseDone, At, Moves
      <4>2. QED
        BY <1>1, <1>2, <4>1, SameToCome DEF Casting
    <3>4. QED
      BY <1>5, <3>1, <3>2, <3>3
  <2>3. QED
    BY <1>1, <1>2, <1>3, <2>1, <2>2, Unseen
<1>6. QED
  BY <1>4, <1>5
-----------------------------------------------------------------------------
(* The steps of a teardown.                                                *)

\* What a thread that closes c, or will, does to the others.
LEMMA CloserSeen ==
    ASSUME NEW t \in Threads, pc[t] \in TeardownPCs \cup {"once"}, NEW label,
           label \in TeardownPCs \cup {Return(t), "undefined"},
           Moves(t, label) \/ \E c \in Clients : Wakes(t, label, c)
    PROVE  /\ pc'[t] = label
           /\ \A u \in Users : u # t => pc'[u] = pc[u]
           /\ \A c \in Clients : pc'[Send(c)] \in EndingPCs <=> pc[Send(c)] \in EndingPCs
           /\ \A u \in Users : /\ pc'[u] \in Casting <=> pc[u] \in Casting
                               /\ pc'[u] \in {"startSender", "pushBack"}
                                    <=> pc[u] \in {"startSender", "pushBack"}
<1>1. /\ pc'[t] = label
      /\ \A x \in Threads : x # t =>
             pc'[x] = pc[x] \/ (pc[x] = "waiting" /\ pc'[x] = "woken" /\ x \in SendThreads)
  BY ThreadFacts DEF Moves, Wakes
<1>2. \A u \in Users : u # t => pc'[u] = pc[u]
  BY <1>1, ThreadFacts
<1>3. "waiting" \notin EndingPCs /\ "woken" \notin EndingPCs
  BY DEF EndingPCs, TeardownPCs
<1>4. pc[t] \in EndingPCs /\ t \notin Users => label \in EndingPCs
  BY ReturnLabel DEF EndingPCs
<1>5. \A c \in Clients : pc'[Send(c)] \in EndingPCs <=> pc[Send(c)] \in EndingPCs
  BY <1>1, <1>3, <1>4, ThreadFacts DEF EndingPCs
<1>6. /\ (TeardownPCs \cup {"once", "closeNext", "undefined"}) \cap Casting = {}
      /\ (TeardownPCs \cup {"once", "closeNext", "undefined"}) \cap {"startSender", "pushBack"} = {}
  BY DEF TeardownPCs, Casting
<1>7. t \in Users => label \in TeardownPCs \cup {"closeNext", "undefined"}
  BY ReturnLabel
<1>8. QED
  BY <1>1, <1>2, <1>5, <1>6, <1>7

\* Once its sending has ended only what is in hand counts.
LEMMA EndsOrEnded ==
    ASSUME TypeInv, IInv, NEW c \in Clients, obj[c] = "alive", SameBut(c),
           obj'[c] = "alive", started' = started, wire' = wire,
           InHand(c)' = InHand(c), Ending(c)'
    PROVE  [Promise!Next]_(Promise!vars)
<1>1. Phase(c)' = "closing" /\ Pending(c)' = InHand(c)
  BY DEF Phase, Pending
<1>2. CASE Phase(c) = "closing"
  <2>1. Pending(c) = InHand(c)
    BY <1>2, PhaseFacts
  <2>2. QED
    BY <1>1, <1>2, <2>1, AsStutter DEF SameBut, Same
<1>3. CASE Phase(c) # "closing"
  <2>1. Phase(c) \in {"outside", "member", "leaving"}
    BY <1>3, PhaseFacts
  <2>2. PICK q \in Seq(Messages) : Pending(c) = InHand(c) \o q /\ InHand(c) \in Seq(Messages)
    BY <2>1, HandFirst
  <2>3. Len(InHand(c)) \in {0, 1}
    BY DEF InHand
  <2>4. /\ Len(InHand(c)) <= Len(Pending(c))
        /\ Pending(c)' = SubSeq(Pending(c), 1, Len(InHand(c)))
    BY <1>1, <2>2, Parts
  <2>5. Promise!EndConnection(c)
    BY <1>1, <2>1, <2>3, <2>4, AsEnd
  <2>6. QED
    BY <2>5 DEF Promise!Next
<1>4. QED
  BY <1>2, <1>3

LEMMA StepClose ==
    ASSUME TypeInv, IInv, ViewInv, NEW t \in Threads, CloseStep(t)
    PROVE  [Promise!Next]_(Promise!vars)
<1>0. PcOK /\ CurOK /\ DataOK
  BY DEF TypeInv, TypeOK
<1>1. UNCHANGED <<listLock, cur, todo, msg, hand, wire, started>>
  BY DEF CloseStep, CloseOnce, SetClosing, RemoveClient, OnClosing, UseGoneEndpoint, WakeSender,
         InterruptSocket, JoinSend, JoinRecv, FreeClientSockData, DeleteThis, userVars, queueVars
<1>2. pc[t] \in TeardownPCs \cup {"once"} /\ Target(t) \in Clients
  BY <1>0, CloseStepMoves, ThreadFacts DEF CurOK, Target
<1>3. /\ \A d \in Clients : pc'[Send(d)] \in EndingPCs <=> pc[Send(d)] \in EndingPCs
      /\ \A u \in Users : /\ pc'[u] \in Casting <=> pc[u] \in Casting
                          /\ pc'[u] \in {"startSender", "pushBack"}
                               <=> pc[u] \in {"startSender", "pushBack"}
  BY <1>0, <1>2, CloseStepMoves, CloserSeen
<1>4. \A d \in Clients : ToCome(d)' = ToCome(d)
  BY <1>1, <1>3, SameToCome
<1>5. \A u \in Users, d \in Clients : Constructs(u, d)' <=> Constructs(u, d)
  BY <1>1, <1>3 DEF Constructs
<1> PICK c \in Clients : c = Target(t)
  BY <1>2
<1>6. c = Target(t) /\ c \in Clients
  OBVIOUS
<1>7. /\ \A d \in Clients \ {c} : /\ obj'[d] = obj[d] /\ closing'[d] = closing[d]
                                  /\ sendingQueue'[d] = sendingQueue[d]
                                  /\ d \in webSocketClientList' <=> d \in webSocketClientList
      /\ wire' = wire /\ started' = started
  BY <1>0, <1>1, <1>6 DEF CloseStep, CloseOnce, SetClosing, RemoveClient, OnClosing, UseGoneEndpoint, WakeSender,
         InterruptSocket, JoinSend, JoinRecv, FreeClientSockData, DeleteThis, clientVars, queueVars, DataOK
<1>8. SameBut(c)
  BY <1>1, <1>3, <1>4, <1>5, <1>7, SameClient DEF SameBut
<1>9. InHand(c)' = InHand(c) /\ (Constructing(c)' <=> Constructing(c))
  BY <1>1, <1>5 DEF InHand, Constructing, Constructs
<1>10. ASSUME InTeardown(t, c), pc[t] # "flag"
       PROVE  closing[c] /\ obj[c] = "alive" /\ Phase(c) = "closing" /\ Pending(c) = InHand(c)
  <2>1. closing[c] /\ obj[c] = "alive"
    BY <1>6, <1>10 DEF ViewInv, ClosingInv, IInv, TeardownInv
  <2>2. Phase(c) = "closing"
    BY <2>1 DEF Phase, Ending
  <2>3. QED
    BY <2>1, <2>2 DEF Pending
<1>11. CASE SetClosing(t) \/ WakeSender(t)
  <2>1. InTeardown(t, c) /\ obj[c] = "alive"
    BY <1>6, <1>11 DEF SetClosing, WakeSender, At, InTeardown, TeardownPCs, IInv, TeardownInv
  <2>2. /\ closing'[c] /\ obj' = obj
    BY <1>0, <1>6, <1>11 DEF SetClosing, WakeSender, DataOK
  <2>3. Ending(c)'
    BY <2>2 DEF Ending
  <2>4. QED
    BY <1>6, <1>7, <1>8, <1>9, <2>1, <2>2, <2>3, EndsOrEnded
<1>12. CASE RemoveClient(t)
  <2>1. InTeardown(t, c) /\ pc[t] # "flag"
    BY <1>6, <1>12 DEF RemoveClient, At, InTeardown, TeardownPCs
  <2>2. obj' = obj /\ closing' = closing
    BY <1>12 DEF RemoveClient, clientVars
  <2>3. Phase(c)' = "closing" /\ Pending(c)' = InHand(c)
    BY <1>9, <1>10, <2>1, <2>2 DEF Phase, Ending, Pending
  <2>4. QED
    BY <1>6, <1>7, <1>8, <1>10, <2>1, <2>3, AsStutter DEF SameBut, Same
<1>13. CASE DeleteThis(t)
  <2>1. InTeardown(t, c) /\ pc[t] = "delete"
    BY <1>6, <1>13 DEF DeleteThis, At, InTeardown, TeardownPCs
  <2>2. pc[Send(c)] # "send"
    BY <1>6, <2>1, ThreadFacts DEF IInv, JoinInv, InTeardown, SendThreads
  <2>3. InHand(c) = <<>>
    BY <1>6, <2>2 DEF ViewInv, HandInv, InHand
  <2>4. obj'[c] = "freed"
    BY <1>0, <1>6, <1>13 DEF DeleteThis, DataOK
  <2>5. Phase(c)' = "gone" /\ Pending(c)' = <<>>
    BY <2>4 DEF Phase, Pending
  <2>6. Promise!Vanish(c)
    BY <1>6, <1>7, <1>8, <1>10, <2>1, <2>3, <2>5, AsVanish
  <2>7. QED
    BY <1>6, <2>6 DEF Promise!Next
<1>14. CASE ~(SetClosing(t) \/ WakeSender(t) \/ RemoveClient(t) \/ DeleteThis(t))
  <2>1. UNCHANGED <<webSocketClientList, obj, closing, sendingQueue>>
    BY <1>14 DEF CloseStep, CloseOnce, OnClosing, UseGoneEndpoint,
         InterruptSocket, JoinSend, JoinRecv, FreeClientSockData, clientVars, queueVars
  <2>2. QED
    BY <1>1, <1>3, <1>4, <1>5, <2>1, Unseen
<1>15. QED
  BY <1>11, <1>12, <1>13, <1>14
-----------------------------------------------------------------------------
(* The steps of the workers.                                               *)

\* What a step of a worker of c does to the others.
LEMMA WorkerSeen ==
    ASSUME TypeInv, NEW c \in Clients,
           RecvStep(c) \/ SendStep(c) \/ Peer(c) \/ SpuriousWakeup(c)
    PROVE  /\ UNCHANGED <<webSocketClientList, listLock, obj, cur, todo, msg, started>>
           /\ \A u \in Users : pc'[u] = pc[u]
           /\ \A d \in Clients \ {c} : pc'[Send(d)] = pc[Send(d)]
           /\ RecvStep(c) \/ Peer(c) => (pc'[Send(c)] \in EndingPCs <=> pc[Send(c)] \in EndingPCs)
           /\ \A d \in Clients : ToCome(d)' = ToCome(d)
           /\ \A u \in Users, d \in Clients : Constructs(u, d)' <=> Constructs(u, d)
           /\ \A d \in Clients \ {c} : /\ closing'[d] = closing[d] /\ hand'[d] = hand[d]
                                       /\ sendingQueue'[d] = sendingQueue[d]
           /\ SameBut(c)
<1>0. PcOK /\ DataOK
  BY DEF TypeInv, TypeOK
<1>1. UNCHANGED <<webSocketClientList, listLock, obj, cur, todo, msg, started>>
  BY DEF RecvStep, RecvSetup, RecvLoop, RecvError, RecvInterrupted, RecvAnswer, RecvSignal,
     SendStep, SendLock, SendCheck, SendWait, SendMessage, SendFailed, SpuriousWakeup,
     Peer, PeerShutdown, PeerReset, RecvFrame, userVars, RecvOnly, SendOnly
<1>2. \A d \in Clients \ {c} : /\ closing'[d] = closing[d] /\ hand'[d] = hand[d]
                               /\ sendingQueue'[d] = sendingQueue[d]
  BY <1>0 DEF RecvStep, RecvSetup, RecvLoop, RecvError, RecvInterrupted, RecvAnswer, RecvSignal,
     SendStep, SendLock, SendCheck, SendWait, SendMessage, SendFailed, SpuriousWakeup, Push,
     Peer, PeerShutdown, PeerReset, RecvFrame, RecvOnly, SendOnly, clientVars, queueVars, DataOK
<1>3. /\ \A u \in Users : pc'[u] = pc[u]
      /\ \A d \in Clients \ {c} : pc'[Send(d)] = pc[Send(d)]
      /\ RecvStep(c) \/ Peer(c) => (pc'[Send(c)] \in EndingPCs <=> pc[Send(c)] \in EndingPCs)
  <2>1. CASE RecvStep(c) \/ RecvFrame(c)
    <3>1. PICK label : Moves(Recv(c), label) \/ Wakes(Recv(c), label, c)
      BY <1>0, <2>1, RecvMoves
    <3>2. \A x \in Threads : x # Recv(c) =>
              pc'[x] = pc[x] \/ (pc[x] = "waiting" /\ pc'[x] = "woken" /\ x = Send(c))
      BY <3>1 DEF Moves, Wakes
    <3>3. "waiting" \notin EndingPCs /\ "woken" \notin EndingPCs
      BY DEF EndingPCs, TeardownPCs
    <3>4. QED
      BY <3>2, <3>3, ThreadFacts
  <2>2. CASE SendStep(c) \/ SpuriousWakeup(c)
    <3>1. PICK label : Moves(Send(c), label)
      BY <1>0, <2>2, SendMoves
    <3>2. /\ \A u \in Users : pc'[u] = pc[u]
          /\ \A d \in Clients \ {c} : pc'[Send(d)] = pc[Send(d)]
      BY <3>1, ThreadFacts DEF Moves
    <3>3. RecvStep(c) \/ Peer(c) => (pc'[Send(c)] \in EndingPCs <=> pc[Send(c)] \in EndingPCs)
      <4>1. CASE PeerShutdown(c) \/ PeerReset(c)
        BY <4>1 DEF PeerShutdown, PeerReset
      <4>2. QED
        BY <2>1, <4>1 DEF Peer
    <3>4. QED
      BY <3>2, <3>3
  <2>3. CASE PeerShutdown(c) \/ PeerReset(c)
    BY <2>3 DEF PeerShutdown, PeerReset
  <2>4. QED
    BY <2>1, <2>2, <2>3 DEF Peer
<1>4. \A d \in Clients : ToCome(d)' = ToCome(d)
  BY <1>1, <1>3, SameToCome
<1>5. \A u \in Users, d \in Clients : Constructs(u, d)' <=> Constructs(u, d)
  BY <1>1, <1>3 DEF Constructs
<1>6. SameBut(c)
  BY <1>1, <1>2, <1>3, <1>4, <1>5, SameClient DEF SameBut
<1>7. QED
  BY <1>1, <1>2, <1>3, <1>4, <1>5, <1>6

\* A client whose sending has not ended, before and after a step of its workers.
LEMMA StillSending ==
    ASSUME TypeInv, IInv, NEW c \in Clients, obj[c] = "alive", ~Ending(c),
           UNCHANGED <<webSocketClientList, obj>>,
           \A u \in Users : Constructs(u, c)' <=> Constructs(u, c),
           ToCome(c)' = ToCome(c),
           ~Ending(c)'
    PROVE  /\ Phase(c) \in {"outside", "member", "leaving"} /\ Phase(c)' = Phase(c)
           /\ Pending(c) = InHand(c) \o sendingQueue[c] \o ToCome(c)
           /\ Pending(c)' = InHand(c)' \o sendingQueue'[c] \o ToCome(c)
<1>1. Constructing(c)' <=> Constructing(c)
  BY DEF Constructing, Constructs
<1>2. Phase(c)' = Phase(c)
  BY <1>1 DEF Phase
<1>3. Phase(c) \in {"outside", "member", "leaving"}
  BY DEF Phase
<1>4. QED
  BY <1>2, <1>3 DEF Pending
LEMMA StepReceiver ==
    ASSUME TypeInv, IInv, ViewInv, NEW c \in Clients, RecvStep(c) \/ Peer(c)
    PROVE  [Promise!Next]_(Promise!vars)
<1>0. PcOK /\ DataOK
  BY DEF TypeInv, TypeOK
<1>1. UNCHANGED <<hand, wire>> /\ InHand(c)' = InHand(c)
  BY DEF RecvStep, RecvSetup, RecvLoop, RecvError, RecvInterrupted, RecvAnswer, RecvSignal,
     Peer, PeerShutdown, PeerReset, RecvFrame, RecvOnly, queueVars, InHand
<1>2. CASE RecvError(c) \/ RecvAnswer(c)
  <2>1. obj[c] = "alive" /\ obj'[c] = "alive"
    BY <1>2, WorkerSeen DEF RecvError, RecvAnswer, At, IInv, AliveInv, Running
  <2>2. CASE RecvError(c)
    <3>1. Ending(c)'
      BY <1>0, <2>2 DEF RecvError, Ending, DataOK
    <3>2. QED
      BY <1>1, <2>1, <3>1, EndsOrEnded, WorkerSeen
  <2>3. CASE RecvAnswer(c)
    <3>1. PICK a \in {Pong, Close} : Push(c, a)
      BY <2>3 DEF RecvAnswer
    <3>2. Ending(c)' <=> Ending(c)
      BY <2>3, WorkerSeen DEF Ending, EndingPCs, RecvAnswer
    <3>3. CASE Ending(c)
      BY <1>1, <2>1, <3>2, <3>3, EndsOrEnded, WorkerSeen
    <3>4. CASE ~Ending(c)
      <4>1. ~closing[c] /\ sendingQueue'[c] = Append(sendingQueue[c], a)
        BY <1>0, <3>1, <3>4 DEF Ending, Push, DataOK
      <4>2. /\ Phase(c) \in {"outside", "member", "leaving"} /\ Phase(c)' = Phase(c)
            /\ Pending(c) = InHand(c) \o sendingQueue[c] \o ToCome(c)
            /\ Pending(c)' = InHand(c) \o Append(sendingQueue[c], a) \o ToCome(c)
        BY <1>1, <2>1, <3>2, <3>4, <4>1, StillSending, WorkerSeen
      <4> DEFINE p == InHand(c) \o sendingQueue[c]
      <4>3. /\ InHand(c) \in Seq(Messages) /\ sendingQueue[c] \in Seq(Messages)
            /\ ToCome(c) \in Seq(Messages) /\ a \in Messages /\ <<a>> \in Seq(Messages)
        BY PendingParts DEF Messages
      <4>4. p \in Seq(Messages) /\ InHand(c) \o Append(sendingQueue[c], a) = p \o <<a>>
        <5>1. p \in Seq(Messages)
          BY <4>3, Concat
        <5>2. Append(sendingQueue[c], a) = sendingQueue[c] \o <<a>>
          BY <4>3, Concat
        <5>3. (InHand(c) \o sendingQueue[c]) \o <<a>> = InHand(c) \o (sendingQueue[c] \o <<a>>)
          <6> HIDE DEF p
          <6>1. \A u, v, x \in Seq(Messages) : (u \o v) \o x = u \o (v \o x)
            BY SMTT(60), Concat
          <6>2. QED
            BY ZenonT(60), <4>3, <6>1
        <5>4. QED
          BY <5>1, <5>2, <5>3
      <4>5. p \o <<a>> \in Seq(Messages)
        BY <4>3, <4>4, Concat
      <4> HIDE DEF p
      <4>6. Pending(c) = p \o ToCome(c) /\ Pending(c)' = p \o <<a>> \o ToCome(c)
        BY <4>2, <4>4 DEF p
      <4>7. /\ Len(p) \in 0..Len(Pending(c))
            /\ Pending(c)' = SubSeq(Pending(c), 1, Len(p)) \o <<a>>
                             \o SubSeq(Pending(c), Len(p) + 1, Len(Pending(c)))
        <5>1. /\ Len(p) \in 0..Len(p \o ToCome(c))
              /\ SubSeq(p \o ToCome(c), 1, Len(p)) = p
              /\ SubSeq(p \o ToCome(c), Len(p) + 1, Len(p \o ToCome(c))) = ToCome(c)
          BY <4>3, <4>4, Parts
        <5>2. QED
          BY <4>6, <5>1
      <4>8. Len(Pending(c)') > Len(Pending(c))
        <5>1. Len(Pending(c)) = Len(p) + Len(ToCome(c))
          BY <4>3, <4>4, <4>6, ConcatProperties
        <5>2. Len(p \o <<a>>) = Len(p) + 1
          BY <4>3, <4>4, ConcatProperties
        <5>3. Len(Pending(c)') = Len(p \o <<a>>) + Len(ToCome(c))
          BY <4>3, <4>5, <4>6, ConcatProperties
        <5>4. Len(p) \in Nat /\ Len(ToCome(c)) \in Nat
          BY <4>3, <4>4, LenProperties
        <5>5. QED
          BY <5>1, <5>2, <5>3, <5>4
      <4>9. Promise!Answer(c)
        BY <1>1, <4>2, <4>7, <4>8, AsAnswer, WorkerSeen
      <4>10. QED
        BY <4>9 DEF Promise!Next
    <3>5. QED
      BY <3>3, <3>4
  <2>4. QED
    BY <1>2, <2>2, <2>3
<1>3. CASE ~(RecvError(c) \/ RecvAnswer(c))
  <2>1. UNCHANGED <<closing, sendingQueue>>
    BY <1>3 DEF RecvStep, RecvSetup, RecvLoop, RecvInterrupted, RecvSignal,
       Peer, PeerShutdown, PeerReset, RecvFrame, clientVars, queueVars
  <2>2. \A d \in Clients : pc'[Send(d)] \in EndingPCs <=> pc[Send(d)] \in EndingPCs
    BY WorkerSeen
  <2>3. QED
    BY <1>1, <2>1, <2>2, Unseen, WorkerSeen
<1>4. QED
  BY <1>2, <1>3

LEMMA StepSender ==
    ASSUME TypeInv, IInv, ViewInv, NEW c \in Clients, SendStep(c) \/ SpuriousWakeup(c)
    PROVE  [Promise!Next]_(Promise!vars)
<1>0. PcOK /\ DataOK
  BY DEF TypeInv, TypeOK
<1>1. /\ closing' = closing /\ pc[Send(c)] \in SendWork
      /\ obj[c] = "alive" /\ obj'[c] = "alive"
  <2>1. pc[Send(c)] \in SendWork
    BY <1>0, SendMoves
  <2>2. obj[c] = "alive"
    BY <2>1 DEF SendWork, IInv, AliveInv, Running
  <2>3. QED
    BY <2>1, <2>2, WorkerSeen DEF SendStep, SendLock, SendCheck, SendWait, SendMessage,
       SendFailed, SpuriousWakeup, SendOnly, clientVars
<1>2. Ending(c) <=> closing[c]
  BY <1>1 DEF SendWork, Ending, TeardownPCs
<1>3. CASE SendLock(c) \/ SendWait(c) \/ SpuriousWakeup(c)
  <2>1. UNCHANGED <<sendingQueue, hand, wire>> /\ pc'[Send(c)] \in {"check", "waiting", "woken"}
    BY <1>0, <1>3, ThreadFacts DEF SendLock, SendWait, SpuriousWakeup, queueVars, Goto, PcOK
  <2>2. \A d \in Clients : pc'[Send(d)] \in EndingPCs <=> pc[Send(d)] \in EndingPCs
    BY <1>1, <2>1, WorkerSeen DEF EndingPCs, TeardownPCs, SendWork
  <2>3. QED
    BY <1>1, <2>1, <2>2, Unseen, WorkerSeen
<1>4. CASE SendCheck(c)
  <2>1. wire' = wire /\ pc[Send(c)] = "check"
    BY <1>4 DEF SendCheck, At
  <2>2. CASE closing[c]
    <3>1. Ending(c)' /\ InHand(c)' = InHand(c)
      BY <1>1, <1>4, <2>2 DEF Ending, InHand, SendCheck
    <3>2. QED
      BY <1>1, <2>1, <3>1, EndsOrEnded, WorkerSeen
  <2>3. CASE ~closing[c] /\ sendingQueue[c] = <<>>
    <3>1. UNCHANGED <<sendingQueue, hand>> /\ pc'[Send(c)] = "doze"
      BY <1>0, <1>4, <2>3, ThreadFacts DEF SendCheck, Goto, PcOK
    <3>2. \A d \in Clients : pc'[Send(d)] \in EndingPCs <=> pc[Send(d)] \in EndingPCs
      BY <2>1, <3>1, WorkerSeen DEF EndingPCs, TeardownPCs
    <3>3. QED
      BY <1>1, <2>1, <3>1, <3>2, Unseen, WorkerSeen
  <2>4. CASE ~closing[c] /\ sendingQueue[c] # <<>>
    <3>1. /\ hand'[c] = Head(sendingQueue[c]) /\ sendingQueue'[c] = Tail(sendingQueue[c])
          /\ pc'[Send(c)] = "send"
      BY <1>0, <1>4, <2>4, ThreadFacts DEF SendCheck, Goto, PcOK, DataOK
    <3>2. /\ sendingQueue[c] \in Seq(Messages) /\ ToCome(c) \in Seq(Messages)
          /\ Head(sendingQueue[c]) \in Messages
          /\ <<Head(sendingQueue[c])>> \o Tail(sendingQueue[c]) = sendingQueue[c]
      BY <2>4, PendingParts, Rest
    <3>3. InHand(c) = <<>> /\ InHand(c)' = <<Head(sendingQueue[c])>>
      BY <2>1, <3>1, <3>2, EndpointAssumption DEF ViewInv, HandInv, InHand
    <3>4. ~Ending(c) /\ ~Ending(c)'
      BY <1>1, <1>2, <2>4, <3>1 DEF Ending, TeardownPCs
    <3>5. /\ Phase(c)' = Phase(c)
          /\ Pending(c) = <<>> \o sendingQueue[c] \o ToCome(c)
          /\ Pending(c)' = <<Head(sendingQueue[c])>> \o Tail(sendingQueue[c]) \o ToCome(c)
      BY <1>1, <3>1, <3>3, <3>4, StillSending, WorkerSeen
    <3>6. Pending(c)' = Pending(c)
      BY ZenonT(60), <3>2, <3>5, Concat
    <3>7. QED
      BY <2>1, <3>5, <3>6, AsStutter, WorkerSeen DEF SameBut, Same
  <2>5. QED
    BY <2>2, <2>3, <2>4
<1>5. CASE SendMessage(c) \/ SendFailed(c)
  <2> DEFINE m == hand[c]
  <2>1. /\ m \in Messages /\ InHand(c) = <<m>> /\ InHand(c)' = <<>>
        /\ sendingQueue' = sendingQueue /\ pc'[Send(c)] \in {"lock", "once"}
    BY <1>0, <1>5, ThreadFacts, EndpointAssumption
       DEF SendMessage, SendFailed, At, Goto, PcOK, DataOK, InHand, TypeInv, HandOK
  <2>2. PICK q \in Seq(Messages) :
           /\ Pending(c) = <<m>> \o q
           /\ Ending(c)' => Phase(c)' = "closing" /\ Pending(c)' = <<>>
           /\ Ending(c) => Phase(c) = "closing" /\ q = <<>>
           /\ ~Ending(c) => Phase(c) \in {"outside", "member", "leaving"}
           /\ ~Ending(c) /\ ~Ending(c)' => Phase(c)' = Phase(c) /\ Pending(c)' = q
    <3>1. Ending(c)' => Phase(c)' = "closing" /\ Pending(c)' = <<>>
      BY <1>1, <2>1 DEF Phase, Pending
    <3>2. CASE Ending(c)
      <4>1. Phase(c) = "closing" /\ Pending(c) = <<m>>
        BY <1>1, <2>1, <3>2 DEF Phase, Pending
      <4>2. <<>> \in Seq(Messages) /\ <<m>> \in Seq(Messages) /\ <<m>> \o <<>> = <<m>>
        BY <2>1, Concat
      <4>3. QED
        BY <3>1, <3>2, <4>1, <4>2
    <3>3. CASE ~Ending(c)
      <4> DEFINE q == sendingQueue[c] \o ToCome(c)
      <4>1. Phase(c) \in {"outside", "member", "leaving"}
        BY <1>1, <3>3 DEF Phase
      <4>2. Pending(c) = <<m>> \o q /\ q \in Seq(Messages)
        BY <2>1, <4>1, HandFirst
      <4>3. sendingQueue[c] \in Seq(Messages) /\ <<>> \o sendingQueue[c] = sendingQueue[c]
        BY PendingParts, Concat
      <4>4. ~Ending(c)' => Phase(c)' = Phase(c) /\ Pending(c)' = <<>> \o sendingQueue[c] \o ToCome(c)
        BY <1>1, <2>1, <3>3, StillSending, WorkerSeen
      <4>5. ~Ending(c)' => Phase(c)' = Phase(c) /\ Pending(c)' = q
        BY <4>3, <4>4
      <4> HIDE DEF q
      <4>6. QED
        BY <3>1, <3>3, <4>1, <4>2, <4>5
    <3>4. QED
      BY <3>2, <3>3
  <2>3. /\ Pending(c) # <<>> /\ Head(Pending(c)) = m /\ Tail(Pending(c)) = q
    BY <2>1, <2>2, First
  <2>4. CASE SendMessage(c)
    <3>1. Ending(c)' <=> Ending(c)
      BY <1>0, <1>1, <1>2, <2>4, ThreadFacts DEF SendMessage, Ending, Goto, PcOK, TeardownPCs
    <3>2. Phase(c)' = Phase(c) /\ Pending(c)' = Tail(Pending(c))
      BY <2>2, <2>3, <3>1
    <3>3. wire' = IF m \in {Pong, Close} THEN wire ELSE [wire EXCEPT ![c] = Append(@, m)]
      BY <1>0, <2>1, <2>4, EndpointAssumption DEF SendMessage, Messages, DataOK
    <3>4. Promise!Receive(c)
      BY <2>3, <3>2, <3>3, AsReceive, WorkerSeen
    <3>5. QED
      BY <3>4 DEF Promise!Next
  <2>5. CASE SendFailed(c)
    <3>1. Ending(c)' /\ wire' = wire
      BY <1>0, <2>5, ThreadFacts DEF SendFailed, Ending, Goto, PcOK
    <3>2. CASE Ending(c)
      <4>1. Promise!Lose(c)
        BY <2>2, <2>3, <3>1, <3>2, AsLose, WorkerSeen
      <4>2. QED
        BY <4>1 DEF Promise!Next
    <3>3. CASE ~Ending(c)
      <4>1. <<m>> \in Seq(Messages) /\ Pending(c) \in Seq(Messages)
        BY <2>1, <2>2, Concat
      <4>2. SubSeq(Pending(c), 1, 0) = <<>> /\ 0 <= Len(Pending(c))
        BY <4>1, SubSeqProperties, LenProperties, EmptySeq
      <4>3. Promise!EndConnection(c)
        BY <2>2, <3>1, <3>3, <4>2, AsEnd, WorkerSeen
      <4>4. QED
        BY <4>3 DEF Promise!Next
    <3>4. QED
      BY <3>2, <3>3
  <2>6. QED
    BY <1>5, <2>4, <2>5
<1>6. QED
  BY <1>3, <1>4, <1>5 DEF SendStep

-----------------------------------------------------------------------------
(* The theorem.                                                            *)

LEMMA PromiseInit == Init => Promise!Init
<1> SUFFICES ASSUME Init PROVE Promise!Init
  OBVIOUS
<1>1. \A c \in Clients : Phase(c) = "outside"
  BY DEF Init, Phase
<1>2. \A c \in Clients : Pending(c) = <<>>
  <2>1. \A c \in Clients : InHand(c) = <<>> /\ sendingQueue[c] = <<>> /\ ToCome(c) = <<>>
    BY EndpointAssumption, ThreadFacts DEF Init, InHand, ToCome
  <2>2. <<>> \in Seq(Messages)
    OBVIOUS
  <2>3. QED
    BY <1>1, <2>1, <2>2, Concat DEF Pending
<1>3. QED
  BY <1>1, <1>2 DEF Init, Promise!Init

LEMMA PromiseNext ==
    TypeInv /\ IInv /\ ViewInv /\ [Next]_vars => [Promise!Next]_(Promise!vars)
<1> SUFFICES ASSUME TypeInv, IInv, ViewInv, [Next]_vars
             PROVE  [Promise!Next]_(Promise!vars)
  OBVIOUS
<1>1. CASE UNCHANGED vars
  <2>1. \A d \in Clients : ToCome(d)' = ToCome(d)
    BY <1>1, SameToCome DEF vars, userVars
  <2>2. QED
    BY <1>1, <2>1, Unseen DEF vars, clientVars, queueVars, userVars, Constructs
<1>2. ASSUME NEW u \in Users, UserCall(u) \/ UserStep(u)
      PROVE  [Promise!Next]_(Promise!vars)
  BY <1>2, StepCalls, StepConstruct, StepLoop DEF UserStep
<1>3. QED
  BY <1>1, <1>2, StepClose, StepReceiver, StepSender DEF Next

\* Whatever threads call, close, send and receive, the endpoint keeps its
\* promise: a broadcast reaches at one moment all who are members then, and a
\* client receives what was broadcast to it in that order and without a gap
\* until its connection ends (WebSocket::sendBroadcast*, addSendingQueue(),
\* sendingThread(), finalizeClose()).
THEOREM EndpointKeepsPromise == Spec => BroadcastPromise
<1>1. Spec => Promise!Init
  BY PromiseInit DEF Spec
<1>2. Spec => [][Promise!Next]_(Promise!vars)
  BY PromiseNext, ViewInvariance, PTL DEF Spec
<1>3. QED
  BY <1>1, <1>2 DEF BroadcastPromise, Promise!Spec
=============================================================================
