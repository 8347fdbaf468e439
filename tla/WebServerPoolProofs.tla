------------------------- MODULE WebServerPoolProofs -------------------------
(***************************************************************************)
(* Theorems about WebServerPool, for any number of workers and connections *)
(* and any combination of the outside events.                              *)
(***************************************************************************)
EXTENDS WebServerPool, FiniteSetTheorems, SequenceTheorems, TLAPS

-----------------------------------------------------------------------------
(* The inductive invariant.                                                *)

\* clientsQueue_mutex is held by exactly the thread inside one of its sections.
MutexInv ==
    /\ \A w \in Workers :
         pc[w] \in {"test", "handshake", "unlock"} <=> clientsQueue_mutex = w
    /\ pc[Stopper] = "closeClients" <=> clientsQueue_mutex = Stopper

\* A thread has a connection where its code uses one.
HeldInv ==
    /\ \A w \in Workers :
         held[w] # NoConn <=> pc[w] \in {"handshake", "serve", "upgrade", "free"}
    /\ held[Main] # NoConn => pc[Main] \in {"accepted", "push"}
    /\ pc[Main] = "push" => held[Main] # NoConn

\* exit() closes what is a WebSocket, and nobody else does meanwhile.
CloseInv == \A c \in toClose : conn[c] = "websocket"

\* Who has seen `exiting' has it from exit(); who has counted itself out has
\* had the mutex after exit().
ExitInv ==
    /\ exiting => pc[Stopper] \in {"closeClients", "freeCtx", "returned"}
    /\ \A w \in Workers :
         /\ pc[w] = "leave" => pc[Stopper] \in {"closeClients", "freeCtx", "returned"}
         /\ pc[w] \in {"unlock", "exited"} => pc[Stopper] \in {"freeCtx", "returned"}

\* The TLS context lives from init() to the end of exit(); a handshake is
\* started, under the mutex, while nobody has called exit().
CtxInv ==
    /\ \A w \in Workers :
         /\ pc[w] = "handshake" => SslEnabled /\ ~exiting
         /\ pc[w] # "unborn" => pc[Main] \notin {"begin", "init"}
    /\ SslEnabled /\ pc[Main] \notin {"begin", "init"} /\ pc[Stopper] # "returned"
         => sslCtx = "live"

\* exitedThread never counts a worker that has not left, though ResetExited
\* may forget some that have.
Counted == {w \in Workers : pc[w] \in {"unlock", "exited"}}
CountInv ==
    /\ exitedThread <= Cardinality(Counted)
    /\ pc[Main] \in {"destroy", "done"} => Counted = Workers

IInv ==
    /\ TypeOK /\ MutexInv /\ HeldInv /\ OneOwner
    /\ CloseInv /\ ExitInv /\ CtxInv /\ CountInv

-----------------------------------------------------------------------------
(* Threads are told apart, and sets of workers can be counted.             *)

LEMMA ThreadFacts ==
    /\ Main \notin Workers /\ Stopper \notin Workers /\ Stopper # Main
    /\ NoThread \notin Workers /\ NoThread # Stopper
    /\ \A w \in Workers : w \in Threads /\ w \in Servers
    /\ Main \in Threads /\ Main \in Servers /\ Stopper \in Threads
BY PoolAssumption DEF Threads, Servers

LEMMA CountFacts ==
    /\ Cardinality(Workers) \in Nat
    /\ \A S \in SUBSET Workers :
         /\ IsFiniteSet(S) /\ Cardinality(S) \in Nat
         /\ Cardinality(S) <= Cardinality(Workers)
         /\ Cardinality(S) = Cardinality(Workers) => S = Workers
         /\ \A w \in Workers \ S : Cardinality(S \cup {w}) = Cardinality(S) + 1
    /\ Counted \in SUBSET Workers
<1>1. IsFiniteSet(Workers) /\ Cardinality(Workers) \in Nat
  BY PoolAssumption, FS_CardinalityType
<1>2. ASSUME NEW S \in SUBSET Workers
      PROVE  /\ IsFiniteSet(S) /\ Cardinality(S) \in Nat
             /\ Cardinality(S) <= Cardinality(Workers)
             /\ Cardinality(S) = Cardinality(Workers) => S = Workers
             /\ \A w \in Workers \ S : Cardinality(S \cup {w}) = Cardinality(S) + 1
  BY <1>1, FS_Subset, FS_CardinalityType, FS_AddElement
<1>3. QED
  BY <1>1, <1>2 DEF Counted

\* A step that counts nobody, and brings nobody nearer to the destruction.
LEMMA CountFrame ==
    ASSUME CountInv, UNCHANGED exitedThread,
           \A w \in Workers : pc'[w] \in {"unlock", "exited"} <=> pc[w] \in {"unlock", "exited"},
           pc'[Main] \in {"destroy", "done"} => pc[Main] \in {"destroy", "done"}
    PROVE  CountInv'
<1>1. Counted' = Counted
  BY DEF Counted
<1>2. QED
  BY <1>1 DEF CountInv

\* The first connection of the queue, and what is left without it.
LEMMA QueueFacts ==
    ASSUME clientsQueue \in Seq(Conns), clientsQueue # <<>>
    PROVE  /\ Head(clientsQueue) = clientsQueue[1] /\ Head(clientsQueue) \in Conns
           /\ 1 \in 1..Len(clientsQueue)
           /\ Tail(clientsQueue) \in Seq(Conns)
           /\ Len(Tail(clientsQueue)) = Len(clientsQueue) - 1
           /\ \A i \in 1..Len(Tail(clientsQueue)) :
                Tail(clientsQueue)[i] = clientsQueue[i + 1] /\ i + 1 \in 1..Len(clientsQueue)
BY HeadTailProperties, EmptySeq

-----------------------------------------------------------------------------
(* Every step keeps the invariant.                                         *)

LEMMA Initially == Init => IInv
<1> SUFFICES ASSUME Init PROVE IInv
  OBVIOUS
<1>1. TypeOK
  <2>1. exitedThread \in 0..Cardinality(Workers) /\ clientsQueue \in Seq(Conns)
    BY CountFacts DEF Init
  <2>2. QED
    BY <2>1, ThreadFacts DEF Init, TypeOK, WorkerPCs, MainPCs, StopperPCs, Threads, Servers
<1>2. MutexInv /\ HeldInv /\ CloseInv /\ ExitInv /\ CtxInv
  BY ThreadFacts DEF Init, MutexInv, HeldInv, CloseInv, ExitInv, CtxInv, Threads
<1>3. OneOwner
  BY DEF Init, OneOwner
<1>4. CountInv
  BY ThreadFacts, CountFacts DEF Init, CountInv
<1>5. QED
  BY <1>1, <1>2, <1>3, <1>4 DEF IInv

\* The main thread.  Only Drain looks at the counter: every worker must have
\* counted itself out for it to pass.
LEMMA MainKeeps == ASSUME IInv, MainStep PROVE IInv'
<1> USE ThreadFacts DEF IInv, At, Goto, Waiting, flagVars, sockVars, connVars
<1>  USE DEF TypeOK, WorkerPCs, MainPCs, StopperPCs, Threads, Servers, HeldInv, MutexInv,
            OneOwner, CloseInv, ExitInv, CtxInv
<1>1. ASSUME Begin \/ ResetExited PROVE IInv'
  <2>1. exitedThread' = 0 /\ 0 <= Cardinality(Counted') /\ 0 \in 0..Cardinality(Workers)
    BY <1>1, CountFacts DEF Begin, ResetExited, Counted
  <2>2. CountInv'
    BY <1>1, <2>1 DEF CountInv, Begin, ResetExited
  <2>3. CASE Begin
    <3>1. exitedThread' \in 0..Cardinality(Workers) /\ pc' = [pc EXCEPT ![Main] = "init"]
      BY <2>1, <2>3 DEF Begin
    <3>2. pc' \in [Threads -> WorkerPCs \cup MainPCs \cup StopperPCs]
      BY <3>1
    <3>3. TypeOK'
      BY ZenonT(60), <2>3, <3>1, <3>2 DEF Begin
    <3>4. MutexInv' /\ HeldInv' /\ OneOwner' /\ CloseInv' /\ ExitInv' /\ CtxInv'
      BY <2>3 DEF Begin
    <3>5. QED
      BY <2>2, <3>3, <3>4
  <2>4. CASE ResetExited
    BY <2>1, <2>2, <2>4 DEF ResetExited
  <2>5. QED
    BY <1>1, <2>3, <2>4
<1>2. CASE InitSockets
  BY <1>2, CountFrame DEF InitSockets
<1>3. CASE Spawn
  BY SMTT(60), <1>3, CountFrame DEF Spawn
<1>4. CASE Poll
  BY <1>4, CountFrame DEF Poll
<1>5. CASE Accept
  BY <1>5, CountFrame DEF Accept
<1>6. CASE Accepted
  BY <1>6, CountFrame DEF Accepted
<1>7. CASE Push
  BY <1>7, CountFrame DEF Push
<1>8. CASE Signal
  BY <1>8, CountFrame DEF Signal
<1>9. CASE Drain
  <2>1. CASE exitedThread = Cardinality(Workers)
    <3>1. Counted = Workers
      BY SMTT(60), <2>1, CountFacts DEF CountInv
    <3>2. Counted' = Counted /\ exitedThread' = exitedThread
      BY <1>9, <2>1 DEF Drain, Counted
    <3>3. CountInv'
      BY <3>1, <3>2 DEF CountInv
    <3>4. QED
      BY <1>9, <2>1, <3>3 DEF Drain
  <2>2. CASE exitedThread # Cardinality(Workers)
    BY <1>9, <2>2, CountFrame DEF Drain
  <2>3. QED
    BY <2>1, <2>2
<1>10. CASE Destroy
  BY SMTT(60), <1>10, CountFrame DEF Destroy
<1>11. QED
  BY <1>1, <1>2, <1>3, <1>4, <1>5, <1>6, <1>7, <1>8, <1>9, <1>10 DEF MainStep

\* A worker.  Take moves the oldest connection from the queue to the worker;
\* WorkerCount has the mutex, so that exit() has given it back by then.
LEMMA WorkerKeeps == ASSUME IInv, NEW w \in Workers, WorkerStep(w) \/ SpuriousWakeup(w) PROVE IInv'
<1> USE ThreadFacts DEF IInv, At, Goto, Lock, Unlock, flagVars, sockVars, connVars
<1>  USE DEF TypeOK, WorkerPCs, MainPCs, StopperPCs, Threads, Servers, HeldInv, MutexInv,
            OneOwner, CloseInv, ExitInv, CtxInv
<1>1. CASE WorkerLoop(w)
  BY <1>1, CountFrame DEF WorkerLoop
<1>2. CASE WorkerLock(w)
  BY <1>2, CountFrame DEF WorkerLock
<1>3. CASE WorkerWait(w)
  BY <1>3, CountFrame DEF WorkerWait
<1>4. CASE WorkerQuit(w)
  BY <1>4, CountFrame DEF WorkerQuit
<1>5. CASE Take(w)
  <2>1. conn[Head(clientsQueue)] = "queued"
    BY <1>5, QueueFacts DEF Take
  <2>2. OneOwner'
    BY <1>5, <2>1, QueueFacts DEF Take
  <2>3. TypeOK'
    BY SMTT(60), <1>5, QueueFacts, PoolAssumption DEF Take
  <2>7. HeldInv'
    BY SMTT(60), <1>5, QueueFacts, PoolAssumption DEF Take
  <2>4. MutexInv' /\ CloseInv' /\ ExitInv' /\ CtxInv'
    BY SMTT(60), <1>5, <2>1 DEF Take
  <2>5. CountInv'
    BY <1>5, CountFrame DEF Take
  <2>6. QED
    BY <2>2, <2>3, <2>4, <2>5, <2>7
<1>6. CASE Handshake(w)
  BY SMTT(60), <1>6, CountFrame DEF Handshake
<1>7. CASE Serve(w)
  BY <1>7, CountFrame DEF Serve
<1>8. CASE Upgrade(w)
  BY SMTT(60), <1>8, CountFrame DEF Upgrade
<1>9. CASE FreeClient(w)
  BY <1>9, CountFrame DEF FreeClient
<1>10. CASE WorkerCount(w)
  <2>1. Counted' = Counted \cup {w} /\ w \notin Counted
    BY <1>10 DEF WorkerCount, Counted
  <2>2. Cardinality(Counted') = Cardinality(Counted) + 1 /\ exitedThread' = exitedThread + 1
    BY SMTT(60), <1>10, <2>1, CountFacts DEF WorkerCount
  <2>3. Cardinality(Counted') <= Cardinality(Workers) /\ Cardinality(Counted) \in Nat
    BY <2>1, CountFacts
  <2>4. exitedThread' <= Cardinality(Counted') /\ exitedThread' \in 0..Cardinality(Workers)
    BY <2>2, <2>3, CountFacts DEF CountInv
  <2>5. CountInv'
    BY <1>10, <2>1, <2>4 DEF WorkerCount, CountInv
  <2>6. QED
    BY <1>10, <2>4, <2>5 DEF WorkerCount
<1>11. CASE WorkerUnlock(w)
  BY <1>11, CountFrame DEF WorkerUnlock
<1>12. CASE SpuriousWakeup(w)
  BY SMTT(60), <1>12, CountFrame DEF SpuriousWakeup
<1>13. QED
  BY <1>1, <1>2, <1>3, <1>4, <1>5, <1>6, <1>7, <1>8, <1>9, <1>10, <1>11, <1>12 DEF WorkerStep

\* stopService(), and exit() under the mutex.
LEMMA StopKeeps == ASSUME IInv, StopService \/ ExitStep PROVE IInv'
<1> USE ThreadFacts DEF IInv, At, Goto, Lock, Unlock, flagVars, sockVars, connVars
<1>  USE DEF TypeOK, WorkerPCs, MainPCs, StopperPCs, Threads, Servers, HeldInv, MutexInv,
            OneOwner, CloseInv, ExitInv, CtxInv
<1>1. CASE StopService
  BY <1>1, CountFrame DEF StopService
<1>2. CASE ExitBegin
  BY <1>2, CountFrame DEF ExitBegin
<1>3. CASE CloseClient
  BY <1>3, CountFrame DEF CloseClient
<1>4. CASE ExitEnd
  <2>1. /\ conn' \in [Conns -> {"away", "backlog", "accepted", "queued", "taken",
                                "websocket", "refused", "lost", "freed"}]
        /\ \A c \in Conns : conn[c] # "backlog" => conn'[c] = conn[c]
    BY <1>4 DEF ExitEnd
  <2>2. TypeOK'
    BY <1>4, <2>1 DEF ExitEnd
  <2>3. OneOwner' /\ CloseInv'
    BY <1>4, <2>1 DEF ExitEnd
  <2>4. MutexInv' /\ HeldInv' /\ ExitInv' /\ CtxInv' /\ CountInv'
    BY <1>4, CountFrame DEF ExitEnd
  <2>5. QED
    BY <2>2, <2>3, <2>4
<1>5. CASE FreeCtx
  BY <1>5, CountFrame DEF FreeCtx
<1>6. QED
  BY <1>1, <1>2, <1>3, <1>4, <1>5 DEF ExitStep

\* Connections that come, and WebSocket clients that go.
LEMMA ClientKeeps == ASSUME IInv, NEW c \in Conns, Connect(c) \/ WebSocketEnds(c) PROVE IInv'
<1> USE DEF IInv, TypeOK, HeldInv, MutexInv, OneOwner, CloseInv, ExitInv, CtxInv
<1>1. UNCHANGED <<exitedThread, pc>>
  BY DEF Connect, WebSocketEnds, flagVars
<1>2. CountInv'
  BY <1>1, CountFrame
<1>3. QED
  BY SMTT(60), <1>2 DEF Connect, WebSocketEnds, flagVars, sockVars

LEMMA Invariance == IInv /\ [Next]_vars => IInv'
<1> SUFFICES ASSUME IInv, [Next]_vars PROVE IInv'
  OBVIOUS
<1>1. CASE MainStep \/ StopService \/ ExitStep
  BY <1>1, MainKeeps, StopKeeps
<1>2. ASSUME NEW w \in Workers, WorkerStep(w) \/ SpuriousWakeup(w) PROVE IInv'
  BY <1>2, WorkerKeeps
<1>3. ASSUME NEW c \in Conns, Connect(c) \/ WebSocketEnds(c) PROVE IInv'
  BY <1>3, ClientKeeps
<1>4. CASE UNCHANGED vars
  BY <1>4 DEF vars, flagVars, sockVars, connVars, IInv, TypeOK, MutexInv, HeldInv, OneOwner,
              CloseInv, ExitInv, CtxInv, CountInv, Counted
<1>5. QED
  BY <1>1, <1>2, <1>3, <1>4 DEF Next

\* The inductive invariant holds of every behaviour.
THEOREM Inductive == Spec => []IInv
<1>1. QED
  BY Initially, Invariance, PTL DEF Spec

-----------------------------------------------------------------------------
(* The properties.                                                         *)

\* Every variable of the service keeps its type; in particular exitedThread
\* never exceeds the number of workers, so that `exitedThread !=
\* threadsPoolSize' of threadProcessing() cannot miss its end.
THEOREM PoolTypeCorrect == Spec => []TypeOK
<1>1. IInv => TypeOK
  BY DEF IInv
<1>2. QED
  BY <1>1, Inductive, PTL

\* A ClientSockData has one owner at a time: accept loop, queue, worker,
\* endpoint or exit(), for any number of workers and connections.
THEOREM SingleOwner == Spec => []OneOwner
<1>1. IInv => OneOwner
  BY DEF IInv
<1>2. QED
  BY <1>1, Inductive, PTL

\* A handshake holds clientsQueue_mutex from the test of `exiting' to its end,
\* and exit() sets the flag under that mutex before it frees the TLS context.
THEOREM HandshakeHasContext == Spec => []CtxLiveInHandshake
<1>1. IInv => CtxLiveInHandshake
  <2> SUFFICES ASSUME IInv, ~StopLost, NEW w \in Workers, pc[w] = "handshake"
               PROVE  sslCtx = "live"
    BY DEF CtxLiveInHandshake
  <2>1. SslEnabled /\ ~exiting /\ pc[Main] \notin {"begin", "init"}
    BY DEF IInv, CtxInv
  <2>2. pc[Stopper] # "returned"
    BY <2>1 DEF StopLost
  <2>3. QED
    BY <2>1, <2>2 DEF IInv, CtxInv
<1>2. QED
  BY <1>1, Inductive, PTL

\* threadProcessing() destroys clientsQueue_mutex when every worker has counted
\* itself out, which none does before exit() has given the mutex back.
THEOREM MutexOutlivesPool == Spec => []PoolJoined
<1>1. IInv => PoolJoined
  <2> SUFFICES ASSUME IInv, pc[Main] \in {"destroy", "done"}
               PROVE  /\ \A w \in Workers : pc[w] \in {"unlock", "exited"}
                      /\ pc[Stopper] \in {"freeCtx", "returned"}
    BY DEF PoolJoined
  <2>1. \A w \in Workers : pc[w] \in {"unlock", "exited"}
    BY DEF IInv, CountInv, Counted
  <2>2. \E w \in Workers : TRUE
    BY PoolAssumption
  <2>3. QED
    BY <2>1, <2>2 DEF IInv, ExitInv
<1>2. QED
  BY <1>1, Inductive, PTL
=============================================================================
