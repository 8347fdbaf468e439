--------------------------- MODULE WebServerPool ---------------------------
(***************************************************************************)
(* The service of class WebServer: the main thread accepts connections and *)
(* queues them, the threads of the pool take them from clientsQueue and    *)
(* serve them, and a thread of the application stops the service.          *)
(*                                                                         *)
(* exit() runs under clientsQueue_mutex, but `exiting' and `exitedThread'  *)
(* are also read and written without it.  A connection that was upgraded   *)
(* to a WebSocket belongs to its endpoint (module WebSocketEndpoint); here *)
(* it is closed by its peer or by exit().                                  *)
(***************************************************************************)
EXTENDS Naturals, Sequences, FiniteSets

CONSTANTS
    Workers,       \* the threads of the pool
    Main,          \* the thread of threadProcessing()
    Stopper,       \* the thread that calls stopService(), once
    Conns,         \* the connections of clients
    NoThread,      \* "nobody holds the mutex"
    NoConn,        \* "the thread holds no connection"
    SslEnabled,    \* whether the service is TLS
    Events         \* the outside events an instance allows

AllEvents == {"hostRefused", "handshakeFail", "upgrade", "upgradeRefused",
              "earlyStop", "stopInInit"}

ASSUME PoolAssumption ==
    /\ IsFiniteSet(Workers) /\ Workers # {}
    /\ Main \notin Workers /\ Stopper \notin Workers \cup {Main}
    /\ NoThread \notin Workers \cup {Main, Stopper}
    /\ NoConn \notin Conns
    /\ SslEnabled \in BOOLEAN
    /\ Events \subseteq AllEvents

Threads == Workers \cup {Main, Stopper}
Servers == Workers \cup {Main}     \* the threads that may hold a connection

VARIABLES
    exiting, exitedThread,   \* fields of WebServer, volatile and unlocked
    clientsQueue,            \* field of WebServer
    clientsQueue_mutex,      \* holder of the mutex
    sslCtx,                  \* the TLS context
    listening,               \* whether the server sockets are open
    conn,                    \* where a connection is
    held,                    \* the connection a server thread works on
    toClose,                 \* the WebSocket clients exit() has still to close
    pc                       \* thread -> where it is

flagVars == <<exiting, exitedThread>>
sockVars == <<sslCtx, listening>>
connVars == <<clientsQueue, conn, held>>
vars == <<flagVars, clientsQueue_mutex, sockVars, connVars, toClose, pc>>

WorkerPCs == {"unborn", "loop", "lock", "waiting", "woken", "test", "handshake",
              "serve", "upgrade", "free", "leave", "unlock", "exited"}
MainPCs == {"begin", "init", "spawn", "reset", "poll", "accept", "accepted", "push",
            "signal", "drain", "destroy", "done"}
StopperPCs == {"idle", "lock", "closeClients", "freeCtx", "returned"}

TypeOK ==
    /\ exiting \in BOOLEAN
    /\ exitedThread \in 0..Cardinality(Workers)
    /\ clientsQueue \in Seq(Conns)
    /\ clientsQueue_mutex \in Workers \cup {Stopper, NoThread}
    /\ sslCtx \in {"none", "live", "freed"}
    /\ listening \in BOOLEAN
    /\ conn \in [Conns -> {"away", "backlog", "accepted", "queued", "taken",
                           "websocket", "refused", "lost", "freed"}]
    /\ held \in [Servers -> Conns \cup {NoConn}]
    /\ toClose \subseteq Conns
    /\ pc \in [Threads -> WorkerPCs \cup MainPCs \cup StopperPCs]
    /\ \A w \in Workers : pc[w] \in WorkerPCs
    /\ pc[Main] \in MainPCs /\ pc[Stopper] \in StopperPCs

Init ==
    /\ exiting = FALSE /\ exitedThread = 0
    /\ clientsQueue = <<>>
    /\ clientsQueue_mutex = NoThread
    /\ sslCtx = "none" /\ listening = FALSE
    /\ conn = [c \in Conns |-> "away"]
    /\ held = [t \in Servers |-> NoConn]
    /\ toClose = {}
    /\ pc = [t \in Threads |-> IF t = Main THEN "begin"
                               ELSE IF t = Stopper THEN "idle" ELSE "unborn"]

At(t, label) == pc[t] = label
Goto(t, label) == pc' = [pc EXCEPT ![t] = label]
Lock(t) == clientsQueue_mutex = NoThread /\ clientsQueue_mutex' = t
Unlock(t) == clientsQueue_mutex = t /\ clientsQueue_mutex' = NoThread
Waiting == {w \in Workers : pc[w] = "waiting"}

-----------------------------------------------------------------------------
(* The main thread: threadProcessing(), init(), initPoolThreads().         *)

Begin ==
    /\ At(Main, "begin")
    /\ exiting' = FALSE /\ exitedThread' = 0
    /\ Goto(Main, "init")
    /\ UNCHANGED <<clientsQueue_mutex, sockVars, connVars, toClose>>

\* init(): build the TLS context, bind and listen.
InitSockets ==
    /\ At(Main, "init")
    /\ sslCtx' = IF SslEnabled THEN "live" ELSE sslCtx
    /\ listening' = TRUE
    /\ Goto(Main, "spawn")
    /\ UNCHANGED <<flagVars, clientsQueue_mutex, connVars, toClose>>

\* initPoolThreads() creates the workers one after the other.
Spawn ==
    /\ At(Main, "spawn")
    /\ \E w \in Workers :
         /\ At(w, "unborn")
         /\ pc' = [pc EXCEPT ![w] = "loop",
                             ![Main] = IF \A v \in Workers \ {w} : ~At(v, "unborn")
                                       THEN "reset" ELSE "spawn"]
    /\ UNCHANGED <<flagVars, clientsQueue_mutex, sockVars, connVars, toClose>>

\* Its last statement, once the workers run.
ResetExited ==
    /\ At(Main, "reset")
    /\ exitedThread' = 0
    /\ Goto(Main, "poll")
    /\ UNCHANGED <<exiting, clientsQueue_mutex, sockVars, connVars, toClose>>

\* The loop test, and poll() that finds a connection to accept.  poll() that
\* times out is no step.
Poll ==
    /\ At(Main, "poll")
    /\ \/ exiting /\ Goto(Main, "drain")
       \/ ~exiting /\ (\E c \in Conns : conn[c] = "backlog") /\ Goto(Main, "accept")
    /\ UNCHANGED <<flagVars, clientsQueue_mutex, sockVars, connVars, toClose>>

\* accept() takes a connection, or fails on a socket exit() has closed.
Accept ==
    /\ At(Main, "accept")
    /\ \/ \E c \in Conns : /\ conn[c] = "backlog"
                           /\ conn' = [conn EXCEPT ![c] = "accepted"]
                           /\ held' = [held EXCEPT ![Main] = c]
       \/ (\A c \in Conns : conn[c] # "backlog") /\ UNCHANGED <<conn, held>>
    /\ Goto(Main, "accepted")
    /\ UNCHANGED <<flagVars, clientsQueue_mutex, sockVars, clientsQueue, toClose>>

\* Drop it when exiting, refuse it when its address is not allowed, go on
\* with it otherwise; nothing is done for a failed accept().
Accepted ==
    /\ At(Main, "accepted")
    /\ LET c == held[Main] IN
       \/ /\ c = NoConn
          /\ Goto(Main, "poll")
          /\ UNCHANGED <<conn, held>>
       \/ /\ c # NoConn
          /\ exiting \/ "hostRefused" \in Events
          /\ conn' = [conn EXCEPT ![c] = IF exiting THEN "lost" ELSE "refused"]
          /\ held' = [held EXCEPT ![Main] = NoConn]
          /\ Goto(Main, "poll")
       \/ /\ c # NoConn /\ ~exiting
          /\ Goto(Main, "push")
          /\ UNCHANGED <<conn, held>>
    /\ UNCHANGED <<flagVars, clientsQueue_mutex, sockVars, clientsQueue, toClose>>

\* lock, push, unlock.
Push ==
    /\ At(Main, "push")
    /\ clientsQueue_mutex = NoThread
    /\ clientsQueue' = Append(clientsQueue, held[Main])
    /\ conn' = [conn EXCEPT ![held[Main]] = "queued"]
    /\ held' = [held EXCEPT ![Main] = NoConn]
    /\ Goto(Main, "signal")
    /\ UNCHANGED <<flagVars, clientsQueue_mutex, sockVars, toClose>>

\* Mutant: a new connection is not signalled.
SignalBug ==
    /\ At(Main, "signal")
    /\ Goto(Main, "poll")
    /\ UNCHANGED <<flagVars, clientsQueue_mutex, sockVars, connVars, toClose>>

\* pthread_cond_signal() wakes one waiting worker, if there is one.
Signal ==
    /\ At(Main, "signal")
    /\ \/ Waiting = {} /\ Goto(Main, "poll")
       \/ \E w \in Waiting : pc' = [pc EXCEPT ![w] = "woken", ![Main] = "poll"]
    /\ UNCHANGED <<flagVars, clientsQueue_mutex, sockVars, connVars, toClose>>

\* Mutant: the main thread only looks at the counter.
DrainBug ==
    /\ At(Main, "drain")
    /\ exitedThread = Cardinality(Workers)
    /\ Goto(Main, "destroy")
    /\ UNCHANGED <<flagVars, clientsQueue_mutex, sockVars, connVars, toClose>>

\* Mutant: the main thread does not wait for the last worker.
DrainEarly ==
    /\ At(Main, "drain")
    /\ \/ /\ exitedThread + 1 >= Cardinality(Workers)
          /\ Goto(Main, "destroy")
       \/ /\ exitedThread + 1 < Cardinality(Workers) /\ Waiting # {}
          /\ pc' = [t \in Threads |-> IF t \in Waiting THEN "woken" ELSE pc[t]]
    /\ UNCHANGED <<flagVars, clientsQueue_mutex, sockVars, connVars, toClose>>

\* Broadcast, without the mutex, until every worker has counted itself out.
Drain ==
    /\ At(Main, "drain")
    /\ \/ /\ exitedThread = Cardinality(Workers)
          /\ Goto(Main, "destroy")
       \/ /\ exitedThread # Cardinality(Workers) /\ Waiting # {}
          /\ pc' = [t \in Threads |-> IF t \in Waiting THEN "woken" ELSE pc[t]]
    /\ UNCHANGED <<flagVars, clientsQueue_mutex, sockVars, connVars, toClose>>

\* pthread_mutex_destroy(), and the thread ends.
Destroy ==
    /\ At(Main, "destroy")
    /\ Goto(Main, "done")
    /\ UNCHANGED <<flagVars, clientsQueue_mutex, sockVars, connVars, toClose>>

-----------------------------------------------------------------------------
(* A worker: poolThreadProcessing(), and accept_request() as it sees it.   *)

WorkerLoop(w) ==
    /\ At(w, "loop")
    /\ Goto(w, IF exiting THEN "leave" ELSE "lock")
    /\ UNCHANGED <<flagVars, clientsQueue_mutex, sockVars, connVars, toClose>>

\* pthread_mutex_lock(), or the return of pthread_cond_wait().
WorkerLock(w) ==
    /\ pc[w] \in {"lock", "woken"}
    /\ Lock(w)
    /\ Goto(w, "test")
    /\ UNCHANGED <<flagVars, sockVars, connVars, toClose>>

\* Nothing to do: wait, releasing the mutex.
WorkerWait(w) ==
    /\ At(w, "test")
    /\ clientsQueue = <<>> /\ ~exiting
    /\ Unlock(w)
    /\ Goto(w, "waiting")
    /\ UNCHANGED <<flagVars, sockVars, connVars, toClose>>

SpuriousWakeup(w) ==
    /\ At(w, "waiting")
    /\ Goto(w, "woken")
    /\ UNCHANGED <<flagVars, clientsQueue_mutex, sockVars, connVars, toClose>>

WorkerQuit(w) ==
    /\ At(w, "test")
    /\ exiting
    /\ Unlock(w)
    /\ Goto(w, "leave")
    /\ UNCHANGED <<flagVars, sockVars, connVars, toClose>>

\* Mutant: the mutex is released before the handshake.
TakeUnlocked(w) ==
    /\ At(w, "test")
    /\ clientsQueue # <<>> /\ ~exiting
    /\ clientsQueue' = Tail(clientsQueue)
    /\ conn' = [conn EXCEPT ![Head(clientsQueue)] = "taken"]
    /\ held' = [held EXCEPT ![w] = Head(clientsQueue)]
    /\ Goto(w, IF SslEnabled THEN "handshake" ELSE "serve")
    /\ Unlock(w)
    /\ UNCHANGED <<flagVars, sockVars, toClose>>

\* Take the oldest connection.  A TLS handshake follows under the mutex.
Take(w) ==
    /\ At(w, "test")
    /\ clientsQueue # <<>> /\ ~exiting
    /\ clientsQueue' = Tail(clientsQueue)
    /\ conn' = [conn EXCEPT ![Head(clientsQueue)] = "taken"]
    /\ held' = [held EXCEPT ![w] = Head(clientsQueue)]
    /\ IF SslEnabled THEN Goto(w, "handshake") /\ UNCHANGED clientsQueue_mutex
                     ELSE Goto(w, "serve") /\ Unlock(w)
    /\ UNCHANGED <<flagVars, sockVars, toClose>>

\* SSL_new(), SSL_accept() and the check of the peer's certificate: when one
\* of them fails the connection is freed under the mutex.
Handshake(w) ==
    /\ At(w, "handshake")
    /\ Unlock(w)
    /\ \/ Goto(w, "serve") /\ UNCHANGED <<conn, held>>
       \/ /\ "handshakeFail" \in Events
          /\ conn' = [conn EXCEPT ![held[w]] = "freed"]
          /\ held' = [held EXCEPT ![w] = NoConn]
          /\ Goto(w, "loop")
    /\ UNCHANGED <<flagVars, sockVars, clientsQueue, toClose>>

\* accept_request() serves requests until the connection is to be closed, or
\* until it has read an upgrade for an endpoint.  `exiting' is tested after
\* every line read, so an upgrade is read to its end only while it is false.
Serve(w) ==
    /\ At(w, "serve")
    /\ \/ Goto(w, "free")
       \/ "upgrade" \in Events /\ ~exiting /\ Goto(w, "upgrade")
    /\ UNCHANGED <<flagVars, clientsQueue_mutex, sockVars, connVars, toClose>>

\* Mutant: accept_request() returns true after an upgrade.
UpgradeBug(w) ==
    /\ At(w, "upgrade")
    /\ conn' = [conn EXCEPT ![held[w]] = "websocket"]
    /\ Goto(w, "free")
    /\ UNCHANGED <<flagVars, clientsQueue_mutex, sockVars, clientsQueue, held, toClose>>

\* The 101 response could not be sent; or newConnectionRequest() lists the
\* client, or refuses and frees it.
Upgrade(w) ==
    /\ At(w, "upgrade")
    /\ \/ Goto(w, "free") /\ UNCHANGED <<conn, held>>
       \/ \E where \in {"websocket"} \cup (IF "upgradeRefused" \in Events THEN {"freed"} ELSE {}) :
            /\ conn' = [conn EXCEPT ![held[w]] = where]
            /\ held' = [held EXCEPT ![w] = NoConn]
            /\ Goto(w, "loop")
    /\ UNCHANGED <<flagVars, clientsQueue_mutex, sockVars, clientsQueue, toClose>>

\* freeClientSockData().
FreeClient(w) ==
    /\ At(w, "free")
    /\ conn' = [conn EXCEPT ![held[w]] = "freed"]
    /\ held' = [held EXCEPT ![w] = NoConn]
    /\ Goto(w, "loop")
    /\ UNCHANGED <<flagVars, clientsQueue_mutex, sockVars, clientsQueue, toClose>>

\* Mutant: a worker that leaves is counted twice.
WorkerCountBug(w) ==
    /\ At(w, "leave")
    /\ Lock(w)
    /\ exitedThread' = exitedThread + 2
    /\ Goto(w, "unlock")
    /\ UNCHANGED <<exiting, sockVars, connVars, toClose>>

WorkerCount(w) ==
    /\ At(w, "leave")
    /\ Lock(w)
    /\ exitedThread' = exitedThread + 1
    /\ Goto(w, "unlock")
    /\ UNCHANGED <<exiting, sockVars, connVars, toClose>>

WorkerUnlock(w) ==
    /\ At(w, "unlock")
    /\ Unlock(w)
    /\ Goto(w, "exited")
    /\ UNCHANGED <<flagVars, sockVars, connVars, toClose>>

-----------------------------------------------------------------------------
(* The application: stopService(), that is exit().                         *)

\* startService() has been called: the main thread exists, and may not have
\* run yet ("earlyStop") or be on its way to the loop ("stopInInit").
StopService ==
    /\ At(Stopper, "idle")
    /\ "earlyStop" \in Events \/ pc[Main] # "begin"
    /\ "stopInInit" \in Events \/ pc[Main] \notin {"init", "spawn", "reset"}
    /\ Goto(Stopper, "lock")
    /\ UNCHANGED <<flagVars, clientsQueue_mutex, sockVars, connVars, toClose>>

\* lock; exiting = true; removeAllClients() detaches the endpoint's clients.
ExitBegin ==
    /\ At(Stopper, "lock")
    /\ Lock(Stopper)
    /\ exiting' = TRUE
    /\ toClose' = {c \in Conns : conn[c] = "websocket"}
    /\ Goto(Stopper, "closeClients")
    /\ UNCHANGED <<exitedThread, sockVars, connVars>>

\* closeWS(), with the joins of the client's threads.
CloseClient ==
    /\ At(Stopper, "closeClients")
    /\ \E c \in toClose :
         /\ toClose' = toClose \ {c}
         /\ conn' = [conn EXCEPT ![c] = "freed"]
    /\ UNCHANGED <<flagVars, clientsQueue_mutex, sockVars, clientsQueue, held, pc>>

\* Close the server sockets, with the connections nobody has accepted; unlock.
ExitEnd ==
    /\ At(Stopper, "closeClients")
    /\ toClose = {}
    /\ Unlock(Stopper)
    /\ listening' = FALSE
    /\ conn' = [c \in Conns |-> IF conn[c] = "backlog" THEN "refused" ELSE conn[c]]
    /\ Goto(Stopper, "freeCtx")
    /\ UNCHANGED <<flagVars, sslCtx, clientsQueue, held, toClose>>

\* SSL_CTX_free(), and stopService() returns.
FreeCtx ==
    /\ At(Stopper, "freeCtx")
    /\ sslCtx' = IF sslCtx = "live" THEN "freed" ELSE sslCtx
    /\ Goto(Stopper, "returned")
    /\ UNCHANGED <<flagVars, clientsQueue_mutex, listening, connVars, toClose>>

-----------------------------------------------------------------------------
(* The clients.                                                            *)

Connect(c) ==
    /\ listening /\ conn[c] = "away"
    /\ conn' = [conn EXCEPT ![c] = "backlog"]
    /\ UNCHANGED <<flagVars, clientsQueue_mutex, sockVars, clientsQueue, held, toClose, pc>>

\* A WebSocket client closes, unless exit() has already detached it.
WebSocketEnds(c) ==
    /\ conn[c] = "websocket" /\ c \notin toClose
    /\ conn' = [conn EXCEPT ![c] = "freed"]
    /\ UNCHANGED <<flagVars, clientsQueue_mutex, sockVars, clientsQueue, held, toClose, pc>>

-----------------------------------------------------------------------------

MainStep ==
    \/ Begin \/ InitSockets \/ Spawn \/ ResetExited \/ Poll \/ Accept \/ Accepted
    \/ Push \/ Signal \/ Drain \/ Destroy

WorkerStep(w) ==
    \/ WorkerLoop(w) \/ WorkerLock(w) \/ WorkerWait(w) \/ WorkerQuit(w) \/ Take(w)
    \/ Handshake(w) \/ Serve(w) \/ Upgrade(w) \/ FreeClient(w)
    \/ WorkerCount(w) \/ WorkerUnlock(w)

ExitStep == ExitBegin \/ CloseClient \/ ExitEnd \/ FreeCtx

Next ==
    \/ MainStep \/ StopService \/ ExitStep
    \/ \E w \in Workers : WorkerStep(w) \/ SpuriousWakeup(w)
    \/ \E c \in Conns : Connect(c) \/ WebSocketEnds(c)

Spec == Init /\ [][Next]_vars

\* Threads that can run go on, and a mutex released again and again is granted
\* to each thread that wants it: reads and handshakes end, at the latest when
\* the socket times out.  Connections and the call of stopService() are never
\* owed.
Fairness ==
    /\ WF_vars(MainStep) /\ SF_vars(Push)
    /\ WF_vars(ExitStep) /\ SF_vars(ExitBegin)
    /\ \A w \in Workers : /\ WF_vars(WorkerStep(w))
                          /\ SF_vars(WorkerLock(w)) /\ SF_vars(WorkerCount(w))

FairSpec == Spec /\ Fairness

-----------------------------------------------------------------------------
(* Properties                                                              *)

\* A ClientSockData has one owner at a time, through queue, worker, endpoint
\* and exit(): what a worker or the main thread holds is neither queued, nor
\* held by another, nor given to an endpoint, nor freed.
OneOwner ==
    /\ \A t \in Servers : held[t] # NoConn =>
         /\ conn[held[t]] = IF t = Main THEN "accepted" ELSE "taken"
         /\ \A s \in Servers \ {t} : held[s] # held[t]
    /\ \A i, j \in 1..Len(clientsQueue) :
         /\ conn[clientsQueue[i]] = "queued"
         /\ clientsQueue[i] = clientsQueue[j] => i = j

\* threadProcessing() has cleared the flag exit() set: nobody will stop.
StopLost == ~exiting /\ pc[Stopper] \in {"closeClients", "freeCtx", "returned"}

\* exit() frees the TLS context while workers run: no handshake uses it then,
\* because the handshake, the test of `exiting' and exit() share the mutex.
\* (A stop that was lost frees the context of the service that goes on.)
CtxLiveInHandshake ==
    ~StopLost => \A w \in Workers : pc[w] = "handshake" => sslCtx = "live"

\* When the main thread destroys clientsQueue_mutex every worker has counted
\* itself out: none serves a client, none will lock the mutex again, and
\* exit() is past its unlock.
PoolJoined ==
    pc[Main] \in {"destroy", "done"} =>
        /\ \A w \in Workers : pc[w] \in {"unlock", "exited"}
        /\ pc[Stopper] \in {"freeCtx", "returned"}

\* A queued connection is taken by a worker, however workers and main thread
\* interleave around the condition variable, unless the service is stopped.
QueueServed ==
    \A c \in Conns : conn[c] = "queued" ~> conn[c] # "queued" \/ exiting

\* Once stopService() is called on a started service, the pool and the main
\* thread come to an end: a worker that is about to wait, waits or serves is
\* reached by the broadcasts of threadProcessing().
StopCompletes ==
    At(Stopper, "lock") /\ pc[Main] \notin {"begin", "init", "spawn", "reset"}
        ~> At(Main, "done") /\ \A w \in Workers : At(w, "exited")
=============================================================================
