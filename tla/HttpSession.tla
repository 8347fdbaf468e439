---------------------------- MODULE HttpSession ----------------------------
(***************************************************************************)
(* Class HttpSession: the sessions of a server, shared by the threads that *)
(* answer requests, and the use HttpRequest and WebSocketClient make of    *)
(* them.  Every access locks sessions_mutex and is one step; what a caller *)
(* does between two of them is not protected.                              *)
(*                                                                         *)
(* A session maps names to blocks of memory, which it owns; one of them    *)
(* holds the time the session expires.  The type of an attribute only      *)
(* selects free() or delete and is left out.                               *)
(***************************************************************************)
EXTENDS Naturals, FiniteSets

CONSTANTS
    Threads,      \* threads that answer requests
    Ids,          \* the ids create() may draw
    Blocks,       \* the blocks malloc() and the application may allocate
    NoId,         \* the empty sessionId
    Null,
    LifeTime,     \* sessionLifeTime
    SweepPeriod,  \* the 60 seconds between two sweeps
    MaxTime,      \* bound of the clock
    Events        \* what the application does, in an instance

AllEvents == {"attribute", "remove", "removeAll", "upgrade"}

Names == {"session_expiration", "attribute"}
Session == [Names -> Blocks \cup {Null}]

\* Null is no block and no session: it stands for a null pointer.
ASSUME SessionAssumption ==
    /\ NoId \notin Ids /\ Null \notin Blocks /\ Null \notin Session
    /\ LifeTime \in Nat \ {0} /\ SweepPeriod \in Nat /\ MaxTime \in Nat \ {0}
    /\ Events \subseteq AllEvents

VARIABLES
    now,                       \* time(NULL)
    lastExpirationSearchTime,
    sessions,                  \* id -> the session, or Null
    heap,                      \* the life of a block
    due,                       \* the time stored in a block, 0 for none
    owed,                      \* history: id -> when its last renewal ends
    cookies,                   \* the ids clients know
    websockets,                \* the sessions of open WebSocket clients
    sid,                       \* thread -> sessionId of its request
    ptr,                       \* thread -> what getAttribute() returned to it
    pc                         \* thread -> where it is

timeVars == <<now, lastExpirationSearchTime>>
storeVars == <<sessions, heap, due, owed>>
peerVars == <<cookies, websockets>>
threadVars == <<sid, ptr, pc>>
vars == <<timeVars, storeVars, peerVars, threadVars>>

NewSession == [n \in Names |-> Null]

\* updateExpiration() and noExpiration() first get the pointer, then write;
\* they are called by find() of a request or of create(), and by the
\* constructor and the teardown of a WebSocket client.
WriteOf == [renew |-> "renewWrite", redraw |-> "redrawWrite",
            hold |-> "holdWrite", restore |-> "restoreWrite"]
ReturnOf == [renewWrite |-> "handler", redrawWrite |-> "create",
             holdWrite |-> "upgraded", restoreWrite |-> "end"]
PCs == DOMAIN WriteOf \cup DOMAIN ReturnOf \cup
       {"idle", "find", "handler", "create", "insert", "expiration", "sweepTest",
        "sweep", "swept", "upgraded", "end"}

TypeOK ==
    /\ now \in 1..MaxTime
    /\ lastExpirationSearchTime \in 0..MaxTime
    /\ sessions \in [Ids -> Session \cup {Null}]
    /\ heap \in [Blocks -> {"unused", "live", "freed"}]
    /\ due \in [Blocks -> 0..(MaxTime + LifeTime)]
    /\ owed \in [Ids -> 0..(MaxTime + LifeTime)]
    /\ cookies \subseteq Ids /\ websockets \subseteq Ids
    /\ sid \in [Threads -> Ids \cup {NoId}]
    /\ ptr \in [Threads -> Blocks \cup {Null}]
    /\ pc \in [Threads -> PCs]

Init ==
    /\ now = 1 /\ lastExpirationSearchTime = 0
    /\ sessions = [id \in Ids |-> Null]
    /\ heap = [b \in Blocks |-> "unused"]
    /\ due = [b \in Blocks |-> 0]
    /\ owed = [id \in Ids |-> 0]
    /\ cookies = {} /\ websockets = {}
    /\ sid = [t \in Threads |-> NoId]
    /\ ptr = [t \in Threads |-> Null]
    /\ pc = [t \in Threads |-> "idle"]

At(t, label) == pc[t] = label
Goto(t, label) == pc' = [pc EXCEPT ![t] = label]

Exists(id) == sessions[id] # Null
Stored(id) == IF Exists(id) THEN {sessions[id][n] : n \in Names} \ {Null} ELSE {}

\* removeAllAttribute(), delete and erase, for the sessions of ids.
Erase(ids) ==
    /\ heap' = [b \in Blocks |-> IF b \in UNION {Stored(id) : id \in ids}
                                 THEN "freed" ELSE heap[b]]
    /\ sessions' = [id \in Ids |-> IF id \in ids THEN Null ELSE sessions[id]]
    /\ owed' = [id \in Ids |-> IF id \in ids THEN 0 ELSE owed[id]]

\* setAttribute() of a new block: it frees the block it replaces.  When the
\* session does not exist, the new block is nobody's.
Put(id, name, b) ==
    LET old == IF Exists(id) THEN sessions[id][name] ELSE Null IN
    /\ heap[b] = "unused"
    /\ heap' = [x \in Blocks |-> IF x = b THEN "live" ELSE IF x = old THEN "freed" ELSE heap[x]]
    /\ sessions' = IF Exists(id) THEN [sessions EXCEPT ![id][name] = b] ELSE sessions

-----------------------------------------------------------------------------
(* A request: the cookie, find(), and what the handler may call.           *)

StartRequest(t) ==
    /\ At(t, "idle")
    /\ \E id \in cookies \cup {NoId} :
         /\ sid' = [sid EXCEPT ![t] = id]
         /\ Goto(t, IF id = NoId THEN "handler" ELSE "find")
    /\ UNCHANGED <<timeVars, storeVars, peerVars, ptr>>

Find(t) ==
    /\ At(t, "find")
    /\ sid' = [sid EXCEPT ![t] = IF Exists(@) THEN @ ELSE NoId]
    /\ Goto(t, IF Exists(sid[t]) THEN "renew" ELSE "handler")
    /\ UNCHANGED <<timeVars, storeVars, peerVars, ptr>>

GetExpiration(t) ==
    /\ pc[t] \in DOMAIN WriteOf
    /\ LET e == IF Exists(sid[t]) THEN sessions[sid[t]]["session_expiration"] ELSE Null
           write == WriteOf[pc[t]]
       IN  /\ ptr' = [ptr EXCEPT ![t] = e]
           /\ Goto(t, IF e = Null THEN ReturnOf[write] ELSE write)
    /\ UNCHANGED <<timeVars, storeVars, peerVars, sid>>

\* Mutant: the life time is forgotten.
WriteExpirationBug(t) ==
    /\ pc[t] \in DOMAIN ReturnOf
    /\ LET time == IF At(t, "holdWrite") THEN 0 ELSE now IN
       /\ due' = IF heap[ptr[t]] = "live" THEN [due EXCEPT ![ptr[t]] = time] ELSE due
       /\ owed' = IF ptr[t] \in Stored(sid[t])
                  THEN [owed EXCEPT ![sid[t]] = IF time = 0 THEN 0 ELSE now + LifeTime] ELSE owed
    /\ ptr' = [ptr EXCEPT ![t] = Null]
    /\ Goto(t, ReturnOf[pc[t]])
    /\ UNCHANGED <<timeVars, sessions, heap, peerVars, sid>>

\* The block may have been freed since: then nothing this module can see.
WriteExpiration(t) ==
    /\ pc[t] \in DOMAIN ReturnOf
    /\ LET time == IF At(t, "holdWrite") THEN 0 ELSE now + LifeTime IN
       /\ due' = IF heap[ptr[t]] = "live" THEN [due EXCEPT ![ptr[t]] = time] ELSE due
       /\ owed' = IF ptr[t] \in Stored(sid[t]) THEN [owed EXCEPT ![sid[t]] = time] ELSE owed
    /\ ptr' = [ptr EXCEPT ![t] = Null]
    /\ Goto(t, ReturnOf[pc[t]])
    /\ UNCHANGED <<timeVars, sessions, heap, peerVars, sid>>

\* Mutant: setAttribute() as operator[]: it makes the session it misses.
SetAttributeBug(t) ==
    /\ At(t, "handler") /\ sid[t] # NoId /\ "attribute" \in Events
    /\ \E b \in Blocks :
         /\ heap[b] = "unused"
         /\ heap' = [heap EXCEPT ![b] = "live"]
         /\ sessions' = [sessions EXCEPT ![sid[t]] =
              [(IF Exists(sid[t]) THEN @ ELSE NewSession) EXCEPT !["attribute"] = b]]
    /\ UNCHANGED <<timeVars, due, owed, peerVars, threadVars>>

SetAttribute(t) ==
    /\ At(t, "handler") /\ sid[t] # NoId /\ "attribute" \in Events
    /\ \E b \in Blocks : Put(sid[t], "attribute", b)
    /\ UNCHANGED <<timeVars, due, owed, peerVars, threadVars>>

RemoveAttribute(t) ==
    /\ At(t, "handler") /\ sid[t] # NoId /\ "attribute" \in Events
    /\ Exists(sid[t]) /\ sessions[sid[t]]["attribute"] # Null
    /\ heap' = [heap EXCEPT ![sessions[sid[t]]["attribute"]] = "freed"]
    /\ sessions' = [sessions EXCEPT ![sid[t]]["attribute"] = Null]
    /\ UNCHANGED <<timeVars, due, owed, peerVars, threadVars>>

\* Mutant: the session is deleted but not erased.
RemoveBug(t) ==
    /\ At(t, "handler") /\ sid[t] # NoId /\ "remove" \in Events
    /\ heap' = [b \in Blocks |-> IF b \in Stored(sid[t]) THEN "freed" ELSE heap[b]]
    /\ UNCHANGED <<timeVars, sessions, due, owed, peerVars, threadVars>>

\* removeSession().  The request keeps its sessionId.
Remove(t) ==
    /\ At(t, "handler") /\ sid[t] # NoId /\ "remove" \in Events
    /\ Erase({sid[t]})
    /\ UNCHANGED <<timeVars, due, peerVars, threadVars>>

RemoveAll(t) ==
    /\ At(t, "handler") /\ "removeAll" \in Events
    /\ Erase(Ids)
    /\ UNCHANGED <<timeVars, due, peerVars, threadVars>>

\* Mutant: a cookie for an empty sessionId too.
EndRequestBug(t) ==
    /\ pc[t] \in {"handler", "end"}
    /\ cookies' = cookies \cup {sid[t]}
    /\ sid' = [sid EXCEPT ![t] = NoId]
    /\ Goto(t, "idle")
    /\ UNCHANGED <<timeVars, storeVars, websockets, ptr>>

\* The response carries the session's cookie.
EndRequest(t) ==
    /\ pc[t] \in {"handler", "end"}
    /\ cookies' = IF At(t, "handler") THEN cookies \cup ({sid[t]} \ {NoId}) ELSE cookies
    /\ sid' = [sid EXCEPT ![t] = NoId]
    /\ Goto(t, "idle")
    /\ UNCHANGED <<timeVars, storeVars, websockets, ptr>>

-----------------------------------------------------------------------------
(* create().                                                               *)

CreateSession(t) ==
    /\ At(t, "handler")
    /\ Goto(t, "create")
    /\ UNCHANGED <<timeVars, storeVars, peerVars, sid, ptr>>

\* Draw an id until find() says it is free; find() renews what it finds.  The
\* generator is seeded with the second, so two threads may draw one id.
DrawId(t) ==
    /\ At(t, "create")
    /\ \E id \in Ids : /\ sid' = [sid EXCEPT ![t] = id]
                       /\ Goto(t, IF Exists(id) THEN "redraw" ELSE "insert")
    /\ UNCHANGED <<timeVars, storeVars, peerVars, ptr>>

\* A session another thread has inserted meanwhile is lost, not freed.
Insert(t) ==
    /\ At(t, "insert")
    /\ sessions' = [sessions EXCEPT ![sid[t]] = NewSession]
    /\ owed' = [owed EXCEPT ![sid[t]] = 0]
    /\ Goto(t, "expiration")
    /\ UNCHANGED <<timeVars, heap, due, peerVars, sid, ptr>>

SetExpiration(t) ==
    /\ At(t, "expiration")
    /\ \E b \in Blocks :
         /\ Put(sid[t], "session_expiration", b)
         /\ due' = [due EXCEPT ![b] = now + LifeTime]
    /\ owed' = IF Exists(sid[t]) THEN [owed EXCEPT ![sid[t]] = now + LifeTime] ELSE owed
    /\ Goto(t, "sweepTest")
    /\ UNCHANGED <<timeVars, peerVars, sid, ptr>>

SweepTest(t) ==
    /\ At(t, "sweepTest")
    /\ Goto(t, IF now > lastExpirationSearchTime + SweepPeriod THEN "sweep" ELSE "handler")
    /\ UNCHANGED <<timeVars, storeVars, peerVars, sid, ptr>>

\* removeExpiredSession() keeps what has a time, not 0 and not yet reached.
Kept(id) ==
    LET e == sessions[id]["session_expiration"] IN e # Null /\ due[e] # 0 /\ due[e] > now

Sweep(t) ==
    /\ At(t, "sweep")
    /\ Erase({id \in Ids : Exists(id) /\ ~Kept(id)})
    /\ Goto(t, "swept")
    /\ UNCHANGED <<timeVars, due, peerVars, sid, ptr>>

Swept(t) ==
    /\ At(t, "swept")
    /\ lastExpirationSearchTime' = now
    /\ Goto(t, "handler")
    /\ UNCHANGED <<now, storeVars, peerVars, sid, ptr>>

-----------------------------------------------------------------------------
(* WebSocket clients: noSessionExpiration(), restoreSessionExpiration().   *)

Upgrade(t) ==
    /\ At(t, "handler") /\ sid[t] # NoId /\ "upgrade" \in Events
    /\ Goto(t, "hold")
    /\ UNCHANGED <<timeVars, storeVars, peerVars, sid, ptr>>

Upgraded(t) ==
    /\ At(t, "upgraded")
    /\ websockets' = websockets \cup {sid[t]}
    /\ sid' = [sid EXCEPT ![t] = NoId]
    /\ Goto(t, "idle")
    /\ UNCHANGED <<timeVars, storeVars, cookies, ptr>>

\* The thread that tears a WebSocket client down.
Teardown(t) ==
    /\ At(t, "idle")
    /\ \E id \in websockets :
         /\ websockets' = websockets \ {id}
         /\ sid' = [sid EXCEPT ![t] = id]
    /\ Goto(t, "restore")
    /\ UNCHANGED <<timeVars, storeVars, cookies, ptr>>

-----------------------------------------------------------------------------

Tick ==
    /\ now < MaxTime
    /\ now' = now + 1
    /\ UNCHANGED <<lastExpirationSearchTime, storeVars, peerVars, threadVars>>

ThreadStep(t) ==
    \/ StartRequest(t) \/ Find(t) \/ GetExpiration(t) \/ WriteExpiration(t)
    \/ SetAttribute(t) \/ RemoveAttribute(t) \/ Remove(t) \/ RemoveAll(t) \/ EndRequest(t)
    \/ CreateSession(t) \/ DrawId(t) \/ Insert(t) \/ SetExpiration(t)
    \/ SweepTest(t) \/ Sweep(t) \/ Swept(t)
    \/ Upgrade(t) \/ Upgraded(t) \/ Teardown(t)

Next == Tick \/ \E t \in Threads : ThreadStep(t)

Spec == Init /\ [][Next]_vars

-----------------------------------------------------------------------------
(* Properties                                                              *)

\* Whatever requests create, replace, remove and sweep at once, an attribute
\* of a session is memory that exists and that no other attribute owns.
AttributesOwned ==
    \A id1, id2 \in {id \in Ids : Exists(id)} : \A n1, n2 \in Names :
        sessions[id1][n1] # Null =>
            /\ heap[sessions[id1][n1]] = "live"
            /\ sessions[id1][n1] = sessions[id2][n2] => id1 = id2 /\ n1 = n2

\* A sweep of one thread spares a session that another has renewed less than
\* sessionLifeTime ago, by create() or by the find() of a request.
SweepSparesRenewed ==
    [][\A t \in Threads : At(t, "sweep") /\ pc'[t] = "swept" =>
         \A id \in Ids : Exists(id) /\ owed[id] > now => sessions'[id] # Null]_vars

\* A session that a request, a sweep or removeAllSession() has removed comes
\* back by create() only, not by a late call of a request that still has its id.
NoResurrection ==
    [][\A id \in Ids : ~Exists(id) /\ sessions'[id] # Null =>
         \E t \in Threads : At(t, "insert") /\ sid[t] = id /\ pc'[t] = "expiration"]_vars
=============================================================================
