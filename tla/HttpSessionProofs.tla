-------------------------- MODULE HttpSessionProofs --------------------------
(***************************************************************************)
(* Theorems about HttpSession, for any threads, ids, blocks and life time. *)
(***************************************************************************)
EXTENDS HttpSession, TLAPS

-----------------------------------------------------------------------------
(* The inductive invariant.                                                *)

\* Where a thread uses its sessionId without a test, it has one.
SidInv ==
    \A t \in Threads :
        pc[t] \in {"find", "insert", "expiration", "upgraded"}
                  \cup DOMAIN WriteOf \cup DOMAIN ReturnOf
            => sid[t] \in Ids

\* A thread that is about to write a time has a block that was the expiration
\* of its session; if it is an attribute of any session still, it is that.
PtrInv ==
    \A t \in Threads : pc[t] \in DOMAIN ReturnOf =>
        /\ ptr[t] \in Blocks /\ heap[ptr[t]] # "unused"
        /\ \A id \in Ids : \A n \in Names :
             Exists(id) /\ sessions[id][n] = ptr[t]
                 => id = sid[t] /\ n = "session_expiration"

\* What a session was promised last is what its expiration holds.
OwedInv ==
    \A id \in Ids : owed[id] # 0 =>
        /\ Exists(id) /\ sessions[id]["session_expiration"] # Null
        /\ due[sessions[id]["session_expiration"]] = owed[id]

IInv == TypeOK /\ SidInv /\ PtrInv /\ AttributesOwned /\ OwedInv

-----------------------------------------------------------------------------
(* Every step keeps the invariant.                                         *)

LEMMA Labels ==
    /\ DOMAIN WriteOf = {"renew", "redraw", "hold", "restore"}
    /\ DOMAIN ReturnOf = {"renewWrite", "redrawWrite", "holdWrite", "restoreWrite"}
    /\ WriteOf["renew"] = "renewWrite" /\ WriteOf["redraw"] = "redrawWrite"
    /\ WriteOf["hold"] = "holdWrite" /\ WriteOf["restore"] = "restoreWrite"
    /\ ReturnOf["renewWrite"] = "handler" /\ ReturnOf["redrawWrite"] = "create"
    /\ ReturnOf["holdWrite"] = "upgraded" /\ ReturnOf["restoreWrite"] = "end"
BY DEF WriteOf, ReturnOf

LEMMA Initially == Init => IInv
<1> SUFFICES ASSUME Init PROVE IInv
  OBVIOUS
<1>1. TypeOK
  BY SessionAssumption DEF Init, TypeOK, PCs
<1>2. SidInv /\ PtrInv
  BY Labels DEF Init, SidInv, PtrInv
<1>3. AttributesOwned /\ OwedInv
  BY SMTT(60) DEF Init, AttributesOwned, OwedInv, Exists
<1>4. QED
  BY <1>1, <1>2, <1>3 DEF IInv

\* A request, from its cookie to its response.  What setAttribute() and
\* removeAttribute() change is not where the time is.
LEMMA RequestKeeps ==
    ASSUME IInv, NEW t \in Threads,
           \/ StartRequest(t) \/ Find(t) \/ SetAttribute(t) \/ RemoveAttribute(t)
           \/ Remove(t) \/ RemoveAll(t) \/ EndRequest(t)
    PROVE  IInv'
<1> USE Labels, SessionAssumption
    DEF IInv, At, Goto, Exists, Stored, Session, Names, PCs, Put, Erase,
        timeVars, storeVars, peerVars, threadVars,
        TypeOK, SidInv, PtrInv, AttributesOwned, OwedInv
<1>1. CASE StartRequest(t)
  BY <1>1 DEF StartRequest
<1>2. CASE Find(t)
  BY <1>2 DEF Find
<1>3. CASE SetAttribute(t)
  <2>1. TypeOK' /\ SidInv' /\ PtrInv' /\ AttributesOwned'
    BY <1>3 DEF SetAttribute
  <2>2. \A id \in Ids :
          /\ Exists(id)' <=> Exists(id)
          /\ Exists(id) => sessions'[id]["session_expiration"] = sessions[id]["session_expiration"]
    BY SMTT(60), <1>3 DEF SetAttribute
  <2>3. OwedInv'
    BY SMTT(60), <1>3, <2>2 DEF SetAttribute
  <2>4. QED
    BY SMTT(60), <2>1, <2>3
<1>4. CASE RemoveAttribute(t)
  <2>1. TypeOK' /\ SidInv' /\ PtrInv' /\ AttributesOwned'
    BY <1>4 DEF RemoveAttribute
  <2>2. \A id \in Ids :
          /\ Exists(id)' <=> Exists(id)
          /\ Exists(id) => sessions'[id]["session_expiration"] = sessions[id]["session_expiration"]
    BY <1>4 DEF RemoveAttribute
  <2>3. OwedInv'
    BY SMTT(60), <1>4, <2>2 DEF RemoveAttribute
  <2>4. QED
    BY <2>1, <2>3
<1>5. CASE Remove(t)
  BY SMTT(60), <1>5 DEF Remove
<1>6. CASE RemoveAll(t)
  BY <1>6 DEF RemoveAll
<1>7. CASE EndRequest(t)
  BY SMTT(60), <1>7 DEF EndRequest
<1>8. QED
  BY SMTT(60), <1>1, <1>2, <1>3, <1>4, <1>5, <1>6, <1>7

\* updateExpiration() and noExpiration(): the block that is written is the
\* expiration of this session, or of none any more.
LEMMA RenewKeeps ==
    ASSUME IInv, NEW t \in Threads, GetExpiration(t) \/ WriteExpiration(t)
    PROVE  IInv'
<1> USE Labels, SessionAssumption
    DEF IInv, At, Goto, Exists, Stored, Session, Names, PCs,
        timeVars, storeVars, peerVars, threadVars,
        TypeOK, SidInv, PtrInv, AttributesOwned, OwedInv
<1>1. CASE GetExpiration(t)
  BY <1>1 DEF GetExpiration
<1>2. CASE WriteExpiration(t)
  <2>1. TypeOK' /\ SidInv' /\ PtrInv' /\ AttributesOwned'
    BY <1>2 DEF WriteExpiration
  <2>2. OwedInv'
    BY <1>2 DEF WriteExpiration
  <2>3. QED
    BY <2>1, <2>2
<1>3. QED
  BY SMTT(60), <1>1, <1>2

\* create(), with the sweep it may do.
LEMMA CreateKeeps ==
    ASSUME IInv, NEW t \in Threads,
           \/ CreateSession(t) \/ DrawId(t) \/ Insert(t) \/ SetExpiration(t)
           \/ SweepTest(t) \/ Sweep(t) \/ Swept(t)
    PROVE  IInv'
<1> USE Labels, SessionAssumption
    DEF IInv, At, Goto, Exists, Stored, Session, Names, NewSession, PCs, Put, Erase,
        timeVars, storeVars, peerVars, threadVars,
        TypeOK, SidInv, PtrInv, AttributesOwned, OwedInv
<1>1. CASE CreateSession(t)
  BY <1>1 DEF CreateSession
<1>2. CASE DrawId(t)
  BY <1>2 DEF DrawId
<1>3. CASE Insert(t)
  BY <1>3 DEF Insert
<1>4. CASE SetExpiration(t)
  <2>1. TypeOK' /\ SidInv' /\ PtrInv' /\ AttributesOwned'
    BY <1>4 DEF SetExpiration
  <2>2. PICK b \in Blocks :
          /\ heap[b] = "unused"
          /\ sessions' = IF Exists(sid[t])
                         THEN [sessions EXCEPT ![sid[t]]["session_expiration"] = b] ELSE sessions
          /\ due' = [due EXCEPT ![b] = now + LifeTime]
    BY ZenonT(60), <1>4 DEF SetExpiration
  <2>3. owed' = IF Exists(sid[t]) THEN [owed EXCEPT ![sid[t]] = now + LifeTime] ELSE owed
    BY <1>4 DEF SetExpiration
  <2>4. ASSUME NEW id \in Ids, owed'[id] # 0
        PROVE  /\ Exists(id)' /\ sessions'[id]["session_expiration"] # Null
               /\ due'[sessions'[id]["session_expiration"]] = owed'[id]
    <3>1. CASE id = sid[t] /\ Exists(id)
      BY <2>2, <2>3, <2>4, <3>1
    <3>2. CASE id # sid[t] \/ ~Exists(id)
      <4>1. owed'[id] = owed[id] /\ sessions'[id] = sessions[id]
        BY <1>4, <2>2, <2>3, <3>2 DEF SetExpiration
      <4>2. sessions[id]["session_expiration"] # b
        BY <2>2, <2>4, <4>1
      <4>3. QED
        BY <2>2, <2>4, <4>1, <4>2
    <3>3. QED
      BY <3>1, <3>2
  <2>5. QED
    BY SMTT(60), <2>1, <2>4
<1>5. CASE SweepTest(t)
  BY SMTT(60), <1>5 DEF SweepTest
<1>6. CASE Sweep(t)
  BY <1>6 DEF Sweep
<1>7. CASE Swept(t)
  BY SMTT(60), <1>7 DEF Swept
<1>8. QED
  BY <1>1, <1>2, <1>3, <1>4, <1>5, <1>6, <1>7

\* The constructor and the teardown of a WebSocket client, and the clock.
LEMMA OthersKeep ==
    ASSUME IInv, Tick \/ \E t \in Threads : Upgrade(t) \/ Upgraded(t) \/ Teardown(t)
    PROVE  IInv'
<1> USE Labels, SessionAssumption
    DEF IInv, At, Goto, Exists, Session, Names, PCs, timeVars, storeVars, peerVars, threadVars,
        TypeOK, SidInv, PtrInv, AttributesOwned, OwedInv
<1>1. ASSUME NEW t \in Threads, Upgrade(t) PROVE IInv'
  BY <1>1 DEF Upgrade
<1>2. ASSUME NEW t \in Threads, Upgraded(t) PROVE IInv'
  BY <1>2 DEF Upgraded
<1>3. ASSUME NEW t \in Threads, Teardown(t) PROVE IInv'
  BY <1>3 DEF Teardown
<1>4. CASE Tick
  BY <1>4 DEF Tick
<1>5. QED
  BY <1>1, <1>2, <1>3, <1>4

LEMMA Invariance == IInv /\ [Next]_vars => IInv'
<1> SUFFICES ASSUME IInv, [Next]_vars PROVE IInv'
  OBVIOUS
<1>1. CASE Tick
  BY <1>1, OthersKeep
<1>2. ASSUME NEW t \in Threads, ThreadStep(t) PROVE IInv'
  BY <1>2, RequestKeeps, RenewKeeps, CreateKeeps, OthersKeep DEF ThreadStep
<1>3. CASE UNCHANGED vars
  BY <1>3 DEF vars, timeVars, storeVars, peerVars, threadVars, IInv, TypeOK, SidInv, PtrInv,
              AttributesOwned, OwedInv, Exists
<1>4. QED
  BY <1>1, <1>2, <1>3 DEF Next

\* The inductive invariant holds of every behaviour.
THEOREM Inductive == Spec => []IInv
<1>1. QED
  BY Initially, Invariance, PTL DEF Spec

-----------------------------------------------------------------------------
(* The properties.                                                         *)

\* Every variable keeps its type: no thread uses a sessionId it has not, or a
\* pointer that getAttribute() has not returned.
THEOREM SessionTypeCorrect == Spec => []TypeOK
<1>1. IInv => TypeOK
  BY DEF IInv
<1>2. QED
  BY <1>1, Inductive, PTL

\* An attribute of a session is live memory with no other owner, whatever
\* requests create, replace, remove and sweep at once.
THEOREM OwnedAttributes == Spec => []AttributesOwned
<1>1. IInv => AttributesOwned
  BY DEF IInv
<1>2. QED
  BY <1>1, Inductive, PTL

\* Only its own steps move a thread.
LEMMA OthersPc ==
    ASSUME IInv, [Next]_vars, NEW t \in Threads, pc'[t] # pc[t]
    PROVE  ThreadStep(t)
<1>1. PICK s \in Threads : ThreadStep(s)
  BY DEF Next, Tick, vars, threadVars
<1>2. s = t
  BY <1>1 DEF ThreadStep, StartRequest, Find, GetExpiration, WriteExpiration, SetAttribute,
              RemoveAttribute, Remove, RemoveAll, EndRequest, CreateSession, DrawId, Insert,
              SetExpiration, SweepTest, Sweep, Swept, Upgrade, Upgraded, Teardown,
              Goto, threadVars, IInv, TypeOK
<1>3. QED
  BY <1>1, <1>2

\* removeExpiredSession() spares what create() or a request's find() renewed
\* less than sessionLifeTime ago: the time it reads is the last one promised.
THEOREM RenewedSpared == Spec => SweepSparesRenewed
<1> DEFINE Spares == \A t \in Threads : At(t, "sweep") /\ pc'[t] = "swept" =>
                       \A id \in Ids : Exists(id) /\ owed[id] > now => sessions'[id] # Null
<1>1. IInv /\ [Next]_vars => Spares
  <2> SUFFICES ASSUME IInv, [Next]_vars, NEW t \in Threads, At(t, "sweep"), pc'[t] = "swept",
                      NEW id \in Ids, Exists(id), owed[id] > now
               PROVE  sessions'[id] # Null
    OBVIOUS
  <2>1. Sweep(t)
    <3>1. ThreadStep(t)
      BY OthersPc DEF At
    <3>2. QED
      BY <3>1, Labels DEF At, ThreadStep, StartRequest, Find, GetExpiration, WriteExpiration,
              SetAttribute, RemoveAttribute, Remove, RemoveAll, EndRequest, CreateSession,
              DrawId, Insert, SetExpiration, SweepTest, Swept, Upgrade, Upgraded, Teardown,
              threadVars
  <2>2. now \in Nat /\ owed[id] \in Nat /\ owed[id] # 0
    BY SessionAssumption DEF IInv, TypeOK
  <2>3. Kept(id)
    BY <2>2 DEF IInv, OwedInv, Kept
  <2>4. QED
    BY <2>1, <2>3 DEF Sweep, Erase, Exists
<1>2. QED
  BY <1>1, Inductive, PTL DEF Spec, SweepSparesRenewed

\* A removed session comes back by create() only: setAttribute(), the writes
\* of a time and removeAttribute() find no session and make none.
THEOREM RemovedStaysRemoved == Spec => NoResurrection
<1> DEFINE Stays == \A id \in Ids : ~Exists(id) /\ sessions'[id] # Null =>
                      \E t \in Threads : At(t, "insert") /\ sid[t] = id /\ pc'[t] = "expiration"
<1>1. IInv /\ [Next]_vars => Stays
  <2> SUFFICES ASSUME IInv, [Next]_vars, NEW id \in Ids, ~Exists(id), sessions'[id] # Null
               PROVE  \E t \in Threads : At(t, "insert") /\ sid[t] = id /\ pc'[t] = "expiration"
    OBVIOUS
  <2>1. PICK t \in Threads : ThreadStep(t)
    BY SMTT(60) DEF Next, Tick, vars, storeVars, Exists
  <2>2. Insert(t)
    BY <2>1 DEF ThreadStep, StartRequest, Find, GetExpiration, WriteExpiration, SetAttribute,
              RemoveAttribute, Remove, RemoveAll, EndRequest, CreateSession, DrawId,
              SetExpiration, SweepTest, Sweep, Swept, Upgrade, Upgraded, Teardown,
              Put, Erase, Exists, storeVars, IInv, TypeOK
  <2>3. QED
    BY <2>2 DEF Insert, At, Goto, Exists, IInv, TypeOK
<1>2. QED
  BY <1>1, Inductive, PTL DEF Spec, NoResurrection
=============================================================================
