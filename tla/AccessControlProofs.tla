------------------------- MODULE AccessControlProofs -------------------------
(***************************************************************************)
(* What the caches of logins and tokens answer for, and which addresses    *)
(* the networks admit, proved for all lists, tokens, clocks, workers and   *)
(* networks.                                                               *)
(***************************************************************************)
EXTENDS AccessControl, FiniteSetTheorems, TLAPS

\* The caches hold nothing but what the checks have passed.
CacheInv ==
    /\ \A l \in Logins : usersAuthHistory[l] # Never => l \in Listed
    /\ \A k \in Tokens : tokensAuthHistory[k] # Never =>
         /\ tokensAuthHistory[k] = Expiration[k]
         /\ k \in Signed
         /\ \E u \in Urls : <<k, u>> \in InScope

\* A worker that asks about a token has one, and one that answers was told yes.
WorkerInv ==
    \A w \in Workers :
        /\ pc[w] = "token" => tokb64[w] \in Tokens
        /\ pc[w] = "page" => authOK[w]
        /\ authOK[w] => Justified(grounds[w])

IInv == TypeOK /\ CacheInv /\ WorkerInv

\* No connection is there at first, and the caches are empty.
LEMMA Initially == Init => IInv
<1> SUFFICES ASSUME Init PROVE IInv
  OBVIOUS
<1>1. NoGrounds \in Grounds
  BY DEF NoGrounds, NewGrounds, Grounds
<1>2. TypeOK
  BY <1>1, AccessAssumption DEF Init, TypeOK
<1>3. QED
  BY <1>2 DEF Init, IInv, CacheInv, WorkerInv

\* The peer that waits for the main thread concerns no worker.
LEMMA ListenKeeps == ASSUME IInv, NEW ip \in Addresses, Arrive(ip) \/ Refuse PROVE IInv'
  BY SMTT(60) DEF Arrive, Refuse, IInv, TypeOK, CacheInv, WorkerInv, Justified, workerVars

\* A new connection starts with the grounds that need no check.
LEMMA AcceptKeeps == ASSUME IInv, NEW w \in Workers, NEW u \in Urls, Accept(w, u) PROVE IInv'
<1> DEFINE g == IF Open THEN NewGrounds("open", NoToken, 0) ELSE NoGrounds
<1>1. g \in Grounds /\ Open \in BOOLEAN
  BY AccessAssumption DEF NewGrounds, NoGrounds, Grounds, Open
<1>2. grounds' = [grounds EXCEPT ![w] = g] /\ authOK' = [authOK EXCEPT ![w] = Open]
  BY DEF Accept
<1>3. TypeOK'
  BY <1>1, <1>2, AccessAssumption DEF Accept, IInv, TypeOK
<1>4. CacheInv'
  BY DEF Accept, IInv, CacheInv
<1>5. WorkerInv'
  <2> SUFFICES ASSUME NEW v \in Workers
               PROVE  /\ pc'[v] = "token" => tokb64'[v] \in Tokens
                      /\ pc'[v] = "page" => authOK'[v]
                      /\ authOK'[v] => Justified(grounds'[v])
    BY DEF WorkerInv
  <2>1. CASE v = w
    <3>1. Open => Justified(g)
      BY DEF Justified, NewGrounds
    <3>2. pc'[v] = "head" /\ authOK'[v] = Open /\ grounds'[v] = g
      BY <1>2, <2>1 DEF Accept, IInv, TypeOK
    <3>3. QED
      BY <3>1, <3>2
  <2>2. CASE v # w
    BY <2>2, <1>2 DEF Accept, IInv, TypeOK, WorkerInv
  <2>3. QED
    BY <2>1, <2>2
<1>6. QED
  BY <1>3, <1>4, <1>5 DEF IInv

\* isUserAllowed() believes the cache for listed logins only, and adds no other.
LEMMA UserKeeps == ASSUME IInv, NEW w \in Workers, NEW l \in Logins, IsUserAllowed(w, l) PROVE IInv'
<1> DEFINE ok == IsNewUser(l) => l \in Listed
<1>1. ok <=> l \in Listed
  BY DEF IInv, CacheInv, IsNewUser, Known
<1> DEFINE g == IF ok THEN NewGrounds("login", l, now) ELSE NoGrounds
<1>2. /\ Remember(l, ok)
      /\ authOK' = [authOK EXCEPT ![w] = ok]
      /\ grounds' = [grounds EXCEPT ![w] = g]
  BY DEF IsUserAllowed
<1> g \in Grounds
  BY AccessAssumption DEF NewGrounds, NoGrounds, Grounds, IInv, TypeOK
<1>3. TypeOK'
  <2>1. usersAuthHistory' \in [Logins -> (0..MaxTime) \cup {Never}]
    BY <1>2 DEF Remember, IInv, TypeOK
  <2>2. authOK' \in [Workers -> BOOLEAN] /\ grounds' \in [Workers -> Grounds]
    BY <1>2 DEF IInv, TypeOK
  <2> HIDE DEF g
  <2>3. QED
    BY <2>1, <2>2 DEF IsUserAllowed, IInv, TypeOK
<1>4. CacheInv'
  BY <1>1, <1>2 DEF IsUserAllowed, Remember, Known, IInv, TypeOK, CacheInv
<1>5. WorkerInv'
  <2> SUFFICES ASSUME NEW v \in Workers
               PROVE  /\ pc'[v] = "token" => tokb64'[v] \in Tokens
                      /\ pc'[v] = "page" => authOK'[v]
                      /\ authOK'[v] => Justified(grounds'[v])
    BY DEF WorkerInv
  <2>1. CASE v = w
    <3>1. ok => Justified(g)
      BY <1>1 DEF Justified, NewGrounds
    <3>2. pc'[v] = "head" /\ authOK'[v] = ok /\ grounds'[v] = g
      BY <1>2, <2>1 DEF IsUserAllowed, IInv, TypeOK
    <3>3. QED
      BY <3>1, <3>2
  <2>2. CASE v # w
    BY <2>2 DEF IsUserAllowed, IInv, TypeOK, WorkerInv
  <2>3. QED
    BY <2>1, <2>2
<1>6. QED
  BY <1>3, <1>4, <1>5 DEF IInv

\* The clock is read; nothing is granted yet.
LEMMA ClockKeeps == ASSUME IInv, NEW w \in Workers, NEW k \in Tokens, ReadClock(w, k) PROVE IInv'
  BY DEF ReadClock, IInv, TypeOK, CacheInv, WorkerInv, Justified

\* isTokenAllowed() says yes to a token that passes the checks, or that has
\* passed them and has not expired at the time it was shown.
LEMMA TokenKeeps == ASSUME IInv, NEW w \in Workers, IsTokenAllowed(w) PROVE IInv'
<1> DEFINE k == tokb64[w]
           ok == IF Known(tokensAuthHistory, k) THEN ~TokenExpired(w) ELSE TokenPasses(w)
<1>1. k \in Tokens /\ urlBuffer[w] \in Urls /\ t[w] \in Nat /\ Expiration[k] \in Nat
  <2>1. k \in Tokens /\ urlBuffer[w] \in Urls
    BY DEF IsTokenAllowed, IInv, WorkerInv, TypeOK
  <2>2. t[w] \in 0..MaxTime
    BY DEF IInv, TypeOK
  <2>3. Expiration \in [Tokens -> Nat]
    BY AccessAssumption
  <2>4. QED
    BY <2>1, <2>2, <2>3
<1>2. ok => /\ k \in Signed /\ Expiration[k] >= t[w]
            /\ \E u \in Urls : <<k, u>> \in InScope
  BY <1>1 DEF IInv, CacheInv, Known, TokenExpired, TokenPasses
<1>3. /\ tokensAuthHistory' = [tokensAuthHistory EXCEPT ![k] = IF ok THEN Expiration[k] ELSE Never]
      /\ authOK' = [authOK EXCEPT ![w] = ok]
      /\ grounds' = [grounds EXCEPT ![w] = IF ok THEN NewGrounds("token", k, t[w]) ELSE NoGrounds]
  BY DEF IsTokenAllowed
<1> DEFINE g == IF ok THEN NewGrounds("token", k, t[w]) ELSE NoGrounds
<1>4. ok \in BOOLEAN /\ g \in Grounds
  <2>1. ok \in BOOLEAN
    BY DEF TokenExpired, TokenPasses
  <2>2. NewGrounds("token", k, t[w]) \in Grounds /\ NoGrounds \in Grounds
    BY <1>1 DEF NewGrounds, NoGrounds, Grounds
  <2>3. QED
    BY <2>1, <2>2
<1>5. TypeOK'
  <2>1. /\ tokensAuthHistory' \in [Tokens -> Nat \cup {Never}]
        /\ authOK' \in [Workers -> BOOLEAN]
        /\ grounds' \in [Workers -> Grounds]
    BY <1>1, <1>3, <1>4 DEF IInv, TypeOK
  <2>2. QED
    BY <2>1 DEF IsTokenAllowed, IInv, TypeOK
<1>6. CacheInv'
  BY SMTT(60), <1>1, <1>2, <1>3 DEF IsTokenAllowed, IInv, TypeOK, CacheInv
<1>7. WorkerInv'
  <2> SUFFICES ASSUME NEW v \in Workers
               PROVE  /\ pc'[v] = "token" => tokb64'[v] \in Tokens
                      /\ pc'[v] = "page" => authOK'[v]
                      /\ authOK'[v] => Justified(grounds'[v])
    BY DEF WorkerInv
  <2>1. CASE v = w
    <3>1. pc'[v] = "head" /\ authOK'[v] = ok /\ grounds'[v] = g
      BY <1>3, <2>1 DEF IsTokenAllowed, IInv, TypeOK
    <3>2. ok => Justified(g)
      BY <1>2 DEF Justified, NewGrounds
    <3>3. QED
      BY <3>1, <3>2
  <2>2. CASE v # w
    BY <2>2 DEF IsTokenAllowed, IInv, TypeOK, WorkerInv
  <2>3. QED
    BY <2>1, <2>2
<1>8. QED
  BY <1>5, <1>6, <1>7 DEF IInv

\* The end of a head lets through nobody without authOK.
LEMMA HeadKeeps == ASSUME IInv, NEW w \in Workers, EndOfHead(w) PROVE IInv'
  BY DEF EndOfHead, MayAnswer, IInv, TypeOK, CacheInv, WorkerInv, Justified

\* A connection that is kept keeps its authOK and what it was set for.
LEMMA NextKeeps == ASSUME IInv, NEW w \in Workers, NEW u \in Urls, NextRequest(w, u) PROVE IInv'
  BY SMTT(60) DEF NextRequest, IInv, TypeOK, CacheInv, WorkerInv, Justified

\* A cached login stays right when time passes.
LEMMA TickKeeps == ASSUME IInv, Tick PROVE IInv'
<1>1. now' \in 0..MaxTime
  BY AccessAssumption DEF Tick, IInv, TypeOK
<1>2. QED
  BY <1>1 DEF Tick, IInv, TypeOK, CacheInv, WorkerInv, Justified, Open, workerVars

\* Every step keeps the invariant.
LEMMA Invariance == IInv /\ [Next]_vars => IInv'
<1> SUFFICES ASSUME IInv, [Next]_vars PROVE IInv'
  OBVIOUS
<1>1. ASSUME NEW ip \in Addresses, Arrive(ip) PROVE IInv'
  BY <1>1, ListenKeeps
<1>2. CASE Refuse
  BY <1>2 DEF Refuse, IInv, TypeOK, CacheInv, WorkerInv, Justified, workerVars
<1>3. ASSUME NEW w \in Workers, WorkerStep(w) PROVE IInv'
  BY <1>3, AcceptKeeps, UserKeeps, ClockKeeps, TokenKeeps, HeadKeeps, NextKeeps DEF WorkerStep
<1>4. CASE Tick
  BY <1>4, TickKeeps
<1>5. CASE UNCHANGED vars
  BY <1>5 DEF vars, workerVars, IInv, TypeOK, CacheInv, WorkerInv, Justified
<1>6. QED
  BY <1>1, <1>2, <1>3, <1>4, <1>5 DEF Next

\* The inductive invariant holds of every behaviour.
THEOREM Inductive == Spec => []IInv
<1>1. QED
  BY Initially, Invariance, PTL DEF Spec

\* Every variable of accept_request() keeps its type; in particular a url is
\* there whenever isTokenAllowed() is asked about it.
THEOREM AccessTypeCorrect == Spec => []TypeOK
<1>1. IInv => TypeOK
  BY DEF IInv
<1>2. QED
  BY <1>1, Inductive, PTL

\* Only justified connections are answered, whatever the caches hold and
\* however the workers' calls of isUserAllowed() and isTokenAllowed() interleave
\* with each other and with time.
THEOREM AnswersJustified == Spec => []AnsweredJustified
<1>1. IInv => AnsweredJustified
  BY DEF IInv, WorkerInv, AnsweredJustified
<1>2. QED
  BY <1>1, Inductive, PTL

-----------------------------------------------------------------------------
(* The networks.                                                           *)

\* A set of bits that holds every bit before one it holds has a length.
LEMMA PrefixLength ==
    ASSUME NEW W \in Nat, NEW P, P \subseteq 0..(W - 1), \A j \in P : 0..j \subseteq P
    PROVE  \E n \in 0..W : \A j \in 0..(W - 1) : j \in P <=> j < n
<1>1. IsFiniteSet(0..(W - 1)) /\ Cardinality(0..(W - 1)) = W
  BY FS_Interval
<1>2. IsFiniteSet(P) /\ Cardinality(P) \in Nat /\ Cardinality(P) <= W
  BY ZenonT(60), <1>1, FS_Subset, FS_CardinalityType
<1>3. PICK n \in 0..W : n = Cardinality(P)
  BY <1>2
<1>4. ASSUME NEW j \in P PROVE j < n
  <2>1. j \in Nat /\ IsFiniteSet(0..j) /\ Cardinality(0..j) = j + 1
    BY FS_Interval
  <2>2. j + 1 <= n
    BY <1>2, <1>3, <2>1, FS_Subset
  <2>3. QED
    BY <1>3, <2>1, <2>2
<1>5. IsFiniteSet(0..(n - 1)) /\ Cardinality(0..(n - 1)) = n
  <2>1. n - 1 \in Int /\ 0 \in Int
    BY <1>3
  <2>2. IsFiniteSet(0..(n - 1)) /\ Cardinality(0..(n - 1)) = IF 0 > n - 1 THEN 0 ELSE n - 1 - 0 + 1
    BY <2>1, FS_Interval
  <2>3. QED
    BY <1>3, <2>2
<1>6. P \subseteq 0..(n - 1)
  BY <1>3, <1>4
<1>7. P = 0..(n - 1)
  BY <1>3, <1>5, <1>6, FS_Subset
<1>8. ASSUME NEW j \in 0..(W - 1) PROVE j \in P <=> j < n
  <2>1. j \in Nat /\ n \in Nat
    BY <1>3
  <2>2. j \in 0..(n - 1) <=> j < n
    BY <2>1
  <2>3. QED
    BY <1>7, <2>2
<1>9. QED
  BY <1>8

\* A dotted mask has a length exactly when no zero stands before a one.
LEMMA DottedMask ==
    ASSUME NEW dotted \in [Bits(4) -> {0, 1}]
    PROVE  LET whole == \A j \in Bits(4) : dotted[j] = 1 => \A i \in 0..j : dotted[i] = 1
           IN  /\ whole => /\ DottedLength(dotted) \in 0..Width[4]
                            /\ \A j \in Bits(4) : dotted[j] = 1 <=> j < DottedLength(dotted)
               /\ ~whole => DottedLength(dotted) = Width[4] + 1
<1> DEFINE whole == \A j \in Bits(4) : dotted[j] = 1 => \A i \in 0..j : dotted[i] = 1
           Measures(n) == \A j \in Bits(4) : (dotted[j] = 1) = (j < n)
<1>1. Width[4] \in Nat /\ Bits(4) = 0..(Width[4] - 1)
  BY AccessAssumption DEF Bits
<1>2. ASSUME whole PROVE \E n \in 0..Width[4] : Measures(n)
  <2> DEFINE P == {j \in Bits(4) : dotted[j] = 1}
  <2>1. \A j \in P : 0..j \subseteq P
    BY <1>1, <1>2
  <2>2. P \subseteq 0..(Width[4] - 1) /\ \A j \in 0..(Width[4] - 1) : j \in P <=> dotted[j] = 1
    BY <1>1
  <2> HIDE DEF P
  <2>3. PICK n \in 0..Width[4] : \A j \in 0..(Width[4] - 1) : j \in P <=> j < n
    BY <1>1, <2>1, <2>2, PrefixLength
  <2>4. QED
    BY SMTT(60), <1>1, <2>2, <2>3
<1>3. ASSUME NEW n \in 0..Width[4], Measures(n) PROVE whole
  BY <1>1, <1>3
<1>4. (\E n \in 0..Width[4] : Measures(n))
        => DottedLength(dotted) \in 0..Width[4] /\ Measures(DottedLength(dotted))
  BY DEF DottedLength
<1>5. (~\E n \in 0..Width[4] : Measures(n)) => DottedLength(dotted) = Width[4] + 1
  BY DEF DottedLength
<1> HIDE DEF Measures
<1>6. whole <=> \E n \in 0..Width[4] : Measures(n)
  BY <1>2, <1>3
<1>7. QED
  BY <1>4, <1>5, <1>6 DEF Measures

\* The bits that isInside() compares are among those the text names, and for
\* version 4 all of them.
LEMMA NetworkOfText ==
    ASSUME NEW text, IsNetworkText(text)
    PROVE  /\ NamesNetwork(text) =>
                /\ FromString(text).version = text.version
                /\ FromString(text).bits = text.bits
                /\ Compared(FromString(text)) \subseteq Prefix(text)
                /\ text.version = 4 => Compared(FromString(text)) = Prefix(text)
           /\ ~NamesNetwork(text) => FromString(text).version = 0
<1>1. /\ text.version \in {4, 6} /\ Width[text.version] \in Nat /\ Width[4] \in Nat
      /\ text.form \in {"bare", "length", "dotted"}
      /\ text.length \in Nat /\ text.dotted \in [Bits(4) -> {0, 1}]
  <2>1. /\ text.version \in {4, 6} /\ text.form \in {"bare", "length", "dotted"}
        /\ text.length \in Nat /\ text.dotted \in [Bits(4) -> {0, 1}]
    BY DEF IsNetworkText, IsAddress
  <2>2. Width[4] \in Nat /\ Width[6] \in Nat
    BY AccessAssumption
  <2>3. QED
    BY <2>1, <2>2
<1>2. ASSUME NamesNetwork(text)
      PROVE  /\ MaskDec(text) \in Nat /\ MaskDec(text) <= Width[text.version]
             /\ Prefix(text) = {j \in Bits(text.version) : j < MaskDec(text)}
  <2>1. CASE text.form = "bare"
    BY <1>1, <2>1 DEF MaskDec, Prefix, Bits
  <2>2. CASE text.form = "length"
    BY <1>1, <1>2, <2>2 DEF MaskDec, Prefix, NamesNetwork
  <2>3. CASE text.form = "dotted"
    BY <1>1, <1>2, <2>3, DottedMask DEF MaskDec, Prefix, NamesNetwork
  <2>4. QED
    BY <1>1, <2>1, <2>2, <2>3
<1>3. ASSUME ~NamesNetwork(text) PROVE ~(MaskDec(text) <= Width[text.version])
  <2>1. CASE text.form = "length"
    BY <1>1, <1>3, <2>1 DEF MaskDec, NamesNetwork
  <2>2. CASE text.form = "dotted"
    BY <1>1, <1>3, <2>2, DottedMask DEF MaskDec, NamesNetwork
  <2>3. QED
    BY <1>1, <1>3, <2>1, <2>2 DEF NamesNetwork
<1>4. ASSUME NamesNetwork(text)
      PROVE  /\ FromString(text).version = text.version
             /\ FromString(text).bits = text.bits
             /\ FromString(text).mask = MaskDec(text)
  BY <1>2, <1>4 DEF FromString, Network
<1>5. ASSUME NamesNetwork(text)
      PROVE  /\ Compared(FromString(text)) \subseteq Prefix(text)
             /\ text.version = 4 => Compared(FromString(text)) = Prefix(text)
  <2>1. CASE text.version = 4
    BY <1>2, <1>4, <1>5, <2>1 DEF Compared
  <2>2. CASE text.version = 6
    <3>1. \A j \in Compared(FromString(text)) : j \in Bits(6) /\ j + 1 < MaskDec(text)
      BY <1>4, <1>5, <2>2 DEF Compared
    <3>2. \A j \in Bits(6) : j \in Nat
      BY DEF Bits
    <3>3. QED
      BY <1>2, <1>5, <2>2, <3>1, <3>2
  <2>3. QED
    BY <1>1, <2>1, <2>2
<1>6. ~NamesNetwork(text) => FromString(text).version = 0
  BY <1>3 DEF FromString, NullNetwork
<1>7. QED
  BY <1>4, <1>5, <1>6

\* hostsAllowed against the words of its texts: a peer of a network that a text
\* names is always admitted, and a peer of version 4 only for one of them, for
\* any texts, widths and lengths, a dotted mask with a hole included
\* (IpNetwork::fromString(), isInside(), isIpBelongToIpNetwork()).
THEOREM NetworksAdmit == Spec => []PeersOfNetworks
<1>1. TypeOK => PeersOfNetworks
  <2> SUFFICES ASSUME TypeOK, webClientAddr # NoPeer, HostsAllowed # << >>
               PROVE  /\ OfSomeNetwork(webClientAddr) => Allowed
                      /\ webClientAddr.version = 4 /\ Allowed => OfSomeNetwork(webClientAddr)
    BY DEF PeersOfNetworks
  <2>1. webClientAddr.version \in {4, 6}
    BY AccessAssumption DEF TypeOK, IsAddress
  <2>2. ASSUME NEW i \in 1..Len(HostsAllowed)
        PROVE  /\ Belongs(HostsAllowed[i], webClientAddr)
                     => IsInside(FromString(HostsAllowed[i]), webClientAddr)
               /\ webClientAddr.version = 4 /\ IsInside(FromString(HostsAllowed[i]), webClientAddr)
                     => Belongs(HostsAllowed[i], webClientAddr)
    <3>1. IsNetworkText(HostsAllowed[i])
      BY AccessAssumption
    <3>2. CASE NamesNetwork(HostsAllowed[i])
      BY <3>1, <3>2, NetworkOfText DEF Belongs, IsInside
    <3>3. CASE ~NamesNetwork(HostsAllowed[i])
      BY <2>1, <3>1, <3>3, NetworkOfText DEF Belongs, IsInside
    <3>4. QED
      BY <3>2, <3>3
  <2>3. QED
    BY <2>2 DEF OfSomeNetwork, Allowed, IsIpBelongToIpNetwork
<1>2. QED
  BY <1>1, AccessTypeCorrect, PTL
=============================================================================
