---------------------------- MODULE AccessControl ----------------------------
(***************************************************************************)
(* Who is served: the main thread's filter of addresses (hostsAllowed),    *)
(* and the workers' check of a login or a bearer token, each with a cache  *)
(* that all workers share and that knows times.  A worker stands for the   *)
(* connection it serves.                                                   *)
(*                                                                         *)
(* An address is a function from its bits, the first one 0, to {0, 1}.     *)
(***************************************************************************)
EXTENDS Naturals, Sequences

CONSTANTS
    Workers, Urls,
    Logins,        \* the texts after "Authorization: Basic "
    Listed,        \* those that decode to an entry of authLoginPwdList; without ':' none does
    Tokens,
    BearerEnabled, \* authBearerEnabled
    Signed,        \* the tokens that tokDecodeCallback decodes
    Expiration,    \* token -> what authBearTokDecExpirationCb says, 0 if nothing
    InScope,       \* the <<token, url>> that authBearTokDecScopesCb passes
    Addresses,     \* the peers: [version, bits]
    HostsAllowed,  \* the texts of addHostsAllowed(), see IsNetworkText
    ByteBits,      \* 8
    Width,         \* version -> bits of an address: 32, 128
    HistDelay,     \* LOGHIST_EXPIRATION_DELAY
    MaxTime,       \* bound: the clock stops there
    NoPeer, NoUrl, NoToken, Never

Bits(v) == 0..(Width[v] - 1)
IsAddress(ip) == ip.version \in {4, 6} /\ ip.bits \in [Bits(ip.version) -> {0, 1}]

\* "address", "address/length" or "address/w.x.y.z".  (Lengths from 256 on
\* are taken modulo 256.)
IsNetworkText(text) ==
    /\ IsAddress(text)
    /\ text.form \in {"bare", "length", "dotted"}
    /\ text.length \in 0..255 /\ text.dotted \in [Bits(4) -> {0, 1}]

ASSUME AccessAssumption ==
    /\ Listed \subseteq Logins
    /\ BearerEnabled \in BOOLEAN
    /\ Signed \subseteq Tokens /\ InScope \subseteq Tokens \X Urls
    /\ Expiration \in [Tokens -> Nat]
    /\ ByteBits \in Nat \ {0} /\ Width \in [{4, 6} -> Nat \ {0}]
    /\ \A ip \in Addresses : IsAddress(ip)
    /\ Len(HostsAllowed) \in Nat
    /\ \A n \in 1..Len(HostsAllowed) : IsNetworkText(HostsAllowed[n])
    /\ HistDelay \in Nat /\ MaxTime \in Nat
    /\ NoPeer \notin Addresses /\ NoUrl \notin Urls /\ NoToken \notin Tokens /\ Never \notin Nat

VARIABLES
    now,                \* time()
    usersAuthHistory,   \* login -> time of its last use, or Never
    tokensAuthHistory,  \* token -> its expiration, or Never
    webClientAddr,      \* the peer that accept() gave the main thread, if any
    pc,                 \* worker -> where it is
    authOK,             \* worker -> the local variable of accept_request()
    urlBuffer,
    tokb64, t,          \* worker -> the arguments and the clock of isTokenAllowed()
    grounds             \* history: worker -> what authOK was set for

workerVars == <<pc, authOK, urlBuffer, tokb64, t, grounds>>
vars == <<now, usersAuthHistory, tokensAuthHistory, webClientAddr, workerVars>>

(***************************************************************************)
(* Addresses and networks.                                                 *)
(***************************************************************************)
Network(version, bits, mask) == [version |-> version, bits |-> bits, mask |-> mask]

\* What IpNetwork("...") is when the text is refused: an address of no version.
NullNetwork == [version |-> 0, bits |-> << >>, mask |-> 0]

\* The ones of a dotted mask, if no zero stands before a one.
DottedLength(dotted) ==
    IF \E n \in 0..Width[4] : \A j \in Bits(4) : (dotted[j] = 1) = (j < n)
      THEN CHOOSE n \in 0..Width[4] : \A j \in Bits(4) : (dotted[j] = 1) = (j < n)
    ELSE Width[4] + 1

\* The mask of a text, beyond the width of an address if it is refused.
MaskDec(text) ==
    CASE text.form = "bare" -> Width[text.version]
      [] text.form = "length" -> text.length
      [] text.form = "dotted" -> IF text.version = 4 THEN DottedLength(text.dotted) ELSE Width[6] + 1

FromString(text) ==
    IF MaskDec(text) <= Width[text.version]
      THEN Network(text.version, text.bits, MaskDec(text))
    ELSE NullNetwork

\* Mutant: one bit of the network too many.
ComparedBug(net) == {j \in Bits(net.version) : j <= net.mask}

\* The bits under the mask.  For version 6 the mask of a byte is built from
\* 1 << 8 downwards in eight bits, and the first one is lost.
Compared(net) ==
    IF net.version = 4 THEN {j \in Bits(4) : j < net.mask}
    ELSE {j \in Bits(6) : j + 1 < net.mask /\ (j + 1) % ByteBits # 0}

IsInside(net, ip) ==
    /\ net.version = ip.version
    /\ \A j \in Compared(net) : net.bits[j] = ip.bits[j]

IsIpBelongToIpNetwork(ip) ==
    \E i \in 1..Len(HostsAllowed) : IsInside(FromString(HostsAllowed[i]), ip)

(***************************************************************************)
(* Logins and tokens.                                                      *)
(***************************************************************************)
Known(history, key) == history[key] # Never

NewGrounds(kind, key, time) == [kind |-> kind, key |-> key, time |-> time]
NoGrounds == NewGrounds("none", NoToken, 0)
Grounds ==
    [kind : {"none", "open", "login", "token"}, key : Logins \cup Tokens \cup {NoToken}, time : Nat]

TypeOK ==
    /\ now \in 0..MaxTime
    /\ usersAuthHistory \in [Logins -> (0..MaxTime) \cup {Never}]
    /\ tokensAuthHistory \in [Tokens -> Nat \cup {Never}]
    /\ webClientAddr \in Addresses \cup {NoPeer}
    /\ pc \in [Workers -> {"away", "head", "token", "page"}]
    /\ authOK \in [Workers -> BOOLEAN]
    /\ urlBuffer \in [Workers -> Urls \cup {NoUrl}]
    /\ \A w \in Workers : pc[w] # "away" => urlBuffer[w] \in Urls
    /\ tokb64 \in [Workers -> Tokens \cup {NoToken}]
    /\ t \in [Workers -> 0..MaxTime]
    /\ grounds \in [Workers -> Grounds]

Init ==
    /\ now = 0
    /\ usersAuthHistory = [l \in Logins |-> Never]
    /\ tokensAuthHistory = [k \in Tokens |-> Never]
    /\ webClientAddr = NoPeer
    /\ pc = [w \in Workers |-> "away"]
    /\ authOK = [w \in Workers |-> FALSE]
    /\ urlBuffer = [w \in Workers |-> NoUrl]
    /\ tokb64 = [w \in Workers |-> NoToken]
    /\ t = [w \in Workers |-> 0]
    /\ grounds = [w \in Workers |-> NoGrounds]

Arrive(ip) ==
    /\ webClientAddr = NoPeer
    /\ webClientAddr' = ip
    /\ UNCHANGED <<now, usersAuthHistory, tokensAuthHistory, workerVars>>

Allowed == HostsAllowed = << >> \/ IsIpBelongToIpNetwork(webClientAddr)

\* The main thread closes the connection at once.
Refuse ==
    /\ webClientAddr # NoPeer /\ ~Allowed
    /\ webClientAddr' = NoPeer
    /\ UNCHANGED <<now, usersAuthHistory, tokensAuthHistory, workerVars>>

\* authOK of a new connection: nobody is asked unless somebody was listed.
Open == Listed = {} /\ ~BearerEnabled

\* The connection is queued and reaches a worker, which reads the first line of
\* a request.
Accept(w, u) ==
    /\ webClientAddr # NoPeer /\ Allowed /\ pc[w] = "away"
    /\ webClientAddr' = NoPeer
    /\ pc' = [pc EXCEPT ![w] = "head"]
    /\ authOK' = [authOK EXCEPT ![w] = Open]
    /\ urlBuffer' = [urlBuffer EXCEPT ![w] = u]
    /\ grounds' = [grounds EXCEPT ![w] = IF Open THEN NewGrounds("open", NoToken, 0) ELSE NoGrounds]
    /\ UNCHANGED <<now, usersAuthHistory, tokensAuthHistory, tokb64, t>>

\* A login used within HistDelay is not checked again.
IsNewUser(l) ==
    ~Known(usersAuthHistory, l) \/ now - usersAuthHistory[l] > HistDelay

\* Mutant: a login is remembered before it was found in the list.
RememberBug(l, ok) == usersAuthHistory' = [usersAuthHistory EXCEPT ![l] = now]

\* The time is set again for a known login, and for a new one if it is right.
Remember(l, ok) ==
    usersAuthHistory' =
        IF Known(usersAuthHistory, l) \/ ok THEN [usersAuthHistory EXCEPT ![l] = now]
        ELSE usersAuthHistory

\* isUserAllowed(), under usersAuthHistory_mutex throughout, and only when
\* nothing else authorized the connection.
IsUserAllowed(w, l) ==
    /\ pc[w] = "head" /\ ~authOK[w]
    /\ LET ok == IsNewUser(l) => l \in Listed IN
          /\ Remember(l, ok)
          /\ authOK' = [authOK EXCEPT ![w] = ok]
          /\ grounds' = [grounds EXCEPT ![w] = IF ok THEN NewGrounds("login", l, now) ELSE NoGrounds]
    /\ UNCHANGED <<now, tokensAuthHistory, webClientAddr, pc, urlBuffer, tokb64, t>>

\* isTokenAllowed() reads the clock before it waits for the mutex.
ReadClock(w, k) ==
    /\ pc[w] = "head" /\ BearerEnabled
    /\ tokb64' = [tokb64 EXCEPT ![w] = k]
    /\ t' = [t EXCEPT ![w] = now]
    /\ pc' = [pc EXCEPT ![w] = "token"]
    /\ UNCHANGED <<now, usersAuthHistory, tokensAuthHistory, webClientAddr, authOK, urlBuffer, grounds>>

\* The checks of a token that is not in the cache.
TokenPasses(w) ==
    LET k == tokb64[w] IN
    /\ k \in Signed
    /\ Expiration[k] # 0 /\ Expiration[k] >= t[w]
    /\ <<k, urlBuffer[w]>> \in InScope

\* Mutant: an entry of the cache is believed whatever the time.
TokenExpiredBug(w) == FALSE

TokenExpired(w) == t[w] > tokensAuthHistory[tokb64[w]]

\* The rest of isTokenAllowed(), under tokensAuthHistory_mutex.
IsTokenAllowed(w) ==
    /\ pc[w] = "token"
    /\ LET k == tokb64[w]
           ok == IF Known(tokensAuthHistory, k) THEN ~TokenExpired(w) ELSE TokenPasses(w)
       IN  /\ tokensAuthHistory' = [tokensAuthHistory EXCEPT ![k] = IF ok THEN Expiration[k] ELSE Never]
           /\ authOK' = [authOK EXCEPT ![w] = ok]
           /\ grounds' = [grounds EXCEPT ![w] = IF ok THEN NewGrounds("token", k, t[w]) ELSE NoGrounds]
    /\ pc' = [pc EXCEPT ![w] = "head"]
    /\ UNCHANGED <<now, usersAuthHistory, webClientAddr, urlBuffer, tokb64, t>>

\* Mutant: the end of the head does not ask.
MayAnswerBug(w) == TRUE

MayAnswer(w) == authOK[w]

EndOfHead(w) ==
    /\ pc[w] = "head"
    /\ pc' = [pc EXCEPT ![w] = IF MayAnswer(w) THEN "page" ELSE "away"]
    /\ UNCHANGED <<now, usersAuthHistory, tokensAuthHistory, webClientAddr, authOK, urlBuffer, tokb64, t, grounds>>

\* The connection is kept, and with it authOK; or it ends.
NextRequest(w, u) ==
    /\ pc[w] = "page"
    /\ \/ pc' = [pc EXCEPT ![w] = "head"] /\ urlBuffer' = [urlBuffer EXCEPT ![w] = u]
       \/ pc' = [pc EXCEPT ![w] = "away"] /\ UNCHANGED urlBuffer
    /\ UNCHANGED <<now, usersAuthHistory, tokensAuthHistory, webClientAddr, authOK, tokb64, t, grounds>>

Tick ==
    /\ now < MaxTime
    /\ now' = now + 1
    /\ UNCHANGED <<usersAuthHistory, tokensAuthHistory, webClientAddr, workerVars>>

WorkerStep(w) ==
    \/ \E u \in Urls : Accept(w, u)
    \/ \E l \in Logins : IsUserAllowed(w, l)
    \/ \E k \in Tokens : ReadClock(w, k)
    \/ IsTokenAllowed(w)
    \/ EndOfHead(w)
    \/ \E u \in Urls : NextRequest(w, u)

Next ==
    \/ \E ip \in Addresses : Arrive(ip)
    \/ Refuse
    \/ \E w \in Workers : WorkerStep(w)
    \/ Tick

Spec == Init /\ [][Next]_vars

(***************************************************************************)
(* Properties                                                              *)
(***************************************************************************)
\* The network of a text, by its own words: the bits that an address shares.
NamesNetwork(text) ==
    CASE text.form = "bare" -> TRUE
      [] text.form = "length" -> text.length <= Width[text.version]
      [] text.form = "dotted" ->
           text.version = 4 /\ \A j \in Bits(4) : text.dotted[j] = 1 => \A i \in 0..j : text.dotted[i] = 1
Prefix(text) ==
    CASE text.form = "bare" -> Bits(text.version)
      [] text.form = "length" -> {j \in Bits(text.version) : j < text.length}
      [] text.form = "dotted" -> {j \in Bits(4) : text.dotted[j] = 1}
Belongs(text, ip) ==
    /\ text.version = ip.version /\ NamesNetwork(text)
    /\ \A j \in Prefix(text) : text.bits[j] = ip.bits[j]
OfSomeNetwork(ip) ==
    \E i \in 1..Len(HostsAllowed) : Belongs(HostsAllowed[i], ip)

\* A peer of an allowed network is always admitted, and when networks are
\* given, a peer of version 4 is admitted for one of them (IpNetwork::isInside()
\* against the prefix that the text names; see the README for version 6).
PeersOfNetworks ==
    webClientAddr # NoPeer /\ HostsAllowed # << >> =>
        /\ OfSomeNetwork(webClientAddr) => Allowed
        /\ webClientAddr.version = 4 /\ Allowed => OfSomeNetwork(webClientAddr)

\* Why a connection may be answered: nobody is asked; a listed login; a token
\* that was signed, in scope of some page, and not expired when it was shown.
Justified(g) ==
    \/ g.kind = "open" /\ Open
    \/ g.kind = "login" /\ g.key \in Listed
    \/ /\ g.kind = "token" /\ g.key \in Signed
       /\ Expiration[g.key] >= g.time
       /\ \E u \in Urls : <<g.key, u>> \in InScope

\* Whatever the caches have taken from other connections, at whatever time, a
\* page is answered only to a connection that the checks themselves would have
\* passed: isUserAllowed() and isTokenAllowed() agree with their caches.
AnsweredJustified ==
    \A w \in Workers : pc[w] = "page" => Justified(grounds[w])
=============================================================================
