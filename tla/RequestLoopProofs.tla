-------------------------- MODULE RequestLoopProofs --------------------------
(***************************************************************************)
(* The requests of RequestLoop: what is read for an answer is one request, *)
(* and what is read ahead is of the connection served, for any scripts,    *)
(* sizes of buffers, workers and descriptors.                              *)
(***************************************************************************)
EXTENDS RequestLoop, WellFoundedInduction, TLAPS

(***************************************************************************)
(* The inductive invariant                                                 *)
(***************************************************************************)
\* Who serves whom on which descriptor.
LinkInv ==
    /\ \A w \in Workers : pc[w] = "idle" <=> client[w] = NoConn
    /\ \A w \in Workers : client[w] # NoConn => conn[client[w]] = "served"
    /\ \A w, v \in Workers : client[w] = client[v] /\ client[w] # NoConn => w = v
    /\ \A c \in Conns : conn[c] \in {"served", "websocket"} <=> fd[c] # NoFd
    /\ \A c, d \in Conns : fd[c] = fd[d] /\ fd[c] # NoFd => c = d
    /\ \A c \in Conns : conn[c] = "away" =>
         net[c] = StreamBytes(c) /\ answered[c] = <<>> /\ c \notin broken

Serving(w) == pc[w] \in {"line", "request", "body", "page"}

\* recvBytes() has no more than was asked for, and what was read ahead first; a
\* worker that may answer has a request left.
CountOf(w) ==
    /\ copied[w] <= left[w]
    /\ pc[w] # "body" => copied[w] = 0
    /\ Serving(w) => nbFileKeepAlive[w] > 0
    /\ pc[w] = "body" /\ copied[w] > 0 /\ copied[w] < RequestedLength(w) => Ahead(w) = <<>>
CountInv == \A w \in Workers : CountOf(w)

\* The order of the bytes that a client sends.
After(a, b) == a[2] < b[2] \/ (a[2] = b[2] /\ b[3] # "request")

NetOf(c) ==
    /\ \A k \in 1..Len(net[c]) : net[c][k][1] = c
    /\ \A j, k \in 1..Len(net[c]) : j < k => After(net[c][j], net[c][k])
NetInv == \A c \in Conns : NetOf(c)

\* A byte that follows the request line of a handshake.
Spent(b) == Script[b[1]][b[2]].kind = "upgrade" /\ b[3] # "request"

\* A byte read ahead is of the client served, or an upgrade has left it.
BufferOf(w, f) ==
    \A k \in 1..Len(httpRecvBuffers[w][f]) :
        LET b == httpRecvBuffers[w][f][k] IN
        \/ client[w] = b[1] /\ fd[b[1]] = f
        \/ b[1] \in broken /\ Spent(b)
BufferInv == \A w \in Workers : \A f \in Fds : BufferOf(w, f)

\* What is read ahead comes before what is not; nothing but the end of its
\* request follows the request line of a handshake.
Pairs(w, c) ==
    /\ \A j, k \in 1..Len(Ahead(w)) :
         j < k /\ Ahead(w)[j][1] = c /\ Ahead(w)[k][1] = c => After(Ahead(w)[j], Ahead(w)[k])
    /\ \A j \in 1..Len(Ahead(w)), k \in 1..Len(net[c]) :
         Ahead(w)[j][1] = c => After(Ahead(w)[j], net[c][k])
AllSpent(w, c) ==
    /\ \A k \in 1..Len(Ahead(w)) : Ahead(w)[k][1] = c => Spent(Ahead(w)[k])
    /\ \A k \in 1..Len(net[c]) : Spent(net[c][k])
OrderOf(w, c) == Pairs(w, c) /\ (request[w].kind = "upgrade" => AllSpent(w, c))
OrderInv == \A w \in Workers : Serving(w) => OrderOf(w, client[w])

\* s is what t has after its first n elements, or the beginning of that.
Slice(s, t, n) == n + Len(s) <= Len(t) /\ \A k \in 1..Len(s) : s[k] = t[n + k]

\* What was read, what was read ahead and what is to come are t.
Slices(w, c, t) ==
    /\ Slice(read[w], t, 0) /\ Slice(Ahead(w), t, Len(read[w]))
    /\ Slice(net[c], t, Len(read[w]) + Len(Ahead(w)))

\* The length of a head, and the lengths of the whole lines it begins with.
HeadLength(c, r) == IF Script[c][r].header = 0 THEN 3 ELSE Script[c][r].header + 4
LineStarts(c, r) == {0, 2} \cup (IF Script[c][r].header = 0 THEN {} ELSE {Script[c][r].header + 3})

\* What a worker has read of its request, when the framing is not lost: whole
\* lines, the head, and as much of the body as it has counted.
ReadSoFar(w, c, r) ==
    /\ r <= Len(Script[c]) /\ request[w] = Script[c][r]
    /\ pc[w] = "line" => Len(read[w]) \in LineStarts(c, r)
    /\ pc[w] = "request" => Len(read[w]) = HeadLength(c, r)
    /\ pc[w] = "body" => Len(read[w]) + left[w] = HeadLength(c, r) + Script[c][r].body + copied[w]
    /\ pc[w] = "page" => Len(read[w]) = HeadLength(c, r) + Script[c][r].body

Reached(c) == Len(answered[c]) + 1
AllWhole(c) == \A k \in 1..Len(answered[c]) : answered[c][k] = RequestBytes(c, k)
Framed(w, c) ==
    /\ Reached(c) <= Len(Script[c]) + 1 /\ AllWhole(c)
    /\ Slices(w, c, StreamFrom(c)[Reached(c)])
    /\ ReadSoFar(w, c, Reached(c)) \/ (pc[w] = "line" /\ read[w] = <<>>)

FramingOf(c) ==
    \A k \in 1..Len(answered[c]) :
        \/ answered[c][k] = RequestBytes(c, k)
        \/ answered[c][k] = HeadBytes(c, k) /\ k = Len(answered[c])

FrameInv ==
    /\ \A w \in Workers : Serving(w) /\ client[w] \notin broken => Framed(w, client[w])
    /\ \A c \in Conns \ broken : FramingOf(c)

\* The parts of the invariant that are not types.
Rest == LinkInv /\ CountInv /\ NetInv /\ BufferInv /\ OrderInv /\ FrameInv

IInv == TypeOK /\ Rest

(***************************************************************************)
(* Sequences                                                               *)
(***************************************************************************)
\* Every set of numbers but the empty one has a smallest.
LEMMA Smallest ==
    ASSUME NEW S \in SUBSET Nat, S # {}
    PROVE  \E n \in S : \A m \in S : n <= m
<1> DEFINE R == OpToRel(<, Nat)
<1>1. IsWellFoundedOn(R, Nat)
  BY Zenon, NatLessThanWellFounded
<1>2. \A x, y \in Nat : y < x => <<y, x>> \in R
  BY DEF OpToRel
<1> HIDE DEF R
<1>3. PICK x \in S : \A y \in S : ~(<<y, x>> \in R)
  BY <1>1, WFMin
<1>4. x \in Nat /\ \A y \in S : y \in Nat /\ ~(y < x)
  BY <1>2, <1>3
<1> QED
  BY <1>4

\* What holds of 0, and of n + 1 when it holds of n, holds up to any number.
LEMMA Induction ==
    ASSUME NEW N \in Nat, NEW P \in SUBSET Nat, 0 \in P,
           \A n \in Nat : n \in P /\ n < N => n + 1 \in P
    PROVE  \A n \in 0..N : n \in P
<1> DEFINE F == {n \in 0..N : n \notin P}
<1> SUFFICES ASSUME F # {}
             PROVE  FALSE
  OBVIOUS
<1>1. PICK n \in F : \A m \in F : n <= m
  <2>1. F \in SUBSET Nat
    OBVIOUS
  <2> HIDE DEF F
  <2> QED
    BY <2>1, Smallest
<1>2. n \in Nat /\ n # 0 /\ n <= N /\ n - 1 \in 0..N /\ n - 1 \notin F
  BY <1>1
<1>3. n - 1 \in P /\ n - 1 < N /\ n - 1 \in Nat
  BY <1>2
<1>4. (n - 1) + 1 \in P
  BY <1>3
<1> QED
  BY <1>1, <1>2, <1>4

LEMMA Joined ==
    ASSUME NEW s \in Seq(Bytes), NEW t \in Seq(Bytes)
    PROVE  /\ s \o t \in Seq(Bytes) /\ Len(s \o t) = Len(s) + Len(t)
           /\ \A k \in 1..Len(s) : (s \o t)[k] = s[k]
           /\ \A k \in 1..Len(t) : (s \o t)[Len(s) + k] = t[k]
OBVIOUS

LEMMA Cut ==
    ASSUME NEW s \in Seq(Bytes), NEW n \in 0..Len(s)
    PROVE  /\ SubSeq(s, 1, n) \in Seq(Bytes) /\ Len(SubSeq(s, 1, n)) = n
           /\ \A k \in 1..n : SubSeq(s, 1, n)[k] = s[k]
           /\ SubSeq(s, n + 1, Len(s)) \in Seq(Bytes) /\ Len(SubSeq(s, n + 1, Len(s))) = Len(s) - n
           /\ \A k \in 1..(Len(s) - n) : SubSeq(s, n + 1, Len(s))[k] = s[n + k]
OBVIOUS

LEMMA SliceJoined ==
    ASSUME NEW s \in Seq(Bytes), NEW u \in Seq(Bytes), NEW t \in Seq(Bytes), NEW n \in Nat,
           Slice(s, t, n), Slice(u, t, n + Len(s))
    PROVE  Slice(s \o u, t, n)
<1>1. /\ Len(s) \in Nat /\ Len(u) \in Nat /\ Len(t) \in Nat
      /\ \A k \in 1..Len(s) : s[k] = t[n + k]
      /\ \A k \in 1..Len(u) : u[k] = t[n + Len(s) + k]
      /\ n + Len(s) + Len(u) <= Len(t)
  BY DEF Slice
<1> SUFFICES ASSUME NEW k \in 1..Len(s \o u)
             PROVE  (s \o u)[k] = t[n + k]
  BY <1>1, Joined DEF Slice
<1>2. k \in 1..(Len(s) + Len(u))
  BY Joined
<1>3. CASE k \in 1..Len(s)
  BY <1>1, <1>3, Joined
<1>4. CASE k \notin 1..Len(s)
  <2>1. k - Len(s) \in 1..Len(u) /\ Len(s) + (k - Len(s)) = k
    BY <1>1, <1>2, <1>4
  <2>2. (s \o u)[Len(s) + (k - Len(s))] = u[k - Len(s)]
    BY <2>1, Joined
  <2>3. u[k - Len(s)] = t[n + Len(s) + (k - Len(s))]
    BY <1>1, <2>1
  <2>4. n + Len(s) + (k - Len(s)) = n + k
    BY <1>1, <1>2
  <2> QED
    BY <2>1, <2>2, <2>3, <2>4
<1> QED
  BY <1>3, <1>4

LEMMA SliceCut ==
    ASSUME NEW s \in Seq(Bytes), NEW t \in Seq(Bytes), NEW n \in Nat, NEW m \in 0..Len(s),
           Slice(s, t, n)
    PROVE  Slice(SubSeq(s, 1, m), t, n) /\ Slice(SubSeq(s, m + 1, Len(s)), t, n + m)
<1>1. /\ Len(s) \in Nat /\ Len(t) \in Nat /\ n + Len(s) <= Len(t)
      /\ \A k \in 1..Len(s) : s[k] = t[n + k]
  BY DEF Slice
<1>2. Slice(SubSeq(s, 1, m), t, n)
  BY SMTT(60), <1>1, Cut DEF Slice
<1>3. \A k \in 1..(Len(s) - m) : SubSeq(s, m + 1, Len(s))[k] = t[n + m + k]
  <2> SUFFICES ASSUME NEW k \in 1..(Len(s) - m)
               PROVE  SubSeq(s, m + 1, Len(s))[k] = t[n + m + k]
    OBVIOUS
  <2>1. m + k \in 1..Len(s) /\ n + (m + k) = n + m + k
    BY <1>1
  <2>2. SubSeq(s, m + 1, Len(s))[k] = s[m + k]
    BY Cut
  <2> QED
    BY <1>1, <2>1, <2>2
<1>4. Len(SubSeq(s, m + 1, Len(s))) = Len(s) - m /\ n + m + (Len(s) - m) <= Len(t)
  BY <1>1, Cut
<1> QED
  BY <1>2, <1>3, <1>4 DEF Slice

LEMMA SliceNone ==
    ASSUME NEW t \in Seq(Bytes), NEW n \in 0..Len(t)
    PROVE  Slice(<<>>, t, n)
BY DEF Slice

\* A piece of the second of two parts.
LEMMA SliceSecond ==
    ASSUME NEW s \in Seq(Bytes), NEW t \in Seq(Bytes), NEW u \in Seq(Bytes), NEW n \in Nat,
           Slice(s, t \o u, Len(t) + n)
    PROVE  Slice(s, u, n)
<1>1. /\ Len(s) \in Nat /\ Len(t) \in Nat /\ Len(u) \in Nat
      /\ Len(t) + n + Len(s) <= Len(t) + Len(u)
      /\ \A k \in 1..Len(s) : s[k] = (t \o u)[Len(t) + n + k]
  BY Joined DEF Slice
<1> SUFFICES ASSUME NEW k \in 1..Len(s)
             PROVE  s[k] = u[n + k]
  BY <1>1 DEF Slice
<1>2. n + k \in 1..Len(u) /\ Len(t) + n + k = Len(t) + (n + k)
  BY <1>1
<1>3. (t \o u)[Len(t) + (n + k)] = u[n + k]
  BY <1>2, Joined
<1>4. s[k] = (t \o u)[Len(t) + n + k]
  BY <1>1
<1> QED
  BY <1>2, <1>3, <1>4

\* A beginning is told from another by its length.
LEMMA SliceWhole ==
    ASSUME NEW s \in Seq(Bytes), NEW t \in Seq(Bytes), NEW u \in Seq(Bytes),
           Slice(s, t \o u, 0), Len(s) = Len(t)
    PROVE  s = t
<1>1. Len(s) \in Nat /\ \A k \in 1..Len(s) : s[k] = (t \o u)[0 + k] /\ (t \o u)[k] = t[k]
  BY Joined DEF Slice
<1>2. \A k \in 1..Len(s) : s[k] = t[k]
  BY <1>1
<1> QED
  BY <1>2
(***************************************************************************)
(* What a client sends                                                     *)
(***************************************************************************)
LEMMA ScriptTyped ==
    ASSUME NEW c \in Conns
    PROVE  /\ Script[c] \in Seq(Requests) /\ Len(Script[c]) \in Nat
           /\ \A r \in 1..Len(Script[c]) :
                /\ Script[c][r] \in Requests
                /\ Script[c][r].header \in Nat /\ Script[c][r].body \in Nat
<1>1. Script[c] \in Seq(Requests)
  BY RequestAssumption
<1>2. Len(Script[c]) \in Nat /\ \A r \in 1..Len(Script[c]) : Script[c][r] \in Requests
  BY <1>1
<1> QED
  BY <1>1, <1>2 DEF Requests

PieceKinds == {"request", "header", "eol", "body"}

LEMMA PieceIs ==
    ASSUME NEW c \in Conns, NEW r \in 1..Len(Script[c]), NEW kind \in PieceKinds, NEW n \in Nat
    PROVE  /\ Piece(c, r, kind, n) \in Seq(Bytes) /\ Len(Piece(c, r, kind, n)) = n
           /\ \A k \in 1..n : Piece(c, r, kind, n)[k] = <<c, r, kind>>
<1>1. <<c, r, kind>> \in Bytes
  BY ScriptTyped DEF Bytes, PieceKinds
<1> QED
  BY <1>1 DEF Piece

LEMMA OneByte ==
    ASSUME NEW c \in Conns, NEW r \in 1..Len(Script[c]), NEW kind \in PieceKinds
    PROVE  /\ Piece(c, r, kind, 1) \in Seq(Bytes) /\ Len(Piece(c, r, kind, 1)) = 1
           /\ Piece(c, r, kind, 1)[1] = <<c, r, kind>>
<1>1. 1 \in Nat /\ 1 \in 1..1
  OBVIOUS
<1> QED
  BY <1>1, PieceIs

\* The kind of byte k of a head.
HeadKind(c, r, k) ==
    IF k = 1 THEN "request"
    ELSE IF k \in 3..(Script[c][r].header + 2) THEN "header" ELSE "eol"

LEMMA HeadIs ==
    ASSUME NEW c \in Conns, NEW r \in 1..Len(Script[c])
    PROVE  /\ HeadLength(c, r) \in Nat
           /\ HeadBytes(c, r) \in Seq(Bytes) /\ Len(HeadBytes(c, r)) = HeadLength(c, r)
           /\ \A k \in 1..HeadLength(c, r) : HeadBytes(c, r)[k] = <<c, r, HeadKind(c, r, k)>>
<1> DEFINE h == Script[c][r].header
           first == Piece(c, r, "request", 1)
           eol == Piece(c, r, "eol", 1)
           text == Piece(c, r, "header", h)
           line == first \o eol
           header == text \o eol
<1>1. h \in Nat /\ "request" \in PieceKinds /\ "eol" \in PieceKinds /\ "header" \in PieceKinds
  BY ScriptTyped DEF PieceKinds
<1>10. first \in Seq(Bytes) /\ Len(first) = 1 /\ first[1] = <<c, r, "request">>
  BY <1>1, OneByte
<1>4. eol \in Seq(Bytes) /\ Len(eol) = 1 /\ eol[1] = <<c, r, "eol">>
  BY <1>1, OneByte
<1>11. text \in Seq(Bytes) /\ Len(text) = h /\ \A k \in 1..h : text[k] = <<c, r, "header">>
  BY <1>1, PieceIs
<1>5. HeadBytes(c, r) = line \o (IF h = 0 THEN <<>> ELSE header) \o eol
  BY DEF HeadBytes
<1>6. HeadLength(c, r) = IF h = 0 THEN 3 ELSE h + 4
  BY DEF HeadLength
<1>7. \A k : HeadKind(c, r, k) = IF k = 1 THEN "request" ELSE IF k \in 3..(h + 2) THEN "header" ELSE "eol"
  BY DEF HeadKind
<1> HIDE DEF h, first, eol, text
<1>2. /\ line \in Seq(Bytes) /\ Len(line) = 2
      /\ line[1] = <<c, r, "request">> /\ line[2] = <<c, r, "eol">>
  <2>1. /\ line \in Seq(Bytes) /\ Len(line) = 2
        /\ line[1] = first[1] /\ line[1 + 1] = eol[1]
    BY <1>10, <1>4, Joined
  <2> QED
    BY <1>10, <1>4, <2>1
<1>3. /\ header \in Seq(Bytes) /\ Len(header) = h + 1
      /\ \A k \in 1..h : header[k] = <<c, r, "header">>
      /\ header[h + 1] = <<c, r, "eol">>
  <2>1. /\ header \in Seq(Bytes) /\ Len(header) = Len(text) + Len(eol)
        /\ \A k \in 1..Len(text) : header[k] = text[k]
        /\ \A k \in 1..Len(eol) : header[Len(text) + k] = eol[k]
    BY <1>11, <1>4, Joined
  <2>2. header[h + 1] = eol[1]
    BY <1>11, <1>4, <2>1
  <2> QED
    BY <1>11, <1>4, <2>1, <2>2
<1> HIDE DEF line, header
<1>8. CASE h = 0
  <2>1. HeadBytes(c, r) = line \o eol
    <3>1. HeadBytes(c, r) = line \o <<>> \o eol
      BY <1>5, <1>8
    <3>2. line \o <<>> = line
      BY <1>2
    <3> QED
      BY <3>1, <3>2
  <2>2. /\ HeadBytes(c, r) \in Seq(Bytes) /\ Len(HeadBytes(c, r)) = 3
        /\ HeadBytes(c, r)[1] = line[1] /\ HeadBytes(c, r)[2] = line[2]
        /\ HeadBytes(c, r)[2 + 1] = eol[1]
    BY SMTT(60), <1>2, <1>4, <2>1, Joined
  <2>3. \A k \in 1..3 : HeadBytes(c, r)[k] = <<c, r, HeadKind(c, r, k)>>
    BY <1>2, <1>4, <1>7, <1>8, <2>2
  <2> QED
    BY <1>6, <1>8, <2>2, <2>3
<1>9. CASE h # 0
  <2>1. HeadBytes(c, r) = line \o header \o eol
    BY <1>5, <1>9
  <2>2. /\ line \o header \in Seq(Bytes) /\ Len(line \o header) = h + 3
        /\ (line \o header)[1] = line[1] /\ (line \o header)[2] = line[2]
        /\ \A k \in 1..(h + 1) : (line \o header)[2 + k] = header[k]
    <3>1. /\ line \o header \in Seq(Bytes) /\ Len(line \o header) = Len(line) + Len(header)
          /\ \A k \in 1..Len(line) : (line \o header)[k] = line[k]
          /\ \A k \in 1..Len(header) : (line \o header)[Len(line) + k] = header[k]
      BY <1>2, <1>3, Joined
    <3> QED
      BY SMTT(60), <1>1, <1>2, <1>3, <3>1
  <2>3. /\ HeadBytes(c, r) \in Seq(Bytes) /\ Len(HeadBytes(c, r)) = h + 4
        /\ \A k \in 1..(h + 3) : HeadBytes(c, r)[k] = (line \o header)[k]
        /\ HeadBytes(c, r)[(h + 3) + 1] = eol[1]
    <3> DEFINE s == line \o header
    <3>1. s \in Seq(Bytes) /\ Len(s) = h + 3 /\ HeadBytes(c, r) = s \o eol
      BY <2>1, <2>2
    <3> HIDE DEF s
    <3>2. /\ HeadBytes(c, r) \in Seq(Bytes) /\ Len(HeadBytes(c, r)) = Len(s) + Len(eol)
          /\ \A k \in 1..Len(s) : HeadBytes(c, r)[k] = s[k]
          /\ \A k \in 1..Len(eol) : HeadBytes(c, r)[Len(s) + k] = eol[k]
      <4>1. /\ s \o eol \in Seq(Bytes) /\ Len(s \o eol) = Len(s) + Len(eol)
            /\ \A k \in 1..Len(s) : (s \o eol)[k] = s[k]
            /\ \A k \in 1..Len(eol) : (s \o eol)[Len(s) + k] = eol[k]
        BY <1>4, <3>1, Joined
      <4> QED
        BY <3>1, <4>1
    <3>3. HeadBytes(c, r)[(h + 3) + 1] = eol[1]
      BY <1>4, <3>1, <3>2
    <3> QED
      BY <1>1, <1>4, <3>1, <3>2, <3>3 DEF s
  <2>4. ASSUME NEW k \in 1..(h + 4)
        PROVE  HeadBytes(c, r)[k] = <<c, r, HeadKind(c, r, k)>>
    <3>1. CASE k = 1 \/ k = 2
      <4>1. k \in 1..(h + 3) /\ k \notin 3..(h + 2)
        BY <1>1, <3>1
      <4>2. HeadBytes(c, r)[k] = line[k]
        BY <2>2, <2>3, <3>1, <4>1
      <4> QED
        BY <1>2, <1>7, <3>1, <4>1, <4>2
    <3>2. CASE k \in 3..(h + 2)
      <4>1. k - 2 \in 1..h /\ 2 + (k - 2) = k /\ k \in 1..(h + 3) /\ k # 1
        BY <1>1, <3>2
      <4>2. (line \o header)[2 + (k - 2)] = header[k - 2]
        BY SMTT(60), <1>1, <2>2, <4>1
      <4> QED
        BY <1>3, <1>7, <2>3, <3>2, <4>1, <4>2
    <3>3. CASE k = h + 3
      <4>1. (line \o header)[2 + (h + 1)] = header[h + 1] /\ 2 + (h + 1) = k
        BY <1>1, <2>2, <3>3
      <4>2. k \in 1..(h + 3) /\ k # 1 /\ k \notin 3..(h + 2)
        BY <1>1, <3>3
      <4> QED
        BY <1>3, <1>7, <2>3, <4>1, <4>2
    <3>4. CASE k = h + 4
      <4>1. k # 1 /\ k \notin 3..(h + 2) /\ k = (h + 3) + 1
        BY <1>1, <3>4
      <4> QED
        BY <1>4, <1>7, <2>3, <3>4, <4>1
    <3> QED
      <4>1. k = 1 \/ k = 2 \/ k \in 3..(h + 2) \/ k = h + 3 \/ k = h + 4
        BY <1>1
      <4> QED
        BY <3>1, <3>2, <3>3, <3>4, <4>1
  <2> QED
    BY <1>1, <1>6, <1>9, <2>3, <2>4
<1> QED
  BY <1>8, <1>9

LEMMA RequestIs ==
    ASSUME NEW c \in Conns, NEW r \in 1..Len(Script[c])
    PROVE  /\ RequestBytes(c, r) \in Seq(Bytes)
           /\ Len(RequestBytes(c, r)) = HeadLength(c, r) + Script[c][r].body
           /\ Len(RequestBytes(c, r)) > 0
           /\ RequestBytes(c, r)[1] = <<c, r, "request">>
           /\ \A k \in 1..Len(RequestBytes(c, r)) :
                /\ RequestBytes(c, r)[k][1] = c /\ RequestBytes(c, r)[k][2] = r
                /\ k # 1 => RequestBytes(c, r)[k][3] # "request"
<1> DEFINE head == HeadBytes(c, r)
           m == Script[c][r].body
           body == Piece(c, r, "body", m)
<1>1. m \in Nat /\ Script[c][r].header \in Nat
  BY ScriptTyped
<1>2. /\ head \in Seq(Bytes) /\ Len(head) = HeadLength(c, r) /\ HeadLength(c, r) \in Nat
      /\ HeadLength(c, r) > 0
      /\ \A k \in 1..HeadLength(c, r) : head[k] = <<c, r, HeadKind(c, r, k)>>
  BY SMTT(60), <1>1, HeadIs DEF HeadLength
<1>3. body \in Seq(Bytes) /\ Len(body) = m /\ \A k \in 1..m : body[k] = <<c, r, "body">>
  BY <1>1, PieceIs DEF PieceKinds
<1>4. RequestBytes(c, r) = head \o body
  BY DEF RequestBytes
<1>5. HeadKind(c, r, 1) = "request" /\ \A k \in Nat \ {1} : HeadKind(c, r, k) # "request"
  BY DEF HeadKind
<1> HIDE DEF head, m, body
<1>6. /\ RequestBytes(c, r) \in Seq(Bytes) /\ Len(RequestBytes(c, r)) = Len(head) + m
      /\ \A k \in 1..Len(head) : RequestBytes(c, r)[k] = head[k]
      /\ \A k \in 1..m : RequestBytes(c, r)[Len(head) + k] = body[k]
  <2>1. /\ head \o body \in Seq(Bytes) /\ Len(head \o body) = Len(head) + Len(body)
        /\ \A k \in 1..Len(head) : (head \o body)[k] = head[k]
        /\ \A k \in 1..Len(body) : (head \o body)[Len(head) + k] = body[k]
    BY <1>2, <1>3, Joined
  <2> QED
    BY <1>3, <1>4, <2>1
<1>7. ASSUME NEW k \in 1..Len(RequestBytes(c, r))
      PROVE  /\ RequestBytes(c, r)[k][1] = c /\ RequestBytes(c, r)[k][2] = r
             /\ k # 1 => RequestBytes(c, r)[k][3] # "request"
  <2>1. CASE k \in 1..Len(head)
    BY <1>2, <1>5, <1>6, <2>1
  <2>2. CASE k \notin 1..Len(head)
    <3>1. k - Len(head) \in 1..m /\ Len(head) + (k - Len(head)) = k
      BY <1>1, <1>2, <1>6, <2>2
    <3>2. RequestBytes(c, r)[k] = <<c, r, "body">>
      BY <1>3, <1>6, <3>1
    <3> QED
      BY <3>2
  <2> QED
    BY <2>1, <2>2
<1> QED
  BY SMTT(60), <1>1, <1>2, <1>5, <1>6, <1>7 DEF m
\* StreamFrom, which is recursive, is what its definition says: it is built
\* from the last request to the first.
LEMMA StreamDefined ==
    ASSUME NEW c \in Conns
    PROVE  /\ StreamFrom(c)[Len(Script[c]) + 1] = <<>>
           /\ \A r \in 1..Len(Script[c]) :
                StreamFrom(c)[r] = RequestBytes(c, r) \o StreamFrom(c)[r + 1]
<1> DEFINE N == Len(Script[c])
           next(g, r) == IF r > N THEN <<>> ELSE RequestBytes(c, r) \o g[r + 1]
           P == {m \in Nat : m <= N => \E g : \A r \in (N + 1 - m)..(N + 1) : g[r] = next(g, r)}
<1>1. N \in Nat
  BY ScriptTyped
<1> HIDE DEF N
<1>2. 0 \in P
  <2> DEFINE g == [r \in {N + 1} |-> <<>>]
  <2>1. \A r \in (N + 1 - 0)..(N + 1) : g[r] = next(g, r)
    BY <1>1
  <2> QED
    BY <2>1
<1>3. ASSUME NEW m \in Nat, m \in P, m < N
      PROVE  m + 1 \in P
  <2>1. PICK g : \A r \in (N + 1 - m)..(N + 1) : g[r] = next(g, r)
    BY <1>1, <1>3
  <2> DEFINE a == N - m
             h == [r \in a..(N + 1) |-> IF r = a THEN RequestBytes(c, a) \o g[a + 1] ELSE g[r]]
  <2>2. a \in 1..N /\ N + 1 - m = a + 1 /\ N + 1 - (m + 1) = a
    BY <1>1, <1>3
  <2>3. \A r \in a..(N + 1) : h[r] = IF r = a THEN RequestBytes(c, a) \o g[a + 1] ELSE g[r]
    OBVIOUS
  <2> HIDE DEF h, a
  <2>4. \A r \in a..(N + 1) : h[r] = next(h, r)
    <3> SUFFICES ASSUME NEW r \in a..(N + 1)
                 PROVE  h[r] = next(h, r)
      OBVIOUS
    <3>1. CASE r = a
      <4>1. h[r] = RequestBytes(c, a) \o g[a + 1]
        BY <2>3, <3>1
      <4>2. a + 1 \in a..(N + 1) /\ a + 1 # a /\ ~(a > N)
        BY <1>1, <2>2
      <4>3. h[a + 1] = g[a + 1]
        BY <2>3, <4>2
      <4> QED
        BY <3>1, <4>1, <4>2, <4>3
    <3>2. CASE r # a
      <4>1. r \in (N + 1 - m)..(N + 1) /\ h[r] = g[r]
        BY <1>1, <2>2, <2>3, <3>2
      <4>2. g[r] = next(g, r)
        BY <2>1, <4>1
      <4>3. r > N \/ h[r + 1] = g[r + 1]
        BY <1>1, <2>2, <2>3, <3>2
      <4> QED
        BY <4>1, <4>2, <4>3
    <3> QED
      BY <3>1, <3>2
  <2> QED
    BY <1>3, <2>2, <2>4
<1>4. N \in P
  <2>1. P \in SUBSET Nat /\ \A m \in Nat : m \in P /\ m < N => m + 1 \in P
    BY <1>3
  <2> HIDE DEF P
  <2>2. \A m \in 0..N : m \in P
    BY <1>1, <1>2, <2>1, Induction
  <2> QED
    BY <1>1, <2>2
<1>5. PICK g : \A r \in 1..(N + 1) : g[r] = next(g, r)
  BY <1>1, <1>4
<1> DEFINE from == [r \in 1..(N + 1) |-> g[r]]
           Fixed(f) == f = [r \in 1..(N + 1) |-> next(f, r)]
<1>6. Fixed(from)
  <2>1. \A r \in 1..(N + 1) : from[r] = next(from, r)
    <3> SUFFICES ASSUME NEW r \in 1..(N + 1)
                 PROVE  from[r] = next(from, r)
      OBVIOUS
    <3>1. r > N \/ from[r + 1] = g[r + 1]
      BY <1>1
    <3> QED
      BY <1>5, <3>1
  <2> QED
    BY <2>1
<1>7. StreamFrom(c) = CHOOSE f : Fixed(f)
  BY DEF StreamFrom, N
<1> HIDE DEF Fixed, from
<1>8. Fixed(StreamFrom(c))
  BY <1>6, <1>7
<1>9. \A r \in 1..(N + 1) : StreamFrom(c)[r] = next(StreamFrom(c), r)
  BY <1>8 DEF Fixed
<1>10. N + 1 > N /\ N + 1 \in 1..(N + 1) /\ \A r \in 1..N : r \in 1..(N + 1) /\ ~(r > N)
  BY <1>1
<1>11. StreamFrom(c)[N + 1] = <<>> /\ \A r \in 1..N : StreamFrom(c)[r] = RequestBytes(c, r) \o StreamFrom(c)[r + 1]
  BY <1>9, <1>10
<1> QED
  BY <1>11 DEF N

\* The bytes of a client are of its requests, in their order.
Ordered(c, s, r) ==
    /\ \A k \in 1..Len(s) : s[k][1] = c /\ s[k][2] >= r
    /\ \A j, k \in 1..Len(s) : j < k => After(s[j], s[k])

LEMMA StreamTyped ==
    ASSUME NEW c \in Conns, NEW r \in 1..(Len(Script[c]) + 1)
    PROVE  StreamFrom(c)[r] \in Seq(Bytes) /\ Ordered(c, StreamFrom(c)[r], r)
<1> DEFINE N == Len(Script[c])
           T == StreamFrom(c)
           good(n) == T[n] \in Seq(Bytes) /\ Ordered(c, T[n], n)
           P == {m \in Nat : m <= N => good(N + 1 - m)}
<1>1. N \in Nat
  BY ScriptTyped
<1> HIDE DEF N
<1>2. T[N + 1] = <<>> /\ \A n \in 1..N : T[n] = RequestBytes(c, n) \o T[n + 1]
  BY StreamDefined DEF N
<1> HIDE DEF T
<1>3. 0 \in P
  <2>1. N + 1 - 0 = N + 1
    BY <1>1
  <2>2. good(N + 1)
    BY <1>2 DEF Ordered
  <2> QED
    BY <2>1, <2>2
<1>4. ASSUME NEW m \in Nat, m \in P, m < N
      PROVE  m + 1 \in P
  <2> DEFINE n == N - m
             s == RequestBytes(c, n)
             t == T[n + 1]
  <2>1. n \in 1..N /\ N + 1 - m = n + 1 /\ N + 1 - (m + 1) = n
    <3>1. m \in Nat /\ m < N
      BY <1>4
    <3> HIDE DEF P
    <3> QED
      BY <1>1, <3>1
  <2>2. t \in Seq(Bytes) /\ Ordered(c, t, n + 1) /\ T[n] = s \o t
    <3>1. good(N + 1 - m)
      <4>1. m <= N
        BY <1>1, <1>4
      <4> QED
        BY <1>4, <4>1
    <3>2. T[n] = s \o t
      BY <1>2, <2>1
    <3> QED
      BY <2>1, <3>1, <3>2
  <2>3. /\ s \in Seq(Bytes)
        /\ \A k \in 1..Len(s) : s[k][1] = c /\ s[k][2] = n /\ (k # 1 => s[k][3] # "request")
    BY SMTT(60), <2>1, RequestIs DEF N
  <2> HIDE DEF n, s, t
  <2>4. /\ T[n] \in Seq(Bytes) /\ Len(T[n]) = Len(s) + Len(t)
        /\ \A k \in 1..Len(s) : T[n][k] = s[k]
        /\ \A k \in 1..Len(t) : T[n][Len(s) + k] = t[k]
    BY <2>2, <2>3, Joined
  <2>5. \A k \in 1..Len(T[n]) :
          \/ k \in 1..Len(s) /\ T[n][k] = s[k]
          \/ /\ k - Len(s) \in 1..Len(t) /\ k > Len(s)
             /\ T[n][k] = t[k - Len(s)]
    <3> SUFFICES ASSUME NEW k \in 1..Len(T[n]), k \notin 1..Len(s)
                 PROVE  k - Len(s) \in 1..Len(t) /\ k > Len(s) /\ T[n][k] = t[k - Len(s)]
      BY <2>4
    <3>1. Len(s) \in Nat /\ Len(t) \in Nat
      BY <2>2, <2>3
    <3>2. k - Len(s) \in 1..Len(t) /\ Len(s) + (k - Len(s)) = k /\ k > Len(s)
      BY <2>4, <3>1
    <3>3. T[n][Len(s) + (k - Len(s))] = t[k - Len(s)]
      BY <2>4, <3>2
    <3> QED
      BY <3>2, <3>3
  <2>6. \A k \in 1..Len(s) : s[k][1] = c /\ s[k][2] = n /\ (k # 1 => s[k][3] # "request")
    BY <2>3
  <2>7. /\ \A k \in 1..Len(t) : t[k][1] = c /\ t[k][2] > n
        /\ \A j, k \in 1..Len(t) : j < k => After(t[j], t[k])
    <3>1. \A k \in 1..Len(t) : t[k] \in Bytes
      BY <2>2
    <3>2. \A k \in 1..Len(t) : t[k][2] \in Nat
      BY <3>1 DEF Bytes
    <3> QED
      BY SMTT(60), <1>1, <2>1, <2>2, <3>2 DEF Ordered
  <2>8. ASSUME NEW k \in 1..Len(T[n])
        PROVE  T[n][k][1] = c /\ T[n][k][2] >= n
    <3>1. T[n][k] \in Bytes
      BY <2>4
    <3>2. T[n][k][2] \in Nat /\ n \in Nat
      BY <1>1, <2>1, <3>1 DEF Bytes
    <3>3. CASE k \in 1..Len(s) /\ T[n][k] = s[k]
      BY <2>6, <3>2, <3>3
    <3>4. CASE k - Len(s) \in 1..Len(t) /\ T[n][k] = t[k - Len(s)]
      BY SMT, <2>7, <3>2, <3>4
    <3> QED
      BY <2>5, <3>3, <3>4
  <2>9. ASSUME NEW j \in 1..Len(T[n]), NEW k \in 1..Len(T[n]), j < k
        PROVE  After(T[n][j], T[n][k])
    <3>1. Len(s) \in Nat /\ Len(t) \in Nat
      BY <2>2, <2>3
    <3>2. CASE k \in 1..Len(s)
      <4>1. j \in 1..Len(s) /\ k # 1
        BY <2>9, <3>1, <3>2
      <4>2. T[n][j] = s[j] /\ T[n][k] = s[k]
        BY <2>4, <3>2, <4>1
      <4> QED
        BY <2>6, <3>2, <4>1, <4>2 DEF After
    <3>3. CASE k \notin 1..Len(s) /\ j \in 1..Len(s)
      BY SMTT(60), <2>5, <2>6, <2>7, <3>3 DEF After
    <3>4. CASE k \notin 1..Len(s) /\ j \notin 1..Len(s)
      <4>1. /\ k - Len(s) \in 1..Len(t) /\ T[n][k] = t[k - Len(s)]
            /\ j - Len(s) \in 1..Len(t) /\ T[n][j] = t[j - Len(s)]
        BY <2>5, <3>4
      <4>2. j - Len(s) < k - Len(s)
        BY <2>4, <2>9, <3>1
      <4> QED
        BY <2>7, <4>1, <4>2
    <3> QED
      BY <3>2, <3>3, <3>4
  <2>10. good(n)
    BY <2>4, <2>8, <2>9 DEF Ordered
  <2> QED
    BY <2>1, <2>10 DEF n
<1>5. good(r)
  <2>1. P \in SUBSET Nat /\ \A m \in Nat : m \in P /\ m < N => m + 1 \in P
    BY <1>4
  <2> HIDE DEF P
  <2>2. \A m \in 0..N : m \in P
    BY <1>1, <1>3, <2>1, Induction
  <2>3. CASE r = N + 1
    <3>1. good(N + 1)
      BY <1>2 DEF Ordered
    <3> QED
      BY <2>3, <3>1
  <2>4. CASE r # N + 1
    <3>1. N + 1 - r \in 0..N /\ N + 1 - (N + 1 - r) = r
      BY <1>1, <2>4 DEF N
    <3>2. N + 1 - r \in P
      BY <2>2, <3>1
    <3> QED
      BY <1>1, <3>1, <3>2 DEF P
  <2> QED
    BY <2>3, <2>4
<1> QED
  BY <1>5 DEF T
(***************************************************************************)
(* The step of one worker                                                  *)
(***************************************************************************)
LEMMA ServedIs ==
    ASSUME TypeOK, LinkInv, NEW w \in Workers, pc[w] # "idle"
    PROVE  /\ client[w] \in Conns /\ conn[client[w]] = "served" /\ fd[client[w]] \in Fds
           /\ Ahead(w) = httpRecvBuffers[w][fd[client[w]]]
           /\ Ahead(w) \in Seq(Bytes) /\ Len(Ahead(w)) \in Nat
           /\ read[w] \in Seq(Bytes) /\ Len(read[w]) \in Nat
           /\ net[client[w]] \in Seq(Bytes) /\ Len(net[client[w]]) \in Nat
<1>1. client[w] \in Conns /\ conn[client[w]] = "served" /\ fd[client[w]] \in Fds
  BY DEF TypeOK, LinkInv
<1>2. Ahead(w) = httpRecvBuffers[w][fd[client[w]]]
  BY DEF Ahead
<1>3. Ahead(w) \in Seq(Bytes) /\ read[w] \in Seq(Bytes) /\ net[client[w]] \in Seq(Bytes)
  BY <1>1, <1>2 DEF TypeOK
<1>4. Len(Ahead(w)) \in Nat /\ Len(read[w]) \in Nat /\ Len(net[client[w]]) \in Nat
  BY <1>3
<1> QED
  BY <1>1, <1>2, <1>3, <1>4

\* A step of w, for the connection c, after which w still serves c.
Mine(w, c) ==
    /\ c = client[w] /\ conn' = conn /\ fd' = fd /\ client' = client
    /\ \A v \in Workers \ {w} :
         /\ pc'[v] = pc[v] /\ read'[v] = read[v] /\ request'[v] = request[v]
         /\ left'[v] = left[v] /\ copied'[v] = copied[v]
         /\ nbFileKeepAlive'[v] = nbFileKeepAlive[v] /\ httpRecvBuffers'[v] = httpRecvBuffers[v]
    /\ \A f \in Fds \ {fd[c]} : httpRecvBuffers'[w][f] = httpRecvBuffers[w][f]
    /\ \A d \in Conns \ {c} : /\ net'[d] = net[d] /\ answered'[d] = answered[d]
                              /\ d \in broken' <=> d \in broken
    /\ broken \subseteq broken'
    /\ pc[w] # "idle" /\ pc'[w] # "idle"

\* What such a step has to keep.
Kept(w, c) ==
    /\ CountOf(w)' /\ NetOf(c)' /\ BufferOf(w, fd[c])'
    /\ Serving(w)' => OrderOf(w, c)'
    /\ Serving(w)' /\ c \notin broken' => Framed(w, c)'
    /\ c \notin broken' => FramingOf(c)'

LEMMA OthersKept ==
    ASSUME TypeOK, Rest, NEW w \in Workers, NEW c \in Conns, Mine(w, c), Kept(w, c)
    PROVE  Rest'
<1>1. \A v \in Workers : v # w => client[v] # c
  BY DEF Mine, Rest, LinkInv, TypeOK
<1>2. fd[c] \in Fds /\ pc[w] # "idle"
  BY ServedIs DEF Mine, Rest
<1>3. \A v \in Workers : v # w =>
        /\ Serving(v)' <=> Serving(v)
        /\ RequestedLength(v)' = RequestedLength(v)
        /\ Ahead(v)' = Ahead(v)
  BY DEF Mine, Serving, RequestedLength, Ahead
<1>4. LinkInv'
  <2>1. conn[c] = "served"
    BY <1>2, ServedIs DEF Mine, Rest
  <2>2. \A v \in Workers : pc'[v] = "idle" <=> pc[v] = "idle"
    BY DEF Mine
  <2>3. \A d \in Conns : conn'[d] = "away" => /\ conn[d] = "away" /\ net'[d] = net[d]
                                             /\ answered'[d] = answered[d]
                                             /\ d \in broken' <=> d \in broken
    BY <2>1 DEF Mine
  <2> QED
    BY <2>2, <2>3 DEF Rest, LinkInv, Mine
<1>5. CountInv'
  <2> SUFFICES ASSUME NEW v \in Workers
               PROVE  CountOf(v)'
    BY DEF CountInv
  <2>1. CASE v = w
    BY <2>1 DEF Kept
  <2>2. CASE v # w
    BY <1>3, <2>2 DEF Rest, CountInv, CountOf, Mine
  <2> QED
    BY <2>1, <2>2
<1>6. NetInv'
  <2> SUFFICES ASSUME NEW d \in Conns
               PROVE  NetOf(d)'
    BY DEF NetInv
  <2>1. CASE d = c
    BY <2>1 DEF Kept
  <2>2. CASE d # c
    BY <2>2 DEF Rest, NetInv, NetOf, Mine
  <2> QED
    BY <2>1, <2>2
<1>7. BufferInv'
  <2> SUFFICES ASSUME NEW v \in Workers, NEW f \in Fds
               PROVE  BufferOf(v, f)'
    BY DEF BufferInv
  <2>1. CASE v = w /\ f = fd[c]
    BY <2>1 DEF Kept, Mine
  <2>2. CASE ~(v = w /\ f = fd[c])
    <3>1. httpRecvBuffers'[v][f] = httpRecvBuffers[v][f]
      BY <2>2 DEF Mine
    <3>2. BufferOf(v, f)
      BY DEF Rest, BufferInv
    <3> QED
      BY <3>1, <3>2 DEF BufferOf, Mine
  <2> QED
    BY <2>1, <2>2
<1>8. \A v \in Workers : v # w /\ Serving(v) => client[v] \in Conns /\ client[v] # c
  BY <1>1, ServedIs DEF Rest, Serving
<1>9. OrderInv'
  <2> SUFFICES ASSUME NEW v \in Workers, Serving(v)'
               PROVE  OrderOf(v, client[v])'
    BY DEF OrderInv
  <2>1. CASE v = w
    BY <2>1 DEF Kept, Mine
  <2>2. CASE v # w
    <3>1. Serving(v) /\ client[v] \in Conns \ {c} /\ Ahead(v)' = Ahead(v)
      BY <1>3, <1>8, <2>2
    <3>2. /\ client'[v] = client[v] /\ net'[client[v]] = net[client[v]] /\ request'[v] = request[v]
      BY <2>2, <3>1 DEF Mine
    <3>3. OrderOf(v, client[v])
      BY <3>1 DEF Rest, OrderInv
    <3> QED
      BY SMTT(60), <3>1, <3>2, <3>3 DEF OrderOf, Pairs, AllSpent
  <2> QED
    BY <2>1, <2>2
<1>10. ASSUME NEW v \in Workers, Serving(v)', client'[v] \notin broken'
       PROVE  Framed(v, client[v])'
  <2>1. CASE v = w
    BY <1>10, <2>1 DEF Kept, Mine
  <2>2. CASE v # w
    <3>1. Serving(v) /\ client[v] \in Conns \ {c} /\ Ahead(v)' = Ahead(v)
      BY <1>3, <1>8, <1>10, <2>2
    <3>2. /\ client'[v] = client[v] /\ net'[client[v]] = net[client[v]]
          /\ answered'[client[v]] = answered[client[v]] /\ client[v] \notin broken
          /\ request'[v] = request[v] /\ read'[v] = read[v] /\ pc'[v] = pc[v]
          /\ left'[v] = left[v] /\ copied'[v] = copied[v]
      BY <1>10, <2>2, <3>1 DEF Mine
    <3>3. Framed(v, client[v])
      BY <3>1, <3>2 DEF Rest, FrameInv
    <3> QED
      BY <3>1, <3>2, <3>3 DEF Framed, Reached, AllWhole, Slices, ReadSoFar
  <2> QED
    BY <2>1, <2>2
<1>11. ASSUME NEW d \in Conns \ broken'
       PROVE  FramingOf(d)'
  <2>1. CASE d = c
    BY <1>11, <2>1 DEF Kept
  <2>2. CASE d # c
    <3>1. d \in Conns \ broken /\ answered'[d] = answered[d]
      BY <1>11, <2>2 DEF Mine
    <3> QED
      BY <3>1 DEF Rest, FrameInv, FramingOf
  <2> QED
    BY <2>1, <2>2
<1>12. FrameInv'
  BY <1>10, <1>11 DEF FrameInv
<1> QED
  BY <1>4, <1>5, <1>6, <1>7, <1>9, <1>12 DEF Rest
(***************************************************************************)
(* Bytes that are received, read ahead and read                            *)
(***************************************************************************)
\* What all steps on the bytes of c keep.
BytesKept(w, c) ==
    /\ NetOf(c)' /\ BufferOf(w, fd[c])'
    /\ Pairs(w, c) => Pairs(w, c)'
    /\ AllSpent(w, c) => AllSpent(w, c)'
    /\ \A t \in Seq(Bytes) : Slices(w, c, t) => Slices(w, c, t)'

\* n bytes read ahead are read.
Taken(w, c, n) ==
    /\ n \in 0..Len(Ahead(w))
    /\ Ahead(w)' = SubSeq(Ahead(w), n + 1, Len(Ahead(w)))
    /\ read'[w] = read[w] \o SubSeq(Ahead(w), 1, n)
    /\ net'[c] = net[c]

LEMMA TakenKeeps ==
    ASSUME TypeOK, Rest, NEW w \in Workers, NEW c \in Conns, Mine(w, c), NEW n, Taken(w, c, n)
    PROVE  /\ BytesKept(w, c)
           /\ read'[w] \in Seq(Bytes) /\ Len(read'[w]) = Len(read[w]) + n
           /\ Ahead(w)' \in Seq(Bytes) /\ Len(Ahead(w)') = Len(Ahead(w)) - n
<1> DEFINE A == Ahead(w)
           B == SubSeq(A, n + 1, Len(A))
           C == SubSeq(A, 1, n)
<1>1. /\ A \in Seq(Bytes) /\ Len(A) \in Nat /\ A = httpRecvBuffers[w][fd[c]] /\ fd[c] \in Fds
      /\ read[w] \in Seq(Bytes) /\ Len(read[w]) \in Nat
      /\ net[c] \in Seq(Bytes) /\ Len(net[c]) \in Nat
  BY ServedIs DEF Mine, Rest
<1>2. n \in 0..Len(A) /\ Ahead(w)' = B /\ read'[w] = read[w] \o C /\ net'[c] = net[c]
  BY DEF Taken
<1>3. httpRecvBuffers'[w][fd[c]] = B
  BY <1>2 DEF Ahead, Mine
<1> HIDE DEF A
<1>4. /\ B \in Seq(Bytes) /\ Len(B) = Len(A) - n /\ C \in Seq(Bytes) /\ Len(C) = n
      /\ \A k \in 1..(Len(A) - n) : B[k] = A[n + k]
  BY <1>1, <1>2, Cut
<1> HIDE DEF B, C
<1>5. \A k \in 1..Len(B) : n + k \in 1..Len(A) /\ B[k] = A[n + k]
  BY <1>1, <1>2, <1>4
<1>6. NetOf(c)'
  BY <1>2 DEF NetOf, Rest, NetInv
<1>7. BufferOf(w, fd[c])'
  <2>1. BufferOf(w, fd[c])
    BY <1>1 DEF Rest, BufferInv
  <2>2. \A k \in 1..Len(B) : \/ client[w] = B[k][1] /\ fd[B[k][1]] = fd[c]
                             \/ B[k][1] \in broken /\ Spent(B[k])
    BY ZenonT(60), <1>1, <1>5, <2>1 DEF BufferOf
  <2> QED
    BY <1>3, <2>2 DEF BufferOf, Mine
<1>8. Pairs(w, c) => Pairs(w, c)'
  <2> SUFFICES ASSUME Pairs(w, c)
               PROVE  Pairs(w, c)'
    OBVIOUS
  <2>1. /\ \A j, k \in 1..Len(A) : j < k /\ A[j][1] = c /\ A[k][1] = c => After(A[j], A[k])
        /\ \A j \in 1..Len(A), k \in 1..Len(net[c]) : A[j][1] = c => After(A[j], net[c][k])
    BY DEF Pairs, A
  <2>2. ASSUME NEW j \in 1..Len(B), NEW k \in 1..Len(B), j < k, B[j][1] = c, B[k][1] = c
        PROVE  After(B[j], B[k])
    <3>1. n + j < n + k
      BY <1>2, <1>4, <2>2
    <3> QED
      BY <1>5, <2>1, <2>2, <3>1
  <2>3. \A j \in 1..Len(B), k \in 1..Len(net[c]) : B[j][1] = c => After(B[j], net[c][k])
    BY ZenonT(60), <1>5, <2>1
  <2> QED
    BY <1>2, <2>2, <2>3 DEF Pairs
<1>9. AllSpent(w, c) => AllSpent(w, c)'
  BY <1>2, <1>5 DEF AllSpent, A
<1>10. ASSUME NEW t \in Seq(Bytes), Slices(w, c, t)
       PROVE  Slices(w, c, t)'
  <2>1. Slice(read[w], t, 0) /\ Slice(A, t, Len(read[w])) /\ Slice(net[c], t, Len(read[w]) + Len(A))
    BY <1>10 DEF Slices, A
  <2>2. Slice(C, t, Len(read[w])) /\ Slice(B, t, Len(read[w]) + n)
    BY <1>1, <1>2, <2>1, SliceCut DEF B, C
  <2>3. Slice(read[w] \o C, t, 0)
    <3>1. 0 \in Nat /\ 0 + Len(read[w]) = Len(read[w])
      BY <1>1
    <3> QED
      BY <1>1, <1>4, <2>1, <2>2, <3>1, SliceJoined
  <2>4. Len(read[w] \o C) = Len(read[w]) + n
    BY <1>1, <1>4, Joined
  <2>5. Len(read[w]) + n + Len(B) = Len(read[w]) + Len(A)
    <3>1. Len(B) = Len(A) - n /\ Len(A) \in Nat /\ n \in 0..Len(A) /\ Len(read[w]) \in Nat
      BY <1>1, <1>2, <1>4
    <3> QED
      BY <3>1
  <2> QED
    BY <1>2, <2>1, <2>2, <2>3, <2>4, <2>5 DEF Slices
<1>11. read[w] \o C \in Seq(Bytes) /\ Len(read[w] \o C) = Len(read[w]) + n
  BY <1>1, <1>4, Joined
<1> QED
  BY <1>2, <1>4, <1>6, <1>7, <1>8, <1>9, <1>10, <1>11 DEF BytesKept, A

\* n bytes are received, to be read later.
Arrived(w, c, n) ==
    /\ n \in 0..Len(net[c])
    /\ Ahead(w)' = Ahead(w) \o SubSeq(net[c], 1, n)
    /\ net'[c] = SubSeq(net[c], n + 1, Len(net[c]))
    /\ read'[w] = read[w]

LEMMA ArrivedKeeps ==
    ASSUME TypeOK, Rest, NEW w \in Workers, NEW c \in Conns, Mine(w, c), NEW n, Arrived(w, c, n)
    PROVE  /\ BytesKept(w, c)
           /\ Ahead(w)' \in Seq(Bytes) /\ net'[c] \in Seq(Bytes)
<1> DEFINE A == Ahead(w)
           N == net[c]
           B == SubSeq(N, n + 1, Len(N))
           C == SubSeq(N, 1, n)
           D == A \o C
<1>1. /\ A \in Seq(Bytes) /\ Len(A) \in Nat /\ A = httpRecvBuffers[w][fd[c]] /\ fd[c] \in Fds
      /\ read[w] \in Seq(Bytes) /\ Len(read[w]) \in Nat
      /\ N \in Seq(Bytes) /\ Len(N) \in Nat
  BY ServedIs DEF Mine, Rest
<1>2. n \in 0..Len(N) /\ Ahead(w)' = D /\ read'[w] = read[w] /\ net'[c] = B
  BY SMTT(60) DEF Arrived
<1>3. httpRecvBuffers'[w][fd[c]] = D
  BY <1>2 DEF Ahead, Mine
<1> HIDE DEF A, N
<1>4. /\ B \in Seq(Bytes) /\ Len(B) = Len(N) - n /\ C \in Seq(Bytes) /\ Len(C) = n
      /\ \A k \in 1..(Len(N) - n) : B[k] = N[n + k]
      /\ \A k \in 1..n : C[k] = N[k]
  BY <1>1, <1>2, Cut
<1> HIDE DEF B, C
<1>5. /\ D \in Seq(Bytes) /\ Len(D) = Len(A) + n
      /\ \A k \in 1..Len(A) : D[k] = A[k]
      /\ \A k \in 1..n : D[Len(A) + k] = C[k]
  BY ZenonT(60), <1>1, <1>4, Joined
<1> HIDE DEF D
<1>6. /\ \A k \in 1..Len(B) : n + k \in 1..Len(N) /\ B[k] = N[n + k]
      /\ \A k \in 1..Len(D) : \/ k \in 1..Len(A) /\ D[k] = A[k]
                              \/ /\ k > Len(A) /\ k - Len(A) \in 1..n /\ k - Len(A) \in 1..Len(N)
                                 /\ D[k] = N[k - Len(A)]
  <2>1. ASSUME NEW k \in 1..Len(D), k \notin 1..Len(A)
        PROVE  /\ k > Len(A) /\ k - Len(A) \in 1..n /\ k - Len(A) \in 1..Len(N)
               /\ D[k] = N[k - Len(A)]
    <3>1. /\ k > Len(A) /\ k - Len(A) \in 1..n /\ k - Len(A) \in 1..Len(N)
          /\ Len(A) + (k - Len(A)) = k
      BY SMTT(60), <1>1, <1>2, <1>5, <2>1
    <3>2. D[Len(A) + (k - Len(A))] = N[k - Len(A)]
      BY <1>4, <1>5, <3>1
    <3> QED
      BY <3>1, <3>2
  <2>2. \A k \in 1..Len(B) : n + k \in 1..Len(N) /\ B[k] = N[n + k]
    BY <1>1, <1>2, <1>4
  <2> QED
    BY <1>5, <2>1, <2>2
<1>7. /\ \A k \in 1..Len(N) : N[k][1] = c
      /\ \A j, k \in 1..Len(N) : j < k => After(N[j], N[k])
  BY DEF Rest, NetInv, NetOf, N
<1>8. NetOf(c)'
  <2>1. ASSUME NEW j \in 1..Len(B), NEW k \in 1..Len(B), j < k
        PROVE  After(B[j], B[k])
    <3>1. n + j < n + k
      BY <1>2, <1>4, <2>1
    <3> QED
      BY SMTT(60), <1>6, <1>7, <3>1
  <2> QED
    BY <1>2, <1>6, <1>7, <2>1 DEF NetOf
<1>9. BufferOf(w, fd[c])'
  <2>1. BufferOf(w, fd[c]) /\ client[w] = c
    BY <1>1 DEF Rest, BufferInv, Mine
  <2>2. \A k \in 1..Len(D) : \/ client[w] = D[k][1] /\ fd[D[k][1]] = fd[c]
                             \/ D[k][1] \in broken /\ Spent(D[k])
    BY ZenonT(60), <1>1, <1>6, <1>7, <2>1 DEF BufferOf
  <2> QED
    BY <1>3, <2>2 DEF BufferOf, Mine
<1>10. ASSUME Pairs(w, c)
       PROVE  Pairs(w, c)'
  <2>1. /\ \A j, k \in 1..Len(A) : j < k /\ A[j][1] = c /\ A[k][1] = c => After(A[j], A[k])
        /\ \A j \in 1..Len(A), k \in 1..Len(N) : A[j][1] = c => After(A[j], N[k])
    BY <1>10 DEF Pairs, A, N
  <2>2. ASSUME NEW j \in 1..Len(D), NEW k \in 1..Len(D), j < k, D[j][1] = c, D[k][1] = c
        PROVE  After(D[j], D[k])
    <3>1. CASE k \in 1..Len(A)
      <4>1. j \in 1..Len(A) /\ D[j] = A[j] /\ D[k] = A[k]
        BY SMTT(60), <1>1, <1>5, <2>2, <3>1
      <4> QED
        BY <2>1, <2>2, <3>1, <4>1
    <3>2. CASE k \notin 1..Len(A) /\ j \in 1..Len(A)
      <4>1. D[j] = A[j]
        BY <1>5, <3>2
      <4>2. k - Len(A) \in 1..Len(N) /\ D[k] = N[k - Len(A)]
        BY <1>6, <3>2
      <4>3. A[j][1] = c => After(A[j], N[k - Len(A)])
        BY <2>1, <3>2, <4>2
      <4> QED
        BY <2>2, <4>1, <4>2, <4>3
    <3>3. CASE k \notin 1..Len(A) /\ j \notin 1..Len(A)
      <4>1. /\ k - Len(A) \in 1..Len(N) /\ D[k] = N[k - Len(A)]
            /\ j - Len(A) \in 1..Len(N) /\ D[j] = N[j - Len(A)]
        BY <1>6, <3>3
      <4>2. j - Len(A) < k - Len(A)
        BY <1>1, <1>5, <2>2
      <4> QED
        BY <1>7, <4>1, <4>2
    <3> QED
      BY <3>1, <3>2, <3>3
  <2>3. ASSUME NEW j \in 1..Len(D), NEW k \in 1..Len(B), D[j][1] = c
        PROVE  After(D[j], B[k])
    <3>1. n + k \in 1..Len(N) /\ B[k] = N[n + k]
      BY <1>6
    <3>2. CASE j \in 1..Len(A)
      BY <1>5, <2>1, <2>3, <3>1, <3>2
    <3>3. CASE j \notin 1..Len(A)
      <4>1. j - Len(A) \in 1..Len(N) /\ D[j] = N[j - Len(A)] /\ j - Len(A) \in 1..n
        BY <1>6, <3>3
      <4>2. j - Len(A) < n + k
        BY <1>2, <1>4, <4>1
      <4> QED
        BY <1>7, <3>1, <4>1, <4>2
    <3> QED
      BY <3>2, <3>3
  <2> QED
    BY <1>2, <2>2, <2>3 DEF Pairs
<1>11. AllSpent(w, c) => AllSpent(w, c)'
  <2> SUFFICES ASSUME AllSpent(w, c)
               PROVE  AllSpent(w, c)'
    OBVIOUS
  <2>1. /\ \A k \in 1..Len(A) : A[k][1] = c => Spent(A[k])
        /\ \A k \in 1..Len(N) : Spent(N[k])
    BY DEF AllSpent, A, N
  <2>2. /\ \A k \in 1..Len(D) : D[k][1] = c => Spent(D[k])
        /\ \A k \in 1..Len(B) : Spent(B[k])
    BY SMTT(60), <1>6, <2>1
  <2> QED
    BY <1>2, <2>2 DEF AllSpent
<1>12. ASSUME NEW t \in Seq(Bytes), Slices(w, c, t)
       PROVE  Slices(w, c, t)'
  <2>1. Slice(read[w], t, 0) /\ Slice(A, t, Len(read[w])) /\ Slice(N, t, Len(read[w]) + Len(A))
    BY <1>12 DEF Slices, A, N
  <2>2. Len(read[w]) + Len(A) \in Nat
    <3>1. Len(read[w]) \in Nat /\ Len(A) \in Nat
      BY <1>1
    <3> QED
      BY <3>1
  <2>3. Slice(C, t, Len(read[w]) + Len(A)) /\ Slice(B, t, Len(read[w]) + Len(A) + n)
    BY <1>1, <1>2, <2>1, <2>2, SliceCut DEF B, C
  <2>4. Slice(D, t, Len(read[w]))
    BY <1>1, <1>4, <2>1, <2>3, SliceJoined DEF D
  <2>5. Len(read[w]) + Len(D) = Len(read[w]) + Len(A) + n
    <3>1. Len(D) = Len(A) + n /\ n \in Nat
      BY <1>1, <1>2, <1>5
    <3>2. PICK i \in Nat, j \in Nat : i = Len(read[w]) /\ j = Len(A)
      BY <1>1
    <3>3. i + (j + n) = i + j + n
      BY <3>1
    <3> QED
      BY <3>1, <3>2, <3>3
  <2> QED
    BY <1>2, <2>1, <2>3, <2>4, <2>5 DEF Slices
<1> QED
  BY <1>2, <1>4, <1>5, <1>8, <1>9, <1>10, <1>11, <1>12 DEF BytesKept

\* n bytes are received and read at once.
Copied(w, c, n) ==
    /\ n \in 0..Len(net[c])
    /\ Ahead(w) = <<>> /\ Ahead(w)' = <<>>
    /\ net'[c] = SubSeq(net[c], n + 1, Len(net[c]))
    /\ read'[w] = read[w] \o SubSeq(net[c], 1, n)

LEMMA CopiedKeeps ==
    ASSUME TypeOK, Rest, NEW w \in Workers, NEW c \in Conns, Mine(w, c), NEW n, Copied(w, c, n)
    PROVE  /\ BytesKept(w, c)
           /\ read'[w] \in Seq(Bytes) /\ Len(read'[w]) = Len(read[w]) + n
           /\ net'[c] \in Seq(Bytes)
<1> DEFINE N == net[c]
           B == SubSeq(N, n + 1, Len(N))
           C == SubSeq(N, 1, n)
           D == read[w] \o C
<1>1. /\ fd[c] \in Fds /\ read[w] \in Seq(Bytes) /\ Len(read[w]) \in Nat
      /\ N \in Seq(Bytes) /\ Len(N) \in Nat
  BY ServedIs DEF Mine, Rest
<1>2. n \in 0..Len(N) /\ Ahead(w) = <<>> /\ Ahead(w)' = <<>> /\ read'[w] = D /\ net'[c] = B
  BY DEF Copied
<1>3. httpRecvBuffers'[w][fd[c]] = <<>>
  BY <1>2 DEF Ahead, Mine
<1> HIDE DEF N
<1>4. /\ B \in Seq(Bytes) /\ Len(B) = Len(N) - n /\ C \in Seq(Bytes) /\ Len(C) = n
      /\ \A k \in 1..(Len(N) - n) : B[k] = N[n + k]
  BY <1>1, <1>2, Cut
<1> HIDE DEF B, C
<1>5. \A k \in 1..Len(B) : n + k \in 1..Len(N) /\ B[k] = N[n + k]
  BY SMTT(60), <1>1, <1>2, <1>4
<1>6. D \in Seq(Bytes) /\ Len(D) = Len(read[w]) + n
  BY <1>1, <1>4, Joined
<1> HIDE DEF D
<1>7. /\ \A k \in 1..Len(N) : N[k][1] = c
      /\ \A j, k \in 1..Len(N) : j < k => After(N[j], N[k])
  BY DEF Rest, NetInv, NetOf, N
<1>8. NetOf(c)'
  <2>1. ASSUME NEW j \in 1..Len(B), NEW k \in 1..Len(B), j < k
        PROVE  After(B[j], B[k])
    <3>1. n + j < n + k
      BY <1>2, <1>4, <2>1
    <3> QED
      BY <1>5, <1>7, <3>1
  <2> QED
    BY <1>2, <1>5, <1>7, <2>1 DEF NetOf
<1>9. BufferOf(w, fd[c])'
  BY <1>3 DEF BufferOf, Mine
<1>10. Pairs(w, c)'
  BY <1>2 DEF Pairs
<1>11. AllSpent(w, c) => AllSpent(w, c)'
  BY <1>2, <1>5 DEF AllSpent, N
<1>12. ASSUME NEW t \in Seq(Bytes), Slices(w, c, t)
       PROVE  Slices(w, c, t)'
  <2>1. Slice(read[w], t, 0) /\ Slice(<<>>, t, Len(read[w])) /\ Slice(N, t, Len(read[w]) + 0)
    BY <1>2, <1>12 DEF Slices, N
  <2>2. Len(read[w]) + 0 = Len(read[w]) /\ 0 + Len(read[w]) = Len(read[w]) /\ 0 \in Nat
    BY <1>1
  <2>3. Slice(C, t, Len(read[w])) /\ Slice(B, t, Len(read[w]) + n)
    BY <1>1, <1>2, <2>1, <2>2, SliceCut DEF B, C
  <2>4. Slice(D, t, 0)
    BY <1>1, <1>4, <2>1, <2>2, <2>3, SliceJoined DEF D
  <2>5. Len(D) + 0 = Len(D) /\ Len(D) <= Len(t) /\ Len(D) \in 0..Len(t)
    <3>1. Len(t) \in Nat /\ Len(D) \in Nat
      BY <1>6
    <3> QED
      BY <2>4, <3>1 DEF Slice
  <2>6. Slice(<<>>, t, Len(D))
    BY <2>5, SliceNone
  <2>7. Slice(B, t, Len(D) + 0)
    BY <1>6, <2>3, <2>5
  <2> QED
    BY <1>2, <2>4, <2>6, <2>7 DEF Slices
<1> QED
  BY <1>2, <1>4, <1>6, <1>8, <1>9, <1>10, <1>11, <1>12 DEF BytesKept(***************************************************************************)
(* What a worker answers                                                   *)
(***************************************************************************)
\* SetAhead() changes one buffer.
LEMMA AheadSet ==
    ASSUME TypeOK, LinkInv, NEW w \in Workers, pc[w] # "idle", client'[w] = client[w], fd' = fd,
           NEW s \in Seq(Bytes), SetAhead(w, s)
    PROVE  /\ httpRecvBuffers' \in [Workers -> [Fds -> Seq(Bytes)]]
           /\ Ahead(w)' = s
           /\ \A v \in Workers \ {w} : httpRecvBuffers'[v] = httpRecvBuffers[v]
           /\ \A f \in Fds \ {fd[client[w]]} : httpRecvBuffers'[w][f] = httpRecvBuffers[w][f]
<1>1. fd[client[w]] \in Fds
  BY ServedIs
<1>2. httpRecvBuffers \in [Workers -> [Fds -> Seq(Bytes)]]
  BY DEF TypeOK
<1>3. httpRecvBuffers' = [httpRecvBuffers EXCEPT ![w][fd[client[w]]] = s]
  BY DEF SetAhead
<1>4. httpRecvBuffers'[w][fd[client[w]]] = s
  BY <1>1, <1>2, <1>3
<1> QED
  BY <1>1, <1>2, <1>3, <1>4 DEF Ahead

\* What a worker has read of a request begins its stream.
LEMMA Prefix ==
    ASSUME TypeOK, Rest, NEW w \in Workers, NEW c \in Conns, c = client[w],
           Serving(w), c \notin broken, ReadSoFar(w, c, Reached(c))
    PROVE  /\ Reached(c) \in 1..Len(Script[c]) /\ Reached(c) + 1 \in 1..(Len(Script[c]) + 1)
           /\ HeadBytes(c, Reached(c)) \in Seq(Bytes)
           /\ Len(HeadBytes(c, Reached(c))) = HeadLength(c, Reached(c))
           /\ RequestBytes(c, Reached(c)) \in Seq(Bytes)
           /\ StreamFrom(c)[Reached(c) + 1] \in Seq(Bytes)
           /\ StreamFrom(c)[Reached(c)] = RequestBytes(c, Reached(c)) \o StreamFrom(c)[Reached(c) + 1]
           /\ Slices(w, c, RequestBytes(c, Reached(c)) \o StreamFrom(c)[Reached(c) + 1])
<1>1. Framed(w, c)
  BY DEF Rest, FrameInv
<1>2. answered[c] \in Seq(Seq(Bytes))
  BY DEF TypeOK
<1>3. Len(answered[c]) \in Nat /\ Len(Script[c]) \in Nat
  BY <1>2, ScriptTyped
<1>4. Reached(c) \in 1..Len(Script[c]) /\ Reached(c) + 1 \in 1..(Len(Script[c]) + 1)
  BY SMTT(60), <1>3 DEF Reached, ReadSoFar
<1>5. StreamFrom(c)[Reached(c)] = RequestBytes(c, Reached(c)) \o StreamFrom(c)[Reached(c) + 1]
  BY <1>4, StreamDefined
<1> QED
  BY SMTT(60), <1>1, <1>4, <1>5, HeadIs, RequestIs, StreamTyped DEF Framed

\* A worker that has read a head has read nothing else.
LEMMA HeadRead ==
    ASSUME TypeOK, Rest, NEW w \in Workers, NEW c \in Conns, c = client[w],
           pc[w] = "request", c \notin broken
    PROVE  /\ ReadSoFar(w, c, Reached(c))
           /\ read[w] = HeadBytes(c, Reached(c)) /\ Whole(read[w])
<1>1. Serving(w) /\ pc[w] # "idle"
  BY DEF Serving
<1>2. Framed(w, c)
  BY <1>1 DEF Rest, FrameInv
<1>3. ReadSoFar(w, c, Reached(c))
  BY <1>2 DEF Framed
<1>4. PICK r, rest : r = Reached(c) /\ rest = StreamFrom(c)[Reached(c) + 1]
  OBVIOUS
<1>5. /\ r \in 1..Len(Script[c]) /\ HeadBytes(c, r) \in Seq(Bytes) /\ rest \in Seq(Bytes)
      /\ Len(HeadBytes(c, r)) = HeadLength(c, r) /\ HeadLength(c, r) \in Nat
      /\ Slices(w, c, RequestBytes(c, r) \o rest) /\ RequestBytes(c, r) \in Seq(Bytes)
  BY <1>1, <1>3, <1>4, Prefix, HeadIs
<1>6. Len(read[w]) = HeadLength(c, r) /\ read[w] \in Seq(Bytes)
  BY <1>1, <1>3, <1>4, ServedIs DEF ReadSoFar, Rest
<1> DEFINE H == HeadBytes(c, r)
           B == Piece(c, r, "body", Script[c][r].body)
           R == RequestBytes(c, r)
<1>7. B \in Seq(Bytes) /\ R = H \o B
  BY <1>5, ScriptTyped, PieceIs DEF RequestBytes, PieceKinds
<1>8. H \in Seq(Bytes) /\ R \in Seq(Bytes) /\ Len(H) = Len(read[w]) /\ Len(H) \in Nat
  BY <1>5, <1>6
<1> HIDE DEF H, B, R
<1>9. Slice(read[w], R \o rest, 0)
  BY <1>5 DEF Slices, R
<1>10. read[w] = H
  <2>1. Len(R) = Len(H) + Len(B) /\ \A k \in 1..Len(H) : R[k] = H[k]
    BY ZenonT(60), <1>7, <1>8, Joined
  <2>2. Len(B) \in Nat
    BY <1>7
  <2>3. \A k \in 1..Len(H) : read[w][k] = (R \o rest)[k]
    BY <1>8, <1>9 DEF Slice
  <2>4. \A k \in 1..Len(H) : k \in 1..Len(R) /\ (R \o rest)[k] = R[k]
    BY SMTT(60), <1>5, <1>8, <2>1, <2>2, Joined
  <2>5. \A k \in 1..Len(H) : read[w][k] = H[k]
    BY <2>1, <2>3, <2>4
  <2> QED
    BY <1>6, <1>8, <2>5
<1> QED
  BY <1>3, <1>4, <1>5, <1>10 DEF Whole, H

\* A worker that has counted a whole request has read that, and has read ahead
\* what follows.
LEMMA RequestRead ==
    ASSUME TypeOK, Rest, NEW w \in Workers, NEW c \in Conns, c = client[w],
           Serving(w), c \notin broken, ReadSoFar(w, c, Reached(c)),
           Len(read[w]) = HeadLength(c, Reached(c)) + Script[c][Reached(c)].body
    PROVE  /\ read[w] = RequestBytes(c, Reached(c))
           /\ Slice(Ahead(w), StreamFrom(c)[Reached(c) + 1], 0)
           /\ Slice(net[c], StreamFrom(c)[Reached(c) + 1], Len(Ahead(w)))
<1>1. pc[w] # "idle"
  BY DEF Serving
<1>2. PICK r, rest, R : r = Reached(c) /\ rest = StreamFrom(c)[Reached(c) + 1] /\ R = RequestBytes(c, r)
  OBVIOUS
<1>3. /\ r \in 1..Len(Script[c]) /\ rest \in Seq(Bytes) /\ R \in Seq(Bytes)
      /\ Slices(w, c, R \o rest)
  BY <1>2, Prefix
<1>4. Len(R) = Len(read[w]) /\ Len(R) \in Nat
  BY SMTT(60), <1>2, <1>3, RequestIs
<1>5. /\ read[w] \in Seq(Bytes) /\ Ahead(w) \in Seq(Bytes) /\ net[c] \in Seq(Bytes)
      /\ Len(Ahead(w)) \in Nat
  BY <1>1, ServedIs DEF Rest
<1>6. /\ Slice(read[w], R \o rest, 0) /\ Slice(Ahead(w), R \o rest, Len(R))
      /\ Slice(net[c], R \o rest, Len(R) + Len(Ahead(w)))
  BY <1>3, <1>4 DEF Slices
<1>7. read[w] = R
  BY <1>3, <1>4, <1>5, <1>6, SliceWhole
<1>8. Slice(Ahead(w), rest, 0)
  <2>1. Len(R) + 0 = Len(R) /\ 0 \in Nat
    BY <1>4
  <2> QED
    BY <1>3, <1>5, <1>6, <2>1, SliceSecond
<1>9. Slice(net[c], rest, Len(Ahead(w)))
  BY <1>3, <1>5, <1>6, SliceSecond
<1> QED
  BY <1>2, <1>7, <1>8, <1>9

\* An answer from a head or from a request, after answers from requests.
LEMMA AnswerKeeps ==
    ASSUME TypeOK, NEW c \in Conns, AllWhole(c), NEW s \in Seq(Bytes),
           s \in {HeadBytes(c, Reached(c)), RequestBytes(c, Reached(c))},
           answered'[c] = Append(answered[c], s)
    PROVE  /\ FramingOf(c)'
           /\ Reached(c)' = Reached(c) + 1
           /\ s = RequestBytes(c, Reached(c)) => AllWhole(c)'
<1>1. answered[c] \in Seq(Seq(Bytes))
  BY DEF TypeOK
<1>2. PICK n \in Nat : n = Len(answered[c])
  BY <1>1
<1>3. /\ Len(answered'[c]) = n + 1 /\ answered'[c][n + 1] = s
      /\ \A k \in 1..n : answered'[c][k] = answered[c][k]
  BY <1>1, <1>2
<1>4. Reached(c) = n + 1 /\ \A k \in 1..n : answered'[c][k] = RequestBytes(c, k)
  BY <1>2, <1>3 DEF Reached, AllWhole
<1>5. \A k \in 1..(n + 1) : k \in 1..n \/ k = n + 1
  OBVIOUS
<1>6. FramingOf(c)'
  BY <1>3, <1>4, <1>5 DEF FramingOf
<1>7. s = RequestBytes(c, Reached(c)) => AllWhole(c)'
  BY <1>3, <1>4, <1>5 DEF AllWhole
<1>8. Reached(c)' = Reached(c) + 1
  BY <1>3, <1>4 DEF Reached
<1> QED
  BY <1>6, <1>7, <1>8(***************************************************************************)
(* The steps of a worker                                                   *)
(***************************************************************************)
\* The order of the bytes is that of the bytes' step, when the request stays or
\* is none.
LEMMA OrderKept ==
    ASSUME Rest, NEW w \in Workers, NEW c \in Conns, c = client[w], Serving(w), BytesKept(w, c),
           request'[w].kind = "upgrade" => request[w].kind = "upgrade"
    PROVE  OrderOf(w, c)'
<1>1. OrderOf(w, c)
  BY DEF Rest, OrderInv
<1> QED
  BY <1>1 DEF OrderOf, BytesKept

\* A step that leaves the bytes where they are.
LEMMA SameBytes ==
    ASSUME Rest, NEW w \in Workers, NEW c \in Conns, c = client[w], c \in Conns, fd[c] \in Fds,
           UNCHANGED <<net, httpRecvBuffers, client, fd, read>>, broken \subseteq broken'
    PROVE  BytesKept(w, c) /\ Ahead(w)' = Ahead(w)
<1>1. Ahead(w)' = Ahead(w) /\ net'[c] = net[c] /\ read'[w] = read[w]
  BY DEF Ahead
<1>2. NetOf(c)'
  BY DEF Rest, NetInv, NetOf
<1>3. BufferOf(w, fd[c])'
  BY DEF Rest, BufferInv, BufferOf
<1> QED
  BY <1>1, <1>2, <1>3 DEF BytesKept, Pairs, AllSpent, Slices

\* The framing is kept with the bytes, when what was read is still counted.
LEMMA FrameKept ==
    ASSUME TypeOK, Rest, NEW w \in Workers, NEW c \in Conns, c = client[w], Serving(w),
           c \notin broken, BytesKept(w, c), answered'[c] = answered[c]
    PROVE  /\ FramingOf(c)' /\ Reached(c)' = Reached(c)
           /\ ReadSoFar(w, c, Reached(c))' \/ (pc'[w] = "line" /\ read'[w] = <<>>) => Framed(w, c)'
<1>1. Framed(w, c) /\ FramingOf(c)
  BY DEF Rest, FrameInv
<1>2. FramingOf(c)' /\ AllWhole(c)' /\ Reached(c)' = Reached(c)
  BY <1>1 DEF FramingOf, Framed, AllWhole, Reached
<1>3. PICK t : t = StreamFrom(c)[Reached(c)]
  OBVIOUS
<1>4. t \in Seq(Bytes) /\ Reached(c) <= Len(Script[c]) + 1
  <2>1. answered[c] \in Seq(Seq(Bytes))
    BY DEF TypeOK
  <2>2. Len(Script[c]) \in Nat /\ Len(answered[c]) \in Nat
    BY <2>1, ScriptTyped
  <2>3. Reached(c) \in 1..(Len(Script[c]) + 1)
    BY <1>1, <2>2 DEF Framed, Reached
  <2> QED
    BY <1>3, <2>3, StreamTyped
<1>5. Slices(w, c, t)'
  BY <1>1, <1>3, <1>4 DEF Framed, BytesKept
<1>6. t = StreamFrom(c)[Reached(c)']
  BY <1>2, <1>3
<1> QED
  BY <1>2, <1>4, <1>5, <1>6 DEF Framed

LEMMA ReceiveKeeps ==
    ASSUME IInv, NEW w \in Workers, Receive(w)
    PROVE  IInv'
<1>1. pc[w] = "line" /\ UNCHANGED <<connVars, localVars, pc, exiting, historyVars>>
  BY DEF Receive, At
<1>0. PICK c \in Conns : c = client[w]
  BY <1>1, ServedIs DEF IInv, Rest
<1>2. /\ TypeOK /\ Rest /\ LinkInv /\ c = client[w] /\ fd[c] \in Fds
      /\ Ahead(w) \in Seq(Bytes) /\ net[c] \in Seq(Bytes) /\ Len(net[c]) \in Nat
  BY <1>1, <1>0, ServedIs DEF IInv, Rest
<1>3. PICK n \in 1..Lesser(ChunkMax, Len(net[c])) :
        /\ SetAhead(w, Ahead(w) \o SubSeq(net[c], 1, n))
        /\ net' = [net EXCEPT ![c] = SubSeq(net[c], n + 1, Len(net[c]))]
  BY <1>0 DEF Receive
<1>4. n \in 0..Len(net[c])
  <2>1. ChunkMax \in Nat
    BY RequestAssumption
  <2> QED
    BY <1>2, <1>3, <2>1 DEF Lesser
<1>5. Ahead(w) \o SubSeq(net[c], 1, n) \in Seq(Bytes) /\ SubSeq(net[c], n + 1, Len(net[c])) \in Seq(Bytes)
  BY <1>2, <1>4, Cut, Joined
<1>6. /\ httpRecvBuffers' \in [Workers -> [Fds -> Seq(Bytes)]]
      /\ Ahead(w)' = Ahead(w) \o SubSeq(net[c], 1, n)
      /\ \A v \in Workers \ {w} : httpRecvBuffers'[v] = httpRecvBuffers[v]
      /\ \A f \in Fds \ {fd[c]} : httpRecvBuffers'[w][f] = httpRecvBuffers[w][f]
  BY <1>1, <1>2, <1>3, <1>5, AheadSet DEF connVars, localVars
<1>7. /\ net' \in [Conns -> Seq(Bytes)] /\ net'[c] = SubSeq(net[c], n + 1, Len(net[c]))
      /\ \A d \in Conns \ {c} : net'[d] = net[d]
  BY <1>2, <1>3, <1>5 DEF TypeOK
<1>8. TypeOK'
  BY <1>1, <1>2, <1>6, <1>7 DEF TypeOK, connVars, localVars, bodyVars, historyVars
<1>9. Mine(w, c)
  BY <1>1, <1>2, <1>6, <1>7 DEF Mine, connVars, localVars, bodyVars, historyVars
<1>10. Arrived(w, c, n)
  BY <1>1, <1>4, <1>6, <1>7 DEF Arrived, localVars
<1>11. BytesKept(w, c)
  BY <1>2, <1>9, <1>10, ArrivedKeeps
<1>12. Kept(w, c)
  <2>1. CountOf(w)'
    BY <1>1, <1>2 DEF Rest, CountInv, CountOf, localVars, bodyVars, Serving
  <2>2. OrderOf(w, c)'
    BY <1>1, <1>2, <1>11, OrderKept DEF localVars, Serving
  <2>3. ASSUME c \notin broken'
        PROVE  Framed(w, c)' /\ FramingOf(c)'
    <3>1. c \notin broken /\ Serving(w) /\ c = client[w] /\ answered'[c] = answered[c]
      BY <1>1, <1>2, <2>3 DEF Serving, historyVars
    <3>2. /\ FramingOf(c)' /\ Reached(c)' = Reached(c)
          /\ ReadSoFar(w, c, Reached(c))' \/ (pc'[w] = "line" /\ read'[w] = <<>>) => Framed(w, c)'
      BY <1>2, <1>11, <3>1, FrameKept
    <3>3. ReadSoFar(w, c, Reached(c)) \/ (pc[w] = "line" /\ read[w] = <<>>)
      BY <1>2, <3>1 DEF Rest, FrameInv, Framed
    <3>4. ReadSoFar(w, c, Reached(c))' \/ (pc'[w] = "line" /\ read'[w] = <<>>)
      BY <1>1, <3>2, <3>3 DEF ReadSoFar, localVars, bodyVars
    <3> QED
      BY <3>2, <3>4
  <2> QED
    BY <1>11, <2>1, <2>2, <2>3 DEF Kept, BytesKept
<1> QED
  BY <1>2, <1>8, <1>9, <1>12, OthersKept DEF IInv
\* A step that ends a request, or everything, on the connection c of w.
Ends(w, c) ==
    /\ c = client[w] /\ pc[w] \in {"request", "body", "page"} /\ copied[w] = 0
    /\ UNCHANGED <<connVars, ioVars, client, bodyVars, exiting>>
    /\ nbFileKeepAlive' \in [Workers -> 0..KeepAliveMax]
    /\ \A v \in Workers \ {w} : nbFileKeepAlive'[v] = nbFileKeepAlive[v]
    /\ answered' \in [Conns -> Seq(Seq(Bytes))]
    /\ \A d \in Conns \ {c} : answered'[d] = answered[d]
    /\ broken' \in {broken, broken \cup {c}}
    /\ c \notin broken' => FramingOf(c)'

LEMMA FreedKeeps ==
    ASSUME IInv, NEW w \in Workers, NEW c \in Conns, Ends(w, c),
           Goto(w, "free"), UNCHANGED <<read, request>>
    PROVE  IInv'
<1>1. /\ TypeOK /\ Rest /\ c = client[w] /\ fd[c] \in Fds /\ pc[w] # "idle"
  BY ServedIs DEF IInv, Rest, Ends
<1>2. /\ pc' \in [Workers -> PCs] /\ pc'[w] = "free"
      /\ \A v \in Workers \ {w} : pc'[v] = pc[v]
  BY <1>1 DEF TypeOK, Goto, PCs
<1>3. ~Serving(w)'
  BY <1>2 DEF Serving
<1>4. broken \subseteq broken' /\ broken' \subseteq Conns
  BY <1>1 DEF Ends, TypeOK
<1>5. TypeOK'
  BY <1>1, <1>2, <1>4 DEF TypeOK, Ends, connVars, ioVars, bodyVars
<1>6. Mine(w, c)
  BY <1>1, <1>2, <1>4 DEF Mine, Ends, connVars, ioVars, bodyVars
<1>7. BytesKept(w, c)
  BY <1>1, <1>4, SameBytes DEF Ends, connVars, ioVars
<1>8. CountOf(w)'
  BY <1>1, <1>2, <1>3 DEF CountOf, Ends, bodyVars, Rest, CountInv
<1>9. Kept(w, c)
  BY <1>3, <1>7, <1>8 DEF Kept, BytesKept, Ends
<1> QED
  BY <1>1, <1>5, <1>6, <1>9, OthersKept DEF IInv

LEMMA AwaitKeeps ==
    ASSUME IInv, NEW w \in Workers, NEW c \in Conns, Ends(w, c), Await(w), nbFileKeepAlive'[w] > 0,
           c \notin broken' =>
             /\ Reached(c)' <= Len(Script[c]) + 1 /\ AllWhole(c)'
             /\ Reached(c)' \in 1..(Len(Script[c]) + 1)
             /\ Slice(Ahead(w), StreamFrom(c)[Reached(c)'], 0)
             /\ Slice(net[c], StreamFrom(c)[Reached(c)'], Len(Ahead(w)))
    PROVE  IInv'
<1>1. /\ TypeOK /\ Rest /\ c = client[w] /\ fd[c] \in Fds /\ pc[w] # "idle"
      /\ Len(Ahead(w)) \in Nat
  BY ServedIs DEF IInv, Rest, Ends
<1>2. /\ pc' \in [Workers -> PCs] /\ pc'[w] = "line"
      /\ \A v \in Workers \ {w} : pc'[v] = pc[v]
  BY <1>1 DEF TypeOK, Goto, PCs, Await
<1>3. /\ read' \in [Workers -> Seq(Bytes)] /\ read'[w] = <<>>
      /\ \A v \in Workers \ {w} : read'[v] = read[v]
  BY <1>1 DEF TypeOK, Await
<1>4. /\ request' \in [Workers -> Requests \cup {NoRequest}] /\ request'[w] = NoRequest
      /\ \A v \in Workers \ {w} : request'[v] = request[v]
  BY <1>1 DEF TypeOK, Await
<1>5. broken \subseteq broken' /\ broken' \subseteq Conns
  BY <1>1 DEF Ends, TypeOK
<1>6. TypeOK'
  BY <1>1, <1>2, <1>3, <1>4, <1>5 DEF TypeOK, Ends, connVars, ioVars, bodyVars
<1>7. Mine(w, c)
  BY <1>1, <1>2, <1>3, <1>4, <1>5 DEF Mine, Ends, connVars, ioVars, bodyVars
<1>8. net' = net /\ httpRecvBuffers' = httpRecvBuffers /\ Ahead(w)' = Ahead(w) /\ fd' = fd /\ client' = client
  BY DEF Ends, connVars, ioVars, Ahead
<1>9. NetOf(c)' /\ BufferOf(w, fd[c])'
  BY SMTT(60), <1>1, <1>5, <1>8 DEF Rest, NetInv, NetOf, BufferInv, BufferOf
<1>10. OrderOf(w, c)'
  <2>1. Serving(w) /\ request'[w].kind = "none"
    BY <1>4 DEF Ends, Serving, NoRequest
  <2>2. Pairs(w, c)
    BY <1>1, <2>1 DEF Rest, OrderInv, OrderOf
  <2> QED
    BY <1>8, <2>1, <2>2 DEF OrderOf, Pairs
<1>11. CountOf(w)'
  BY <1>1, <1>2 DEF CountOf, Ends, bodyVars, Rest, CountInv, Serving
<1>12. ASSUME c \notin broken'
       PROVE  Framed(w, c)'
  <2>1. PICK r, t : r = Reached(c)' /\ t = StreamFrom(c)[r]
    OBVIOUS
  <2>2. /\ r <= Len(Script[c]) + 1 /\ AllWhole(c)' /\ r \in 1..(Len(Script[c]) + 1)
        /\ Slice(Ahead(w), t, 0) /\ Slice(net[c], t, Len(Ahead(w)))
    BY <1>12, <2>1
  <2>3. t \in Seq(Bytes)
    BY <2>1, <2>2, StreamTyped
  <2>4. Slice(<<>>, t, 0)
    <3>1. 0 \in 0..Len(t)
      BY <2>3
    <3> QED
      BY <2>3, <3>1, SliceNone
  <2>5. Slices(w, c, t)'
    <3>1. Len(<<>>) = 0 /\ 0 + Len(Ahead(w)) = Len(Ahead(w))
      BY <1>1
    <3> QED
      BY <1>3, <1>8, <2>2, <2>4, <3>1 DEF Slices
  <2> QED
    BY <1>2, <1>3, <2>1, <2>2, <2>5 DEF Framed
<1>13. Kept(w, c)
  BY <1>9, <1>10, <1>11, <1>12 DEF Kept, Ends
<1> QED
  BY <1>1, <1>6, <1>7, <1>13, OthersKept DEF IInv
LEMMA Answering ==
    ASSUME TypeOK, NEW w \in Workers, NEW c \in Conns, c = client[w], Answer(w)
    PROVE  /\ answered' \in [Conns -> Seq(Seq(Bytes))]
           /\ answered'[c] = Append(answered[c], read[w])
           /\ \A d \in Conns \ {c} : answered'[d] = answered[d]
<1>1. answered \in [Conns -> Seq(Seq(Bytes))] /\ read[w] \in Seq(Bytes)
  BY DEF TypeOK
<1>2. answered' = [answered EXCEPT ![c] = Append(answered[c], read[w])]
  BY DEF Answer
<1>3. Append(answered[c], read[w]) \in Seq(Seq(Bytes))
  BY <1>1
<1> QED
  BY <1>1, <1>2, <1>3

\* What a request begun says of the answers before it.
LEMMA AnswersWhole ==
    ASSUME TypeOK, Rest, NEW w \in Workers, NEW c \in Conns, c = client[w], Serving(w), c \notin broken
    PROVE  AllWhole(c) /\ FramingOf(c)
BY DEF Rest, FrameInv, Framed

\* An answer to a whole request, and the next one.
LEMMA NextKeeps ==
    ASSUME IInv, NEW w \in Workers, NEW c \in Conns, c = client[w], pc[w] \in {"request", "page"},
           NEW keep, Answer(w), NextRequest(w, keep),
           UNCHANGED <<connVars, net, client, bodyVars, exiting>>,
           broken' \in {broken, broken \cup {c}},
           c \notin broken' =>
               /\ ReadSoFar(w, c, Reached(c))
               /\ Len(read[w]) = HeadLength(c, Reached(c)) + Script[c][Reached(c)].body
    PROVE  IInv'
<1>1. TypeOK /\ Rest /\ Serving(w) /\ nbFileKeepAlive[w] \in 1..KeepAliveMax /\ copied[w] = 0
  BY SMTT(60), RequestAssumption DEF IInv, Rest, CountInv, CountOf, Serving, TypeOK
<1>2. nbFileKeepAlive' = [nbFileKeepAlive EXCEPT ![w] = IF keep THEN @ - 1 ELSE @]
  BY DEF NextRequest
<1>3. /\ nbFileKeepAlive' \in [Workers -> 0..KeepAliveMax]
      /\ \A v \in Workers \ {w} : nbFileKeepAlive'[v] = nbFileKeepAlive[v]
      /\ nbFileKeepAlive'[w] = IF keep THEN nbFileKeepAlive[w] - 1 ELSE nbFileKeepAlive[w]
  <2>1. nbFileKeepAlive \in [Workers -> 0..KeepAliveMax] /\ KeepAliveMax \in Nat
    BY <1>1, RequestAssumption DEF TypeOK
  <2>2. (IF keep THEN nbFileKeepAlive[w] - 1 ELSE nbFileKeepAlive[w]) \in 0..KeepAliveMax
    BY <1>1, <2>1
  <2> QED
    BY <1>2, <2>1, <2>2
<1>4. /\ answered' \in [Conns -> Seq(Seq(Bytes))]
      /\ answered'[c] = Append(answered[c], read[w])
      /\ \A d \in Conns \ {c} : answered'[d] = answered[d]
  BY <1>1, Answering
<1>5. PICK r : r = Reached(c)
  OBVIOUS
<1>6. ASSUME c \notin broken'
      PROVE  /\ r \in 1..Len(Script[c]) /\ Len(Script[c]) \in Nat
             /\ FramingOf(c)' /\ Reached(c)' = r + 1 /\ AllWhole(c)'
             /\ Slice(Ahead(w), StreamFrom(c)[r + 1], 0)
             /\ Slice(net[c], StreamFrom(c)[r + 1], Len(Ahead(w)))
  <2>1. c \notin broken /\ ReadSoFar(w, c, r)
    BY <1>5, <1>6
  <2>2. /\ read[w] = RequestBytes(c, r)
        /\ Slice(Ahead(w), StreamFrom(c)[r + 1], 0)
        /\ Slice(net[c], StreamFrom(c)[r + 1], Len(Ahead(w)))
    BY <1>1, <1>5, <1>6, <2>1, RequestRead
  <2>3. r \in 1..Len(Script[c]) /\ Len(Script[c]) \in Nat
    BY <1>1, <1>5, <2>1, Prefix, ScriptTyped
  <2>4. AllWhole(c) /\ read[w] \in Seq(Bytes)
    BY <1>1, <2>1, AnswersWhole DEF TypeOK
  <2>5. read[w] = RequestBytes(c, Reached(c)) /\ read[w] \in {HeadBytes(c, Reached(c)), RequestBytes(c, Reached(c))}
    BY <1>5, <2>2
  <2>6. FramingOf(c)' /\ Reached(c)' = Reached(c) + 1 /\ AllWhole(c)'
    BY <1>1, <1>4, <2>4, <2>5, AnswerKeeps
  <2> QED
    BY <1>5, <2>2, <2>3, <2>6
<1>7. Ends(w, c)
  BY SMTT(60), <1>1, <1>3, <1>4, <1>6 DEF Ends, NextRequest, ioVars
<1>8. CASE keep /\ nbFileKeepAlive[w] > 1 /\ ~exiting
  <2>1. Await(w) /\ nbFileKeepAlive'[w] > 0
    BY <1>1, <1>3, <1>8 DEF NextRequest
  <2>2. c \notin broken' =>
             /\ Reached(c)' <= Len(Script[c]) + 1 /\ AllWhole(c)'
             /\ Reached(c)' \in 1..(Len(Script[c]) + 1)
             /\ Slice(Ahead(w), StreamFrom(c)[Reached(c)'], 0)
             /\ Slice(net[c], StreamFrom(c)[Reached(c)'], Len(Ahead(w)))
    <3> SUFFICES ASSUME c \notin broken'
                 PROVE  /\ Reached(c)' <= Len(Script[c]) + 1 /\ AllWhole(c)'
                        /\ Reached(c)' \in 1..(Len(Script[c]) + 1)
                        /\ Slice(Ahead(w), StreamFrom(c)[Reached(c)'], 0)
                        /\ Slice(net[c], StreamFrom(c)[Reached(c)'], Len(Ahead(w)))
      OBVIOUS
    <3>1. r + 1 <= Len(Script[c]) + 1 /\ r + 1 \in 1..(Len(Script[c]) + 1)
      BY <1>6
    <3> QED
      BY <1>6, <3>1
  <2> QED
    BY <1>7, <2>1, <2>2, AwaitKeeps
<1>9. CASE ~(keep /\ nbFileKeepAlive[w] > 1 /\ ~exiting)
  <2>1. Goto(w, "free") /\ UNCHANGED <<read, request>>
    BY <1>9 DEF NextRequest
  <2> QED
    BY <1>7, <2>1, FreedKeeps
<1> QED
  BY <1>8, <1>9

\* An answer from a head or a whole request, and the end.
LEMMA LastKeeps ==
    ASSUME IInv, NEW w \in Workers, NEW c \in Conns, c = client[w], pc[w] \in {"request", "page"},
           Answer(w), GiveUp(w),
           UNCHANGED <<connVars, net, client, bodyVars, exiting>>,
           broken' \in {broken, broken \cup {c}}
    PROVE  IInv'
<1>1. TypeOK /\ Rest /\ Serving(w) /\ copied[w] = 0
  BY DEF IInv, Rest, CountInv, CountOf, Serving
<1>2. /\ answered' \in [Conns -> Seq(Seq(Bytes))]
      /\ answered'[c] = Append(answered[c], read[w])
      /\ \A d \in Conns \ {c} : answered'[d] = answered[d]
  BY <1>1, Answering
<1>3. ASSUME c \notin broken'
      PROVE  FramingOf(c)'
  <2>1. c \notin broken /\ AllWhole(c) /\ read[w] \in Seq(Bytes)
    BY <1>1, <1>3, AnswersWhole DEF TypeOK
  <2>2. read[w] \in {HeadBytes(c, Reached(c)), RequestBytes(c, Reached(c))}
    <3>1. CASE pc[w] = "request"
      BY <1>1, <2>1, <3>1, HeadRead
    <3>2. CASE pc[w] = "page"
      <4>1. /\ ReadSoFar(w, c, Reached(c))
            /\ Len(read[w]) = HeadLength(c, Reached(c)) + Script[c][Reached(c)].body
        BY <1>1, <2>1, <3>2 DEF Rest, FrameInv, Framed, ReadSoFar
      <4> QED
        BY <1>1, <2>1, <4>1, RequestRead
    <3> QED
      BY <3>1, <3>2
  <2> QED
    BY <1>1, <1>2, <2>1, <2>2, AnswerKeeps
<1>4. Ends(w, c) /\ Goto(w, "free") /\ UNCHANGED <<read, request>>
  BY <1>1, <1>2, <1>3 DEF Ends, GiveUp, ioVars, TypeOK
<1> QED
  BY <1>4, FreedKeeps

\* The end without an answer.
LEMMA LeaveKeeps ==
    ASSUME IInv, NEW w \in Workers, NEW c \in Conns, c = client[w], pc[w] \in {"request", "body", "page"},
           copied[w] = 0, GiveUp(w), answered' = answered,
           UNCHANGED <<connVars, net, client, bodyVars, exiting>>,
           broken' \in {broken, broken \cup {c}}
    PROVE  IInv'
<1>1. TypeOK /\ Rest
  BY DEF IInv
<1>2. c \notin broken' => FramingOf(c)'
  BY <1>1 DEF Rest, FrameInv, FramingOf
<1>3. Ends(w, c) /\ Goto(w, "free") /\ UNCHANGED <<read, request>>
  BY <1>1, <1>2 DEF Ends, GiveUp, ioVars, TypeOK
<1> QED
  BY <1>3, FreedKeeps

LEMMA ServedAt ==
    ASSUME IInv, NEW w \in Workers, pc[w] # "idle"
    PROVE  \E c \in Conns : c = client[w]
BY ServedIs DEF IInv, Rest

LEMMA RejectKeeps ==
    ASSUME IInv, NEW w \in Workers, Reject(w)
    PROVE  IInv'
<1>1. pc[w] = "request" /\ Answer(w) /\ GiveUp(w)
  BY DEF Reject, At
<1>2. PICK c \in Conns : c = client[w]
  BY <1>1, ServedAt
<1> QED
  BY <1>1, <1>2, LastKeeps DEF Reject

LEMMA BodyFailsKeeps ==
    ASSUME IInv, NEW w \in Workers, BodyFails(w)
    PROVE  IInv'
<1>1. pc[w] = "body" /\ copied[w] = 0 /\ GiveUp(w)
  BY DEF BodyFails, At
<1>2. PICK c \in Conns : c = client[w]
  BY <1>1, ServedAt
<1> QED
  BY <1>1, <1>2, LeaveKeeps DEF BodyFails, historyVars

LEMMA PlaintextKeeps ==
    ASSUME IInv, NEW w \in Workers, Plaintext(w)
    PROVE  IInv'
<1>1. /\ pc[w] = "request" /\ UNCHANGED <<connVars, net, client, bodyVars, exiting>>
      /\ TypeOK /\ Rest /\ Serving(w) /\ copied[w] = 0
  BY DEF Plaintext, At, IInv, Rest, CountInv, CountOf, Serving
<1>2. PICK c \in Conns : c = client[w]
  BY <1>1, ServedAt
<1>3. broken' \in {broken, broken \cup {c}}
  BY <1>2 DEF Plaintext
<1>4. PICK r \in Understood(w) : (Answer(w) /\ NextRequest(w, r.keepAlive)) \/ (GiveUp(w) /\ answered' = answered)
  BY DEF Plaintext
<1>5. CASE GiveUp(w) /\ answered' = answered
  BY <1>1, <1>2, <1>3, <1>5, LeaveKeeps
<1>6. CASE Answer(w) /\ NextRequest(w, r.keepAlive)
  <2>1. ASSUME c \notin broken'
        PROVE  /\ ReadSoFar(w, c, Reached(c))
               /\ Len(read[w]) = HeadLength(c, Reached(c)) + Script[c][Reached(c)].body
    <3>1. c \notin broken /\ request[w].body = 0
      BY <1>2, <2>1 DEF Plaintext
    <3>2. ReadSoFar(w, c, Reached(c))
      BY <1>1, <1>2, <3>1, HeadRead
    <3>3. PICK q : q = Reached(c)
      OBVIOUS
    <3>4. q \in 1..Len(Script[c]) /\ HeadLength(c, q) \in Nat
      BY <1>1, <1>2, <3>1, <3>2, <3>3, Prefix, HeadIs
    <3>5. Len(read[w]) = HeadLength(c, q) /\ Script[c][q].body = 0
      BY <1>1, <3>1, <3>2, <3>3 DEF ReadSoFar
    <3> QED
      BY <3>2, <3>3, <3>4, <3>5
  <2> QED
    BY <1>1, <1>2, <1>3, <1>6, <2>1, NextKeeps
<1> QED
  BY <1>4, <1>5, <1>6

LEMMA PageKeeps ==
    ASSUME IInv, NEW w \in Workers, Page(w)
    PROVE  IInv'
<1>1. /\ pc[w] = "page" /\ UNCHANGED <<connVars, net, client, bodyVars, exiting, broken>>
      /\ TypeOK /\ Rest /\ Serving(w) /\ Answer(w)
  BY DEF Page, At, IInv, Serving
<1>2. PICK c \in Conns : c = client[w]
  BY <1>1, ServedAt
<1>3. CASE GiveUp(w)
  BY <1>1, <1>2, <1>3, LastKeeps
<1>4. CASE NextRequest(w, request[w].keepAlive)
  <2>1. c \notin broken' => /\ ReadSoFar(w, c, Reached(c))
                            /\ Len(read[w]) = HeadLength(c, Reached(c)) + Script[c][Reached(c)].body
    BY <1>1, <1>2 DEF Rest, FrameInv, Framed, ReadSoFar
  <2> QED
    BY <1>1, <1>2, <1>4, <2>1, NextKeeps
<1> QED
  BY <1>3, <1>4 DEF Page
LEMMA StartBodyKeeps ==
    ASSUME IInv, NEW w \in Workers, StartBody(w)
    PROVE  IInv'
<1>1. /\ pc[w] = "request" /\ TypeOK /\ Rest /\ Serving(w) /\ copied[w] = 0
      /\ UNCHANGED <<connVars, ioVars, client, read, copied, nbFileKeepAlive, exiting, historyVars>>
  BY DEF StartBody, At, IInv, Serving, Rest, CountInv, CountOf
<1>2. PICK c \in Conns : c = client[w]
  BY <1>1, ServedAt
<1>3. PICK r \in Understood(w) :
        /\ r.kind \in {"page", "upgrade"}
        /\ request' = [request EXCEPT ![w] = r]
        /\ left' = [left EXCEPT ![w] = r.body]
        /\ Goto(w, IF r.body = 0 THEN "page" ELSE "body")
  BY DEF StartBody
<1>4. /\ request[w] \in Requests /\ r \in Requests
      /\ r.kind = "upgrade" => request[w].kind = "upgrade"
  <2>1. request[w] \in Requests \cup {NoRequest}
    BY <1>1 DEF TypeOK
  <2>2. CASE Whole(read[w])
    <3>1. r = request[w]
      BY <1>3, <2>2 DEF Understood
    <3>2. r # NoRequest
      BY <1>3 DEF NoRequest
    <3> QED
      BY <2>1, <3>1, <3>2
  <2>3. CASE ~Whole(read[w])
    <3>1. PICK k \in {request[w].kind} \cup (IF request[w].kind = "upgrade" THEN {"page"} ELSE {}),
               b \in {0, request[w].body}, a \in BOOLEAN :
            r = Misread(request[w], k, b, a)
      BY <1>3, <2>3 DEF Understood
    <3>2. CASE request[w] = NoRequest
      <4>1. k = "none" /\ r.kind = k
        BY <3>1, <3>2 DEF NoRequest, Misread
      <4> QED
        BY <1>3, <4>1
    <3>3. CASE request[w] \in Requests
      <4>1. k \in Kinds /\ b \in Nat
        BY <3>3 DEF Requests, Kinds
      <4>2. r.kind = k /\ r \in Requests
        BY <3>1, <3>3, <4>1 DEF Requests, Misread
      <4> QED
        BY <3>1, <3>3, <4>2
    <3> QED
      BY <2>1, <3>2, <3>3
  <2> QED
    BY <2>2, <2>3
<1>5. r.body \in Nat
  BY <1>4 DEF Requests
<1>6. /\ request' \in [Workers -> Requests \cup {NoRequest}] /\ request'[w] = r
      /\ \A v \in Workers \ {w} : request'[v] = request[v]
  BY <1>1, <1>3, <1>4 DEF TypeOK
<1>7. /\ left' \in [Workers -> Nat] /\ left'[w] = r.body
      /\ \A v \in Workers \ {w} : left'[v] = left[v]
  BY <1>1, <1>3, <1>5 DEF TypeOK
<1>8. /\ pc' \in [Workers -> PCs] /\ pc'[w] = IF r.body = 0 THEN "page" ELSE "body"
      /\ \A v \in Workers \ {w} : pc'[v] = pc[v]
  BY <1>1, <1>3 DEF TypeOK, Goto, PCs
<1>9. TypeOK'
  BY <1>1, <1>6, <1>7, <1>8 DEF TypeOK, connVars, ioVars, historyVars
<1>10. Mine(w, c)
  BY <1>1, <1>2, <1>6, <1>7, <1>8 DEF Mine, connVars, ioVars, historyVars
<1>11. BytesKept(w, c)
  <2>1. fd[c] \in Fds
    BY <1>1, <1>2, ServedIs DEF Rest
  <2> QED
    BY <1>1, <1>2, <2>1, SameBytes DEF connVars, ioVars, historyVars
<1>12. CountOf(w)'
  BY <1>1, <1>5, <1>7, <1>8 DEF CountOf, Serving, Rest, CountInv
<1>13. OrderOf(w, c)'
  BY <1>1, <1>2, <1>4, <1>6, <1>11, OrderKept
<1>14. ASSUME c \notin broken'
       PROVE  Framed(w, c)' /\ FramingOf(c)'
  <2>1. c \notin broken /\ answered'[c] = answered[c]
    BY <1>1, <1>14 DEF historyVars
  <2>2. /\ FramingOf(c)' /\ Reached(c)' = Reached(c)
        /\ ReadSoFar(w, c, Reached(c))' \/ (pc'[w] = "line" /\ read'[w] = <<>>) => Framed(w, c)'
    BY <1>1, <1>2, <1>11, <2>1, FrameKept
  <2>3. ReadSoFar(w, c, Reached(c)) /\ Whole(read[w])
    BY <1>1, <1>2, <2>1, HeadRead
  <2>4. PICK q : q = Reached(c)
    OBVIOUS
  <2>5. /\ q <= Len(Script[c]) /\ request[w] = Script[c][q]
        /\ Len(read[w]) = HeadLength(c, q) /\ HeadLength(c, q) \in Nat
    BY <1>1, <1>2, <2>1, <2>3, <2>4, Prefix, HeadIs DEF ReadSoFar
  <2>6. r = Script[c][q]
    BY <1>3, <2>3, <2>5 DEF Understood
  <2>7. ReadSoFar(w, c, q)'
    BY <1>1, <1>5, <1>6, <1>7, <1>8, <2>5, <2>6 DEF ReadSoFar
  <2> QED
    BY <2>2, <2>4, <2>7
<1>15. Kept(w, c)
  BY <1>11, <1>12, <1>13, <1>14 DEF Kept, BytesKept
<1> QED
  BY <1>1, <1>9, <1>10, <1>15, OthersKept DEF IInv

\* What is read and what is left make the request, plus what is copied and not
\* yet counted: copying n bytes, or counting them, keeps that.
LEMMA Counting ==
    ASSUME NEW i \in Nat, NEW j \in Nat, NEW k \in Nat, NEW l \in Nat, NEW m \in Nat, NEW n \in Nat,
           i + l = j + k + m
    PROVE  (i + n) + l = j + k + (m + n) /\ i + (l - m) = j + k
OBVIOUS

\* recvBytes() has copied n more bytes of the body.
LEMMA CopyKeeps ==
    ASSUME IInv, TypeOK', NEW w \in Workers, NEW c \in Conns, c = client[w], Mine(w, c), BytesKept(w, c),
           pc[w] = "body", NEW n \in Nat,
           Len(read'[w]) = Len(read[w]) + n, copied'[w] = copied[w] + n,
           copied'[w] <= left[w], copied'[w] < RequestedLength(w) => Ahead(w)' = <<>>,
           UNCHANGED <<request, left, nbFileKeepAlive, pc, historyVars>>
    PROVE  IInv'
<1>1. TypeOK /\ Rest /\ Serving(w) /\ copied[w] \in Nat /\ left[w] \in Nat /\ Len(read[w]) \in Nat
  <2>1. TypeOK /\ Rest
    BY DEF IInv
  <2>2. copied[w] \in 0..PartMax /\ left[w] \in Nat
    BY <2>1 DEF TypeOK
  <2> QED
    BY <2>1, <2>2, RequestAssumption, ServedIs DEF Serving, Rest
<1>2. CountOf(w)'
  <2>1. RequestedLength(w)' = RequestedLength(w)
    BY DEF RequestedLength
  <2> QED
    BY <1>1, <2>1 DEF CountOf, Rest, CountInv, Serving
<1>3. OrderOf(w, c)'
  BY <1>1, OrderKept
<1>4. ASSUME c \notin broken'
      PROVE  Framed(w, c)' /\ FramingOf(c)'
  <2>1. c \notin broken /\ answered'[c] = answered[c]
    BY <1>4 DEF historyVars
  <2>2. /\ FramingOf(c)' /\ Reached(c)' = Reached(c)
        /\ ReadSoFar(w, c, Reached(c))' \/ (pc'[w] = "line" /\ read'[w] = <<>>) => Framed(w, c)'
    BY <1>1, <2>1, FrameKept
  <2>3. ReadSoFar(w, c, Reached(c))
    BY <1>1, <2>1 DEF Rest, FrameInv, Framed
  <2>4. PICK q : q = Reached(c)
    OBVIOUS
  <2>5. q \in 1..Len(Script[c]) /\ HeadLength(c, q) \in Nat /\ Script[c][q].body \in Nat
    BY <1>1, <2>1, <2>3, <2>4, Prefix, HeadIs, ScriptTyped
  <2>6. Len(read[w]) + left[w] = HeadLength(c, q) + Script[c][q].body + copied[w]
    BY <2>3, <2>4 DEF ReadSoFar
  <2>7. Len(read'[w]) + left[w] = HeadLength(c, q) + Script[c][q].body + copied'[w]
    <3>1. PICK i, j, k, l, m \in Nat :
            /\ i = Len(read[w]) /\ l = left[w] /\ j = HeadLength(c, q)
            /\ k = Script[c][q].body /\ m = copied[w]
      BY <1>1, <2>5
    <3>2. i + l = j + k + m
      BY <2>6, <3>1
    <3>3. (i + n) + l = j + k + (m + n)
      BY <3>2, Counting
    <3> QED
      BY <3>1, <3>3
  <2>8. ReadSoFar(w, c, q)'
    BY <2>3, <2>4, <2>7 DEF ReadSoFar
  <2> QED
    BY <2>2, <2>4, <2>8
<1>5. Kept(w, c)
  BY <1>2, <1>3, <1>4 DEF Kept, BytesKept
<1> QED
  BY <1>1, <1>5, OthersKept DEF IInv
LEMMA BodyAheadKeeps ==
    ASSUME IInv, NEW w \in Workers, BodyAhead(w)
    PROVE  IInv'
<1>1. /\ pc[w] = "body" /\ copied[w] = 0 /\ Ahead(w) # <<>> /\ TypeOK /\ Rest /\ Serving(w)
      /\ UNCHANGED <<connVars, net, client, request, left, nbFileKeepAlive, pc, exiting, historyVars>>
  BY DEF BodyAhead, At, IInv, Serving
<1>2. PICK c \in Conns : c = client[w]
  BY <1>1, ServedAt
<1>3. PICK n : /\ n = Lesser(Len(Ahead(w)), RequestedLength(w))
               /\ Copy(w, SubSeq(Ahead(w), 1, n))
               /\ SetAhead(w, SubSeq(Ahead(w), n + 1, Len(Ahead(w))))
  BY DEF BodyAhead
<1>4. PICK A : A = Ahead(w)
  OBVIOUS
<1>5. A \in Seq(Bytes) /\ Len(A) \in Nat /\ read[w] \in Seq(Bytes)
  BY <1>1, <1>4, ServedIs DEF Rest
<1>6. left[w] \in Nat /\ PartMax \in Nat
  BY <1>1, RequestAssumption DEF TypeOK
<1>7. /\ n \in 0..Len(A) /\ n <= left[w] /\ n <= PartMax
      /\ n < RequestedLength(w) => n = Len(A)
  BY <1>3, <1>4, <1>5, <1>6 DEF Lesser, RequestedLength
<1>8. PICK s, t : s = SubSeq(A, 1, n) /\ t = SubSeq(A, n + 1, Len(A))
  OBVIOUS
<1>9. s \in Seq(Bytes) /\ Len(s) = n /\ t \in Seq(Bytes) /\ Len(t) = Len(A) - n
  BY <1>5, <1>7, <1>8, Cut
<1>10. read[w] \o s \in Seq(Bytes)
  BY <1>5, <1>9, Joined
<1>11. /\ read' \in [Workers -> Seq(Bytes)] /\ read'[w] = read[w] \o s
       /\ \A v \in Workers \ {w} : read'[v] = read[v]
  BY <1>1, <1>3, <1>4, <1>8, <1>10 DEF Copy, TypeOK
<1>12. /\ copied' \in [Workers -> 0..PartMax] /\ copied'[w] = copied[w] + n
       /\ \A v \in Workers \ {w} : copied'[v] = copied[v]
  <2>1. copied' = [copied EXCEPT ![w] = copied[w] + n] /\ copied \in [Workers -> 0..PartMax]
    BY <1>1, <1>3, <1>4, <1>8, <1>9 DEF Copy, TypeOK
  <2>2. copied[w] + n \in 0..PartMax
    BY <1>1, <1>5, <1>6, <1>7
  <2> QED
    BY <2>1, <2>2
<1>13. /\ httpRecvBuffers' \in [Workers -> [Fds -> Seq(Bytes)]] /\ Ahead(w)' = t
       /\ \A v \in Workers \ {w} : httpRecvBuffers'[v] = httpRecvBuffers[v]
       /\ \A f \in Fds \ {fd[c]} : httpRecvBuffers'[w][f] = httpRecvBuffers[w][f]
  <2>1. SetAhead(w, t) /\ client'[w] = client[w] /\ fd' = fd /\ pc[w] # "idle" /\ LinkInv
    BY <1>1, <1>3, <1>4, <1>8 DEF connVars, Rest
  <2> QED
    BY <1>1, <1>2, <1>9, <2>1, AheadSet
<1>14. TypeOK'
  BY <1>1, <1>11, <1>12, <1>13 DEF TypeOK, connVars, historyVars
<1>15. Mine(w, c)
  BY <1>1, <1>2, <1>11, <1>12, <1>13 DEF Mine, connVars, historyVars
<1>16. Taken(w, c, n)
  BY <1>1, <1>4, <1>7, <1>8, <1>11, <1>13 DEF Taken
<1>17. BytesKept(w, c) /\ Len(read'[w]) = Len(read[w]) + n
  BY <1>1, <1>15, <1>16, TakenKeeps
<1>18. copied'[w] = n /\ n \in Nat
  BY <1>1, <1>5, <1>7, <1>12
<1>19. copied'[w] < RequestedLength(w) => Ahead(w)' = <<>>
  BY <1>5, <1>7, <1>9, <1>13, <1>18
<1>20. UNCHANGED <<request, left, nbFileKeepAlive, pc, historyVars>>
  BY <1>1
<1> QED
  BY <1>1, <1>2, <1>7, <1>12, <1>14, <1>15, <1>17, <1>18, <1>19, <1>20, CopyKeeps

LEMMA BodyReceiveKeeps ==
    ASSUME IInv, NEW w \in Workers, BodyReceive(w)
    PROVE  IInv'
<1>1. /\ pc[w] = "body" /\ (copied[w] > 0 \/ Ahead(w) = <<>>) /\ TypeOK /\ Rest /\ Serving(w)
      /\ UNCHANGED <<connVars, httpRecvBuffers, client, request, left, nbFileKeepAlive, pc, exiting, historyVars>>
  BY DEF BodyReceive, At, IInv, Serving
<1>2. PICK c \in Conns : c = client[w]
  BY <1>1, ServedAt
<1>3. PICK n \in 1..Lesser(RequestedLength(w) - copied[w], Len(net[c])) :
        /\ Copy(w, SubSeq(net[c], 1, n))
        /\ net' = [net EXCEPT ![c] = SubSeq(net[c], n + 1, Len(net[c]))]
  BY <1>2 DEF BodyReceive
<1>4. PICK N : N = net[c]
  OBVIOUS
<1>5. N \in Seq(Bytes) /\ Len(N) \in Nat /\ read[w] \in Seq(Bytes)
  BY <1>1, <1>2, <1>4, ServedIs DEF Rest
<1>6. left[w] \in Nat /\ PartMax \in Nat /\ copied[w] \in Nat
  <2>1. copied[w] \in 0..PartMax
    BY <1>1 DEF TypeOK
  <2> QED
    BY <1>1, <2>1, RequestAssumption DEF TypeOK
<1>7. RequestedLength(w) \in Nat /\ RequestedLength(w) <= left[w] /\ RequestedLength(w) <= PartMax
  BY <1>6 DEF Lesser, RequestedLength
<1>8. n \in 0..Len(N) /\ n \in Nat /\ n > 0 /\ copied[w] + n <= RequestedLength(w)
  BY SMT, <1>3, <1>4, <1>5, <1>6, <1>7 DEF Lesser
<1>9. Ahead(w) = <<>> /\ Ahead(w)' = <<>>
  <2>1. copied[w] < RequestedLength(w)
    BY <1>6, <1>7, <1>8
  <2>2. Ahead(w) = <<>>
    BY <1>1, <2>1 DEF Rest, CountInv, CountOf
  <2> QED
    BY <1>1, <2>2 DEF Ahead, connVars
<1>10. PICK s, t : s = SubSeq(N, 1, n) /\ t = SubSeq(N, n + 1, Len(N))
  OBVIOUS
<1>11. s \in Seq(Bytes) /\ Len(s) = n /\ t \in Seq(Bytes)
  BY <1>5, <1>8, <1>10, Cut
<1>12. read[w] \o s \in Seq(Bytes)
  BY <1>5, <1>11, Joined
<1>13. /\ read' \in [Workers -> Seq(Bytes)] /\ read'[w] = read[w] \o s
       /\ \A v \in Workers \ {w} : read'[v] = read[v]
  BY <1>1, <1>3, <1>4, <1>10, <1>12 DEF Copy, TypeOK
<1>14. /\ copied' \in [Workers -> 0..PartMax] /\ copied'[w] = copied[w] + n
       /\ \A v \in Workers \ {w} : copied'[v] = copied[v]
  <2>1. copied' = [copied EXCEPT ![w] = copied[w] + n] /\ copied \in [Workers -> 0..PartMax]
    BY <1>1, <1>3, <1>4, <1>10, <1>11 DEF Copy, TypeOK
  <2>2. copied[w] + n \in 0..PartMax
    BY <1>6, <1>7, <1>8
  <2> QED
    BY <2>1, <2>2
<1>15. /\ net' \in [Conns -> Seq(Bytes)] /\ net'[c] = t /\ \A d \in Conns \ {c} : net'[d] = net[d]
  BY <1>1, <1>3, <1>4, <1>10, <1>11 DEF TypeOK
<1>16. TypeOK'
  BY <1>1, <1>13, <1>14, <1>15 DEF TypeOK, connVars, historyVars
<1>17. Mine(w, c)
  BY <1>1, <1>2, <1>13, <1>14, <1>15 DEF Mine, connVars, historyVars
<1>18. Copied(w, c, n)
  BY <1>4, <1>8, <1>9, <1>10, <1>13, <1>15 DEF Copied
<1>19. BytesKept(w, c) /\ Len(read'[w]) = Len(read[w]) + n
  BY <1>1, <1>17, <1>18, CopiedKeeps
<1>20. copied'[w] <= left[w]
  BY <1>6, <1>7, <1>8, <1>14
<1>21. UNCHANGED <<request, left, nbFileKeepAlive, pc, historyVars>>
  BY <1>1
<1> QED
  BY <1>1, <1>2, <1>8, <1>9, <1>14, <1>16, <1>17, <1>19, <1>20, <1>21, CopyKeeps

LEMMA BodyPartKeeps ==
    ASSUME IInv, NEW w \in Workers, BodyPart(w)
    PROVE  IInv'
<1>1. /\ pc[w] = "body" /\ copied[w] > 0 /\ TypeOK /\ Rest /\ Serving(w)
      /\ UNCHANGED <<connVars, ioVars, client, read, request, nbFileKeepAlive, exiting, answered>>
      /\ left' = [left EXCEPT ![w] = left[w] - copied[w]]
      /\ copied' = [copied EXCEPT ![w] = 0]
  BY DEF BodyPart, At, IInv, Serving
<1>2. PICK c \in Conns : c = client[w]
  BY <1>1, ServedAt
<1>3. left[w] \in Nat /\ copied[w] \in Nat /\ copied[w] <= left[w] /\ 0 \in 0..PartMax
  <2>1. copied[w] \in 0..PartMax /\ left[w] \in Nat /\ PartMax \in Nat
    BY <1>1, RequestAssumption DEF TypeOK
  <2> QED
    BY <1>1, <2>1 DEF Rest, CountInv, CountOf
<1>4. left[w] - copied[w] \in Nat
  BY <1>3
<1>5. /\ left' \in [Workers -> Nat] /\ left'[w] = left[w] - copied[w]
      /\ \A v \in Workers \ {w} : left'[v] = left[v]
  BY <1>1, <1>4 DEF TypeOK
<1>6. /\ copied' \in [Workers -> 0..PartMax] /\ copied'[w] = 0
      /\ \A v \in Workers \ {w} : copied'[v] = copied[v]
  BY <1>1, <1>3 DEF TypeOK
<1>7. PICK l \in {"page", "body"} : /\ Goto(w, l) /\ broken' \in {broken, broken \cup {c}}
                                    /\ c \notin broken' /\ l = "page" => left'[w] = 0
  BY <1>2 DEF BodyPart
<1>8. /\ pc' \in [Workers -> PCs] /\ pc'[w] = l
      /\ \A v \in Workers \ {w} : pc'[v] = pc[v]
  BY <1>1, <1>7 DEF TypeOK, Goto, PCs
<1>9. broken \subseteq broken' /\ broken' \subseteq Conns /\ \A d \in Conns \ {c} : d \in broken' <=> d \in broken
  BY <1>1, <1>7 DEF TypeOK
<1>10. TypeOK'
  BY <1>1, <1>5, <1>6, <1>8, <1>9 DEF TypeOK, connVars, ioVars
<1>11. Mine(w, c)
  BY <1>1, <1>2, <1>5, <1>6, <1>8, <1>9 DEF Mine, connVars, ioVars
<1>12. BytesKept(w, c)
  <2>1. fd[c] \in Fds
    BY <1>1, <1>2, ServedIs DEF Rest
  <2> QED
    BY <1>1, <1>2, <1>9, <2>1, SameBytes DEF connVars, ioVars
<1>13. CountOf(w)'
  BY <1>1, <1>4, <1>5, <1>6, <1>8 DEF CountOf, Serving, Rest, CountInv
<1>14. OrderOf(w, c)'
  BY <1>1, <1>2, <1>12, OrderKept
<1>15. ASSUME c \notin broken'
       PROVE  Framed(w, c)' /\ FramingOf(c)'
  <2>1. c \notin broken /\ answered'[c] = answered[c]
    BY <1>1, <1>9, <1>15
  <2>2. /\ FramingOf(c)' /\ Reached(c)' = Reached(c)
        /\ ReadSoFar(w, c, Reached(c))' \/ (pc'[w] = "line" /\ read'[w] = <<>>) => Framed(w, c)'
    BY <1>1, <1>2, <1>12, <2>1, FrameKept
  <2>3. ReadSoFar(w, c, Reached(c))
    BY <1>1, <1>2, <2>1 DEF Rest, FrameInv, Framed
  <2>4. PICK q : q = Reached(c)
    OBVIOUS
  <2>5. q \in 1..Len(Script[c]) /\ HeadLength(c, q) \in Nat /\ Script[c][q].body \in Nat
    BY <1>1, <1>2, <2>1, <2>3, <2>4, Prefix, HeadIs, ScriptTyped
  <2>6. Len(read[w]) + left[w] = HeadLength(c, q) + Script[c][q].body + copied[w]
    BY <1>1, <2>3, <2>4 DEF ReadSoFar
  <2>7. Len(read[w]) \in Nat
    BY <1>1, ServedIs DEF Rest
  <2>8. Len(read[w]) + (left[w] - copied[w]) = HeadLength(c, q) + Script[c][q].body
    <3>1. PICK i, j, k, m, n \in Nat :
            /\ i = Len(read[w]) /\ n = left[w] /\ j = HeadLength(c, q)
            /\ k = Script[c][q].body /\ m = copied[w]
      BY <1>3, <2>5, <2>7
    <3>2. i + n = j + k + m
      BY <2>6, <3>1
    <3>3. i + (n - m) = j + k
      BY <3>2, Counting
    <3> QED
      BY <3>1, <3>3
  <2>9. /\ l = "page" => Len(read[w]) = HeadLength(c, q) + Script[c][q].body
        /\ Len(read[w]) + left'[w] = HeadLength(c, q) + Script[c][q].body + copied'[w]
    BY SMTT(60), <1>5, <1>6, <1>7, <1>15, <2>5, <2>7, <2>8
  <2>10. ReadSoFar(w, c, q)'
    BY <1>1, <1>8, <2>3, <2>4, <2>9 DEF ReadSoFar
  <2> QED
    BY <2>2, <2>4, <2>10
<1>16. Kept(w, c)
  BY <1>12, <1>13, <1>14, <1>15 DEF Kept, BytesKept
<1> QED
  BY <1>1, <1>10, <1>11, <1>16, OthersKept DEF IInv
(***************************************************************************)
(* Lines                                                                   *)
(***************************************************************************)
\* n bytes read ahead are taken for a line, up to the first end of one unless
\* the framing is lost, or for none.
LineRead(w, c, n) ==
    /\ pc[w] = "line" /\ c = client[w] /\ n \in 0..Len(Ahead(w))
    /\ GotLine(w, SubSeq(Ahead(w), 1, n))
    /\ SetAhead(w, SubSeq(Ahead(w), n + 1, Len(Ahead(w))))
    /\ broken' \in {broken, broken \cup {c}}
    /\ c \notin broken' /\ n > 0 => /\ IsEol(Ahead(w)[n])
                                    /\ \A j \in 1..(n - 1) : ~IsEol(Ahead(w)[j])
    /\ UNCHANGED <<connVars, net, client, bodyVars, nbFileKeepAlive, exiting, answered>>

\* The byte that a client sends after the request line of a handshake is of that
\* request.
LEMMA AfterUpgrade ==
    ASSUME NEW c \in Conns, NEW x \in Bytes, NEW y \in Bytes, x[1] = c, y[1] = c, After(x, y),
           Script[c][x[2]].kind = "upgrade"
    PROVE  Spent(y)
<1>1. x[2] \in 1..Len(Script[c]) /\ y[2] \in 1..Len(Script[c]) /\ Len(Script[c]) \in Nat
  BY ScriptTyped DEF Bytes
<1>2. x[2] = Len(Script[c])
  BY <1>1, RequestAssumption
<1>3. ~(x[2] < y[2])
  BY <1>1, <1>2
<1> QED
  BY <1>3 DEF After, Spent

\* The request line that a line begins with is of the client served.
LEMMA RequestLine ==
    ASSUME TypeOK, Rest, NEW w \in Workers, NEW c \in Conns,
           c = client[w], pc[w] = "line", Ahead(w) # <<>>, Ahead(w)[1][3] = "request"
    PROVE  /\ Ahead(w)[1] \in Bytes /\ Ahead(w)[1][1] = c
           /\ Script[Ahead(w)[1][1]][Ahead(w)[1][2]] \in Requests
<1>1. /\ Ahead(w) \in Seq(Bytes) /\ Len(Ahead(w)) \in Nat
      /\ Ahead(w) = httpRecvBuffers[w][fd[c]] /\ fd[c] \in Fds
  BY ServedIs DEF Rest
<1>2. PICK x : x = Ahead(w)[1]
  OBVIOUS
<1>3. 1 \in 1..Len(Ahead(w)) /\ x \in Bytes
  BY <1>1, <1>2
<1>4. client[w] = x[1] \/ Spent(x)
  BY <1>1, <1>2, <1>3 DEF Rest, BufferInv, BufferOf
<1>5. ~Spent(x)
  BY <1>2 DEF Spent
<1>6. x[1] = c /\ x[2] \in 1..Len(Script[c])
  BY <1>3, <1>4, <1>5 DEF Bytes
<1> QED
  BY <1>2, <1>3, <1>6, ScriptTyped

\* In a head, the first end of a line after whole lines ends the next line.
LEMMA NextLine ==
    ASSUME NEW c \in Conns, NEW r \in 1..Len(Script[c]), NEW L \in LineStarts(c, r),
           NEW n \in Nat \ {0}, n <= HeadLength(c, r) - L => HeadKind(c, r, L + n) = "eol",
           \A j \in 1..(n - 1) : j <= HeadLength(c, r) - L => HeadKind(c, r, L + j) # "eol"
    PROVE  /\ L \in Nat /\ L < HeadLength(c, r) /\ n <= HeadLength(c, r) - L
           /\ n = 1 => L + n = HeadLength(c, r)
           /\ n # 1 => L + n \in LineStarts(c, r)
           /\ L = 0 <=> HeadKind(c, r, L + 1) = "request"
<1> DEFINE h == Script[c][r].header
<1>1. h \in Nat
  BY ScriptTyped
<1>2. /\ HeadLength(c, r) = IF h = 0 THEN 3 ELSE h + 4
      /\ LineStarts(c, r) = {0, 2} \cup (IF h = 0 THEN {} ELSE {h + 3})
      /\ \A k : HeadKind(c, r, k) = IF k = 1 THEN "request" ELSE IF k \in 3..(h + 2) THEN "header" ELSE "eol"
  BY DEF HeadLength, LineStarts, HeadKind
<1> HIDE DEF h
<1>3. CASE L = 0
  <2>1. n # 1
    BY <1>1, <1>2, <1>3
  <2>2. ~(n > 2)
    BY SMTT(60), <1>1, <1>2, <1>3
  <2>3. n = 2
    BY <2>1, <2>2
  <2> QED
    BY <1>1, <1>2, <1>3, <2>3
<1>4. CASE L = 2 /\ h = 0
  <2>1. ~(n > 1)
    BY SMTT(60), <1>2, <1>4
  <2>2. n = 1
    BY <2>1
  <2> QED
    BY <1>2, <1>4, <2>2
<1>5. CASE L = 2 /\ h # 0
  <2>1. ~(n < h + 1)
    <3> SUFFICES ASSUME n < h + 1
                 PROVE  FALSE
      OBVIOUS
    <3>1. L + n \in 3..(h + 2) /\ L + n # 1 /\ n <= HeadLength(c, r) - L
      BY <1>1, <1>2, <1>5
    <3> QED
      BY <1>2, <3>1
  <2>2. ~(n > h + 1)
    <3> SUFFICES ASSUME n > h + 1
                 PROVE  FALSE
      OBVIOUS
    <3>1. h + 1 \in 1..(n - 1) /\ h + 1 <= HeadLength(c, r) - L
      BY <1>1, <1>2, <1>5
    <3>2. L + (h + 1) \notin 3..(h + 2) /\ L + (h + 1) # 1
      BY <1>1, <1>5
    <3> QED
      BY <1>2, <3>1, <3>2
  <2>3. n = h + 1
    BY <1>1, <2>1, <2>2
  <2> QED
    BY <1>1, <1>2, <1>5, <2>3
<1>6. CASE L = h + 3 /\ h # 0
  <2>1. ~(n > 1)
    <3> SUFFICES ASSUME n > 1
                 PROVE  FALSE
      OBVIOUS
    <3>1. 1 \in 1..(n - 1) /\ 1 <= HeadLength(c, r) - L
      BY <1>1, <1>2, <1>6
    <3>2. L + 1 \notin 3..(h + 2) /\ L + 1 # 1
      BY <1>1, <1>6
    <3> QED
      BY <1>2, <3>1, <3>2
  <2>2. n = 1
    BY <2>1
  <2> QED
    BY <1>1, <1>2, <1>6, <2>2
<1> QED
  BY <1>2, <1>3, <1>4, <1>5, <1>6
LEMMA LineKeeps ==
    ASSUME IInv, NEW w \in Workers, NEW c \in Conns, NEW n, LineRead(w, c, n)
    PROVE  IInv'
<1>1. /\ TypeOK /\ Rest /\ LinkInv /\ Serving(w) /\ pc[w] = "line" /\ c = client[w]
      /\ UNCHANGED <<connVars, net, client, bodyVars, nbFileKeepAlive, exiting, answered>>
  BY DEF LineRead, IInv, Rest, Serving
<1>2. PICK A, s, t : A = Ahead(w) /\ s = SubSeq(A, 1, n) /\ t = SubSeq(A, n + 1, Len(A))
  OBVIOUS
<1>3. /\ A \in Seq(Bytes) /\ Len(A) \in Nat /\ read[w] \in Seq(Bytes) /\ Len(read[w]) \in Nat
      /\ n \in 0..Len(A) /\ fd[c] \in Fds
  BY <1>1, <1>2, ServedIs DEF LineRead
<1>4. /\ s \in Seq(Bytes) /\ Len(s) = n /\ t \in Seq(Bytes) /\ Len(t) = Len(A) - n
      /\ \A k \in 1..n : s[k] = A[k]
      /\ \A k \in 1..Len(t) : n + k \in 1..Len(A) /\ t[k] = A[n + k]
  <2>1. /\ s \in Seq(Bytes) /\ Len(s) = n /\ t \in Seq(Bytes) /\ Len(t) = Len(A) - n
        /\ \A k \in 1..n : s[k] = A[k]
        /\ \A k \in 1..(Len(A) - n) : t[k] = A[n + k]
    BY <1>2, <1>3, Cut
  <2> QED
    BY <1>3, <2>1
<1>5. GotLine(w, s) /\ SetAhead(w, t)
  BY <1>2 DEF LineRead
<1>6. s # <<>> <=> n > 0
  BY <1>3, <1>4
<1>7. n > 0 => s[1] = A[1] /\ A[1] \in Bytes /\ 1 \in 1..Len(A) /\ A # <<>>
  BY <1>3, <1>4
\* What the line makes of the request.
<1> DEFINE first == n > 0 /\ A[1][3] = "request"
           q == IF first THEN Script[A[1][1]][A[1][2]] ELSE request[w]
<1>8. first => A[1][1] = c /\ Script[A[1][1]][A[1][2]] \in Requests
  BY <1>1, <1>2, <1>7, RequestLine
<1>9. /\ request' \in [Workers -> Requests \cup {NoRequest}] /\ request'[w] = q
      /\ \A v \in Workers \ {w} : request'[v] = request[v]
  <2>1. request \in [Workers -> Requests \cup {NoRequest}]
    BY <1>1 DEF TypeOK
  <2>2. CASE first
    <3>1. request' = [request EXCEPT ![w] = Script[A[1][1]][A[1][2]]]
      BY <1>5, <1>6, <1>7, <2>2 DEF GotLine
    <3> QED
      BY <1>8, <2>1, <2>2, <3>1
  <2>3. CASE ~first
    <3>1. request' = request
      BY <1>5, <1>6, <1>7, <2>3 DEF GotLine
    <3> QED
      BY <2>1, <2>3, <3>1
  <2> QED
    BY <2>2, <2>3
<1>10. /\ pc' \in [Workers -> PCs]
       /\ pc'[w] = IF n = 0 \/ exiting THEN "free"
                   ELSE IF n = 1 /\ IsEol(A[1]) THEN "request" ELSE "line"
       /\ \A v \in Workers \ {w} : pc'[v] = pc[v]
  <2>1. Goto(w, IF n = 0 \/ exiting THEN "free" ELSE IF n = 1 /\ IsEol(A[1]) THEN "request" ELSE "line")
    BY <1>3, <1>4, <1>5, <1>6, <1>7 DEF GotLine
  <2> QED
    BY <1>1, <2>1 DEF TypeOK, Goto, PCs
<1>11. read[w] \o s \in Seq(Bytes)
  BY <1>3, <1>4, Joined
<1>12. /\ read' \in [Workers -> Seq(Bytes)] /\ read'[w] = read[w] \o s
       /\ \A v \in Workers \ {w} : read'[v] = read[v]
  BY <1>1, <1>5, <1>11 DEF GotLine, TypeOK
<1>13. /\ httpRecvBuffers' \in [Workers -> [Fds -> Seq(Bytes)]] /\ Ahead(w)' = t
       /\ \A v \in Workers \ {w} : httpRecvBuffers'[v] = httpRecvBuffers[v]
       /\ \A f \in Fds \ {fd[c]} : httpRecvBuffers'[w][f] = httpRecvBuffers[w][f]
  <2>1. client'[w] = client[w] /\ fd' = fd /\ pc[w] # "idle"
    BY <1>1 DEF connVars
  <2> QED
    BY <1>1, <1>4, <1>5, <2>1, AheadSet
<1>14. broken \subseteq broken' /\ broken' \subseteq Conns /\ \A d \in Conns \ {c} : d \in broken' <=> d \in broken
  BY <1>1 DEF LineRead, TypeOK
<1> HIDE DEF first, q
<1>15. TypeOK'
  BY <1>1, <1>9, <1>10, <1>12, <1>13, <1>14 DEF TypeOK, connVars, bodyVars
<1>16. pc'[w] \in {"free", "request", "line"}
  BY <1>10
<1>17. Mine(w, c)
  BY <1>1, <1>9, <1>10, <1>12, <1>13, <1>14, <1>16 DEF Mine, connVars, bodyVars
<1>18. Taken(w, c, n)
  BY <1>1, <1>2, <1>3, <1>12, <1>13 DEF Taken
<1>19. BytesKept(w, c) /\ Len(read'[w]) = Len(read[w]) + n
  BY <1>1, <1>17, <1>18, TakenKeeps
<1>20. CountOf(w)'
  BY <1>1, <1>16 DEF CountOf, Serving, Rest, CountInv, bodyVars
\* Nothing but the rest of a handshake follows its request line.
<1>21. OrderOf(w, c)'
  <2>1. CASE ~first
    BY <1>1, <1>9, <1>19, <2>1, OrderKept DEF q
  <2>2. CASE first
    <3>1. OrderOf(w, c) /\ Pairs(w, c)'
      BY <1>1, <1>19 DEF Rest, OrderInv, OrderOf, BytesKept
    <3>2. SUFFICES ASSUME q.kind = "upgrade"
                   PROVE  AllSpent(w, c)'
      BY <1>9, <3>1 DEF OrderOf
    <3>3. /\ A[1] \in Bytes /\ A[1][1] = c /\ n > 0 /\ 1 \in 1..Len(A)
          /\ Script[c][A[1][2]].kind = "upgrade"
      BY <1>7, <1>8, <2>2, <3>2 DEF q, first
    <3>4. ASSUME NEW k \in 1..Len(t), t[k][1] = c
          PROVE  Spent(t[k])
      <4>1. n + k \in 1..Len(A) /\ t[k] = A[n + k] /\ 1 < n + k /\ t[k] \in Bytes
        BY <1>3, <1>4, <3>3
      <4>2. After(A[1], A[n + k])
        BY <1>2, <3>1, <3>3, <3>4, <4>1 DEF OrderOf, Pairs
      <4> QED
        BY <3>3, <3>4, <4>1, <4>2, AfterUpgrade
    <3>5. ASSUME NEW k \in 1..Len(net[c])
          PROVE  Spent(net[c][k])
      <4>1. net[c] \in Seq(Bytes) /\ net[c][k] \in Bytes
        BY <1>1 DEF TypeOK
      <4>2. net[c][k][1] = c
        BY <1>1 DEF Rest, NetInv, NetOf
      <4>3. After(A[1], net[c][k])
        BY <1>2, <3>1, <3>3 DEF OrderOf, Pairs
      <4> QED
        BY <3>3, <4>1, <4>2, <4>3, AfterUpgrade
    <3> QED
      BY <1>1, <1>13, <3>4, <3>5 DEF AllSpent
  <2> QED
    BY <2>1, <2>2
\* The line is the next of the head.
<1>22. ASSUME c \notin broken', Serving(w)'
       PROVE  Framed(w, c)'
  <2>1. c \notin broken /\ answered'[c] = answered[c] /\ Framed(w, c)
    BY <1>1, <1>14, <1>22 DEF Rest, FrameInv
  <2>2. PICK r, L : r = Reached(c) /\ L = Len(read[w])
    OBVIOUS
  <2>3. /\ r' = r /\ Reached(c)' = r
        /\ ReadSoFar(w, c, r)' => Framed(w, c)'
    BY <1>1, <1>19, <2>1, <2>2, FrameKept
  <2>4. n > 0 /\ ~exiting
    BY <1>3, <1>10, <1>22 DEF Serving
  <2>5. r \in 1..Len(Script[c])
    <3>1. r <= Len(Script[c]) + 1 /\ Slice(A, StreamFrom(c)[r], L)
      BY <1>2, <2>1, <2>2 DEF Framed, Slices
    <3>2. Len(Script[c]) \in Nat /\ r \in Nat \ {0}
      <4>1. answered[c] \in Seq(Seq(Bytes))
        BY <1>1 DEF TypeOK
      <4> QED
        BY <2>2, <4>1, ScriptTyped DEF Reached
    <3>3. ASSUME r = Len(Script[c]) + 1
          PROVE  FALSE
      <4>1. StreamFrom(c)[r] = <<>>
        BY <3>3, StreamDefined
      <4>2. L + Len(A) <= 0
        BY <3>1, <4>1 DEF Slice
      <4> QED
        BY <1>3, <2>2, <2>4, <4>2
    <3> QED
      BY <3>1, <3>2, <3>3
  <2>6. L \in LineStarts(c, r) /\ (L # 0 => request[w] = Script[c][r])
    <3>1. CASE ReadSoFar(w, c, Reached(c))
      BY <1>1, <2>2, <3>1 DEF ReadSoFar
    <3>2. CASE read[w] = <<>>
      BY <2>2, <3>2 DEF LineStarts
    <3> QED
      BY <2>1, <3>1, <3>2 DEF Framed
  <2>7. ASSUME NEW j \in 1..Len(A), j <= HeadLength(c, r) - L
        PROVE  A[j] = <<c, r, HeadKind(c, r, L + j)>>
    <3> DEFINE H == HeadBytes(c, r)
               B == Piece(c, r, "body", Script[c][r].body)
               F == StreamFrom(c)[r + 1]
    <3>1. /\ H \in Seq(Bytes) /\ Len(H) = HeadLength(c, r) /\ HeadLength(c, r) \in Nat
          /\ \A k \in 1..HeadLength(c, r) : H[k] = <<c, r, HeadKind(c, r, k)>>
      BY <2>5, HeadIs
    <3>2. B \in Seq(Bytes)
      BY <2>5, ScriptTyped, PieceIs DEF PieceKinds
    <3>3. F \in Seq(Bytes)
      <4>1. Len(Script[c]) \in Nat
        BY ScriptTyped
      <4>2. r + 1 \in 1..(Len(Script[c]) + 1)
        BY <2>5, <4>1
      <4> QED
        BY <4>2, StreamTyped
    <3>4. StreamFrom(c)[r] = (H \o B) \o F
      BY <2>5, StreamDefined DEF RequestBytes
    <3> HIDE DEF H, B, F
    <3>5. L + j \in 1..Len(H)
      <4>1. L \in Nat /\ j \in Nat \ {0}
        BY <1>3, <2>2
      <4> QED
        BY <2>7, <3>1, <4>1
    <3>6. H \o B \in Seq(Bytes) /\ L + j \in 1..Len(H \o B) /\ (H \o B)[L + j] = H[L + j]
      <4>1. Len(B) \in Nat
        BY <3>2
      <4> QED
        BY <3>1, <3>2, <3>5, <4>1, Joined
    <3>7. ((H \o B) \o F)[L + j] = (H \o B)[L + j]
      BY <3>3, <3>6, Joined
    <3>8. A[j] = StreamFrom(c)[r][L + j]
      BY <1>2, <2>1, <2>2 DEF Framed, Slices, Slice
    <3> QED
      BY <3>1, <3>4, <3>5, <3>6, <3>7, <3>8
  <2>8. IsEol(A[n]) /\ \A j \in 1..(n - 1) : ~IsEol(A[j])
    BY <1>2, <1>22, <2>4 DEF LineRead
  <2>9. /\ L \in Nat /\ L < HeadLength(c, r) /\ n <= HeadLength(c, r) - L
        /\ n = 1 => L + n = HeadLength(c, r)
        /\ n # 1 => L + n \in LineStarts(c, r)
        /\ L = 0 <=> HeadKind(c, r, L + 1) = "request"
    <3>1. n \in Nat \ {0} /\ n \in 1..Len(A) /\ \A j \in 1..(n - 1) : j \in 1..Len(A)
      BY <1>3, <2>4
    <3>2. n <= HeadLength(c, r) - L => HeadKind(c, r, L + n) = "eol"
      BY <2>7, <2>8, <3>1 DEF IsEol
    <3>3. \A j \in 1..(n - 1) : j <= HeadLength(c, r) - L => HeadKind(c, r, L + j) # "eol"
      BY <2>7, <2>8, <3>1 DEF IsEol
    <3> QED
      BY <2>5, <2>6, <3>1, <3>2, <3>3, NextLine
  <2>10. q = Script[c][r]
    <3>1. 1 \in 1..Len(A) /\ 1 <= HeadLength(c, r) - L
      <4>1. HeadLength(c, r) \in Nat
        BY <2>5, HeadIs
      <4> QED
        BY <1>7, <2>4, <2>9, <4>1
    <3>2. A[1] = <<c, r, HeadKind(c, r, L + 1)>>
      BY <2>7, <3>1
    <3>3. first <=> L = 0
      BY <2>4, <2>9, <3>2 DEF first
    <3>4. CASE L = 0
      BY <3>2, <3>3, <3>4 DEF q
    <3>5. CASE L # 0
      BY <2>6, <3>3, <3>5 DEF q
    <3> QED
      BY <3>4, <3>5
  <2>11. /\ n = 1 => pc'[w] = "request"
         /\ n # 1 => pc'[w] = "line"
    BY <1>10, <2>4, <2>8
  <2>12. Len(read'[w]) = L + n
    BY <1>19, <2>2
  <2>13. ReadSoFar(w, c, r)'
    BY <1>9, <1>16, <2>5, <2>9, <2>10, <2>11, <2>12 DEF ReadSoFar
  <2> QED
    BY <2>3, <2>13
<1>23. ASSUME c \notin broken'
       PROVE  FramingOf(c)'
  BY <1>1, <1>14, <1>23 DEF Rest, FrameInv, FramingOf
<1>24. Kept(w, c)
  BY <1>19, <1>20, <1>21, <1>22, <1>23 DEF Kept, BytesKept
<1> QED
  BY <1>1, <1>15, <1>17, <1>24, OthersKept DEF IInv

LEMMA ReadLineKeeps ==
    ASSUME IInv, NEW w \in Workers, ReadLine(w)
    PROVE  IInv'
<1>1. /\ pc[w] = "line" /\ LineMax \in Nat \ {0, 1}
      /\ UNCHANGED <<connVars, net, client, bodyVars, nbFileKeepAlive, exiting, answered>>
  BY RequestAssumption DEF ReadLine, At
<1>2. PICK c \in Conns : c = client[w]
  BY <1>1, ServedAt
<1>3. PICK A : A = Ahead(w)
  OBVIOUS
<1>4. A \in Seq(Bytes) /\ Len(A) \in Nat
  BY <1>1, <1>3, ServedIs DEF IInv, Rest
<1> DEFINE E == EolIn(A)
           end == IF E = {} THEN LineMax ELSE CHOOSE i \in E : \A j \in E : i <= j
           n == Lesser(end, LineMax)
<1>5. E \in SUBSET (1..Len(A)) /\ \A j \in 1..Len(A) : j \in E <=> IsEol(A[j])
  BY DEF EolIn
<1>6. /\ GotLine(w, SubSeq(A, 1, n))
      /\ SetAhead(w, SubSeq(A, n + 1, Len(A)))
      /\ broken' = IF IsEol(A[n]) THEN broken ELSE broken \cup {c}
      /\ E # {} \/ Len(A) >= LineMax
  BY <1>2, <1>3 DEF ReadLine
<1>7. end \in 1..Len(A) /\ end \in Nat /\ (E # {} => \A j \in E : end <= j)
  <2>1. CASE E = {}
    BY <1>1, <1>4, <1>6, <2>1
  <2>2. CASE E # {}
    <3>1. E \in SUBSET Nat
      BY <1>5
    <3> HIDE DEF E
    <3>2. \E i \in E : \A j \in E : i <= j
      BY <2>2, <3>1, Smallest
    <3>3. end \in E /\ \A j \in E : end <= j
      BY <2>2, <3>2
    <3> HIDE DEF end
    <3>4. end \in 1..Len(A)
      BY <1>5, <3>3
    <3> QED
      BY <1>4, <3>3, <3>4
  <2> QED
    BY <2>1, <2>2
<1>8. n \in 1..Len(A) /\ n <= end
  <2> HIDE DEF end
  <2> QED
    BY <1>1, <1>4, <1>7 DEF Lesser
<1>9. \A j \in 1..(n - 1) : ~IsEol(A[j])
  <2> SUFFICES ASSUME NEW j \in 1..(n - 1), IsEol(A[j])
               PROVE  FALSE
    OBVIOUS
  <2> HIDE DEF E, end, n
  <2>1. j \in 1..Len(A) /\ ~(end <= j)
    BY <1>4, <1>7, <1>8
  <2>2. j \in E
    BY <1>5, <2>1
  <2> QED
    BY <1>7, <2>1, <2>2
<1>10. n \in 0..Len(A) /\ (c \notin broken' => IsEol(A[n])) /\ broken' \in {broken, broken \cup {c}}
  <2> HIDE DEF n
  <2> QED
    BY <1>6, <1>8
<1>11. LineRead(w, c, n)
  <2> HIDE DEF n
  <2> QED
    BY <1>1, <1>2, <1>3, <1>6, <1>9, <1>10 DEF LineRead
<1> QED
  BY <1>11, LineKeeps

LEMMA ReceiveFailsKeeps ==
    ASSUME IInv, NEW w \in Workers, ReceiveFails(w)
    PROVE  IInv'
<1>1. /\ pc[w] = "line"
      /\ UNCHANGED <<connVars, net, client, bodyVars, nbFileKeepAlive, exiting, answered>>
  BY DEF ReceiveFails, At
<1>2. PICK c \in Conns : c = client[w]
  BY <1>1, ServedAt
<1>3. PICK A : A = Ahead(w)
  OBVIOUS
<1>4. A \in Seq(Bytes) /\ Len(A) \in Nat
  BY <1>1, <1>3, ServedIs DEF IInv, Rest
<1>5. PICK n \in Nat : n = Len(A)
  BY <1>4
<1>6. SubSeq(A, 1, n) = A /\ SubSeq(A, n + 1, Len(A)) = <<>>
  <2>1. n \in 0..Len(A)
    BY <1>5
  <2>2. /\ SubSeq(A, 1, n) \in Seq(Bytes) /\ Len(SubSeq(A, 1, n)) = Len(A)
        /\ \A k \in 1..Len(A) : SubSeq(A, 1, n)[k] = A[k]
        /\ SubSeq(A, n + 1, Len(A)) \in Seq(Bytes) /\ Len(SubSeq(A, n + 1, Len(A))) = 0
    BY <1>4, <1>5, <2>1, Cut
  <2> QED
    BY <1>4, <2>2
<1>7. GotLine(w, A) /\ SetAhead(w, <<>>) /\ broken' = IF A = <<>> THEN broken ELSE broken \cup {c}
  BY <1>2, <1>3 DEF ReceiveFails
<1>8. broken' \in {broken, broken \cup {c}} /\ (c \notin broken' => n = 0)
  BY <1>4, <1>5, <1>7
<1>9. /\ GotLine(w, SubSeq(A, 1, n)) /\ SetAhead(w, SubSeq(A, n + 1, Len(A)))
      /\ n \in 0..Len(A) /\ ~(c \notin broken' /\ n > 0)
  <2>1. GotLine(w, SubSeq(A, 1, n)) /\ SetAhead(w, SubSeq(A, n + 1, Len(A)))
    BY <1>6, <1>7, Zenon
  <2>2. n \in 0..Len(A) /\ ~(c \notin broken' /\ n > 0)
    BY <1>5, <1>8
  <2> QED
    BY <2>1, <2>2
<1>10. LineRead(w, c, n)
  BY <1>1, <1>2, <1>3, <1>8, <1>9 DEF LineRead
<1> QED
  BY <1>10, LineKeeps
(***************************************************************************)
(* Steps that give a connection to a worker, or take it away               *)
(***************************************************************************)
\* A step that is about the connection c, which v does not serve.
Elsewhere(v, c) ==
    /\ client[v] # c /\ client'[v] = client[v] /\ pc'[v] = pc[v] /\ read'[v] = read[v]
    /\ request'[v] = request[v] /\ left'[v] = left[v] /\ copied'[v] = copied[v]
    /\ nbFileKeepAlive'[v] = nbFileKeepAlive[v] /\ httpRecvBuffers'[v] = httpRecvBuffers[v]
    /\ \A d \in Conns \ {c} : /\ fd'[d] = fd[d] /\ net'[d] = net[d] /\ answered'[d] = answered[d]
                              /\ d \in broken' <=> d \in broken
    /\ broken \subseteq broken'

LEMMA ElsewhereKeeps ==
    ASSUME TypeOK, Rest, NEW v \in Workers, NEW c \in Conns, Elsewhere(v, c)
    PROVE  /\ CountOf(v)' /\ \A f \in Fds : BufferOf(v, f)'
           /\ Serving(v)' => OrderOf(v, client[v])'
           /\ Serving(v)' /\ client'[v] \notin broken' => Framed(v, client[v])'
<1>1. Serving(v)' = Serving(v)
  BY DEF Elsewhere, Serving
<1>2. ASSUME Serving(v)
      PROVE  client[v] \in Conns \ {c} /\ Ahead(v)' = Ahead(v)
  <2>1. client[v] \in Conns \ {c}
    BY <1>2, ServedIs DEF Rest, Serving, Elsewhere
  <2> QED
    BY <2>1 DEF Ahead, Elsewhere
<1>3. CountOf(v)'
  <2>1. CountOf(v) /\ RequestedLength(v)' = RequestedLength(v)
    BY DEF Rest, CountInv, RequestedLength, Elsewhere
  <2>2. CASE pc[v] = "body"
    <3>1. Ahead(v)' = Ahead(v)
      BY <1>2, <2>2 DEF Serving
    <3> QED
      BY <1>1, <2>1, <3>1 DEF CountOf, Elsewhere
  <2>3. CASE pc[v] # "body"
    BY <1>1, <2>1, <2>3 DEF CountOf, Elsewhere
  <2> QED
    BY <2>2, <2>3
<1>4. ASSUME NEW f \in Fds
      PROVE  BufferOf(v, f)'
  <2>1. httpRecvBuffers[v][f] \in Seq(Bytes)
    BY DEF TypeOK
  <2> SUFFICES ASSUME NEW k \in 1..Len(httpRecvBuffers[v][f]), NEW b, b = httpRecvBuffers[v][f][k]
               PROVE  (client'[v] = b[1] /\ fd'[b[1]] = f) \/ (b[1] \in broken' /\ Spent(b))
    BY DEF BufferOf, Elsewhere, Spent
  <2>2. b[1] \in Conns
    BY <2>1 DEF Bytes
  <2>3. (client[v] = b[1] /\ fd[b[1]] = f) \/ (b[1] \in broken /\ Spent(b))
    BY DEF Rest, BufferInv, BufferOf
  <2> QED
    BY SMTT(60), <2>2, <2>3 DEF Elsewhere
<1>5. ASSUME Serving(v)
      PROVE  OrderOf(v, client[v])'
  <2>1. PICK d \in Conns \ {c} : d = client[v]
    BY <1>2, <1>5
  <2>2. OrderOf(v, d)
    BY <1>5, <2>1 DEF Rest, OrderInv
  <2>3. OrderOf(v, d)'
    BY <1>2, <1>5, <2>1, <2>2 DEF OrderOf, Pairs, AllSpent, Elsewhere
  <2> QED
    BY <2>1, <2>3 DEF Elsewhere
<1>6. ASSUME Serving(v), client'[v] \notin broken'
      PROVE  Framed(v, client[v])'
  <2>1. PICK d \in Conns \ {c} : d = client[v]
    BY <1>2, <1>6
  <2>2. Framed(v, d) /\ d \notin broken
    BY <1>6, <2>1 DEF Rest, FrameInv, Elsewhere
  <2>3. Framed(v, d)'
    BY ZenonT(60), <1>2, <1>6, <2>1, <2>2 DEF Framed, Reached, AllWhole, Slices, ReadSoFar, Elsewhere
  <2> QED
    BY <2>1, <2>3 DEF Elsewhere
<1> QED
  BY <1>1, <1>3, <1>4, <1>5, <1>6

\* What c and w are left with by such a step.
LEMMA HandedOver ==
    ASSUME TypeOK, Rest, NEW w \in Workers, NEW c \in Conns, LinkInv',
           \A v \in Workers \ {w} : Elsewhere(v, c),
           CountOf(w)', NetOf(c)', \A f \in Fds : BufferOf(w, f)',
           Serving(w)' => OrderOf(w, client[w])',
           Serving(w)' /\ client'[w] \notin broken' => Framed(w, client[w])',
           c \notin broken' => FramingOf(c)',
           \A d \in Conns \ {c} : /\ net'[d] = net[d] /\ answered'[d] = answered[d]
                                  /\ d \in broken' <=> d \in broken
    PROVE  Rest'
<1>1. \A v \in Workers : v = w \/ v \in Workers \ {w}
  OBVIOUS
<1>2. CountInv' /\ BufferInv'
  BY <1>1, ElsewhereKeeps DEF CountInv, BufferInv
<1>3. OrderInv'
  BY <1>1, ElsewhereKeeps DEF OrderInv
<1>4. NetInv'
  BY DEF NetInv, NetOf, Rest
<1>5. FrameInv'
  <2>1. \A v \in Workers : Serving(v)' /\ client'[v] \notin broken' => Framed(v, client[v])'
    BY <1>1, ElsewhereKeeps
  <2>2. ASSUME NEW d \in Conns \ broken'
        PROVE  FramingOf(d)'
    <3>1. CASE d # c
      BY <2>2, <3>1 DEF Rest, FrameInv, FramingOf
    <3> QED
      BY <2>2, <3>1
  <2> QED
    BY <2>1, <2>2 DEF FrameInv
<1> QED
  BY <1>2, <1>3, <1>4, <1>5 DEF Rest
LEMMA UpgradeKeeps ==
    ASSUME IInv, NEW w \in Workers, Upgrade(w)
    PROVE  IInv'
<1>1. /\ pc[w] = "page" /\ request[w].kind = "upgrade" /\ TypeOK /\ Rest /\ LinkInv /\ Serving(w)
      /\ Answer(w) /\ UNCHANGED <<fd, net, bodyVars, exiting, broken>>
  BY DEF Upgrade, At, IInv, Rest, Serving
<1>2. PICK c \in Conns : c = client[w]
  BY <1>1, ServedAt
<1>3. CASE GiveUp(w) /\ UNCHANGED <<conn, client>>
  BY <1>1, <1>2, <1>3, LastKeeps DEF connVars
<1>4. CASE /\ conn' = [conn EXCEPT ![client[w]] = "websocket"]
           /\ client' = [client EXCEPT ![w] = NoConn]
           /\ Goto(w, "idle")
           /\ UNCHANGED <<httpRecvBuffers, read, request, nbFileKeepAlive>>
  <2>1. /\ conn' \in [Conns -> {"away", "served", "websocket", "closed"}] /\ conn'[c] = "websocket"
        /\ \A d \in Conns \ {c} : conn'[d] = conn[d]
    BY <1>1, <1>2, <1>4 DEF TypeOK
  <2>2. /\ client' \in [Workers -> Conns \cup {NoConn}] /\ client'[w] = NoConn
        /\ \A v \in Workers \ {w} : client'[v] = client[v]
    BY <1>1, <1>4 DEF TypeOK
  <2>3. /\ pc' \in [Workers -> PCs] /\ pc'[w] = "idle" /\ \A v \in Workers \ {w} : pc'[v] = pc[v]
    BY <1>1, <1>4 DEF TypeOK, Goto, PCs
  <2>4. /\ answered' \in [Conns -> Seq(Seq(Bytes))]
        /\ answered'[c] = Append(answered[c], read[w])
        /\ \A d \in Conns \ {c} : answered'[d] = answered[d]
    BY <1>1, <1>2, Answering
  <2>5. TypeOK'
    BY <1>1, <1>4, <2>1, <2>2, <2>3, <2>4 DEF TypeOK, bodyVars
  <2>6. NoConn \notin Conns
    BY RequestAssumption
  <2>7. \A v \in Workers \ {w} : client[v] # c
    BY <1>1, <1>2, <2>6 DEF LinkInv
  <2>8. conn[c] = "served" /\ fd[c] \in Fds /\ fd[c] # NoFd
    BY <1>1, <1>2, ServedIs, RequestAssumption
  <2>9. LinkInv'
    <3>1. \A v \in Workers : pc'[v] = "idle" <=> client'[v] = NoConn
      BY <1>1, <2>2, <2>3 DEF LinkInv
    <3>2. \A v \in Workers : client'[v] # NoConn => conn'[client'[v]] = "served"
      <4> SUFFICES ASSUME NEW v \in Workers, client'[v] # NoConn
                   PROVE  conn'[client'[v]] = "served"
        OBVIOUS
      <4>1. v # w /\ client'[v] = client[v] /\ client[v] \in Conns \ {c}
        BY SMTT(60), <1>1, <2>2, <2>7 DEF TypeOK
      <4> QED
        BY <1>1, <2>1, <4>1 DEF LinkInv
    <3>3. \A u, v \in Workers : client'[u] = client'[v] /\ client'[u] # NoConn => u = v
      BY <1>1, <2>2 DEF LinkInv
    <3>4. \A d \in Conns : conn'[d] \in {"served", "websocket"} <=> fd'[d] # NoFd
      BY <1>1, <2>1, <2>8 DEF LinkInv
    <3>5. \A d \in Conns : conn'[d] = "away" => net'[d] = StreamBytes(d) /\ answered'[d] = <<>> /\ d \notin broken'
      BY SMTT(60), <1>1, <2>1, <2>4 DEF LinkInv
    <3> QED
      BY <1>1, <3>1, <3>2, <3>3, <3>4, <3>5 DEF LinkInv
  <2>10. \A v \in Workers \ {w} : Elsewhere(v, c)
    BY <1>1, <1>4, <2>2, <2>3, <2>4, <2>7 DEF Elsewhere, bodyVars
  <2>11. CountOf(w)' /\ ~Serving(w)'
    BY <1>1, <2>3 DEF CountOf, Serving, Rest, CountInv, bodyVars
  <2>12. NetOf(c)'
    BY <1>1 DEF Rest, NetInv, NetOf
\* What the framing says of the last request, and of what follows it.
  <2>13. ASSUME c \notin broken
         PROVE  read[w] = RequestBytes(c, Reached(c)) /\ Ahead(w) = <<>>
    <3>1. /\ ReadSoFar(w, c, Reached(c))
          /\ Len(read[w]) = HeadLength(c, Reached(c)) + Script[c][Reached(c)].body
          /\ request[w] = Script[c][Reached(c)]
      BY <1>1, <1>2, <2>13 DEF Rest, FrameInv, Framed, ReadSoFar
    <3>2. PICK r : r = Reached(c)
      OBVIOUS
    <3>3. r \in 1..Len(Script[c])
      BY <1>1, <1>2, <2>13, <3>1, <3>2, Prefix
    <3>4. r = Len(Script[c])
      BY <1>1, <3>1, <3>2, <3>3, RequestAssumption
    <3>5. StreamFrom(c)[r + 1] = <<>>
      BY <3>4, StreamDefined
    <3>6. read[w] = RequestBytes(c, r) /\ Slice(Ahead(w), <<>>, 0)
      BY <1>1, <1>2, <2>13, <3>1, <3>2, <3>5, RequestRead
    <3>7. Ahead(w) \in Seq(Bytes) /\ Len(Ahead(w)) \in Nat
      BY <1>1, ServedIs
    <3>8. Len(Ahead(w)) = 0
      BY <3>6, <3>7 DEF Slice
    <3> QED
      BY <3>2, <3>6, <3>7, <3>8
  <2>14. c \notin broken' => FramingOf(c)'
    <3> SUFFICES ASSUME c \notin broken
                 PROVE  FramingOf(c)'
      BY <1>1
    <3>1. AllWhole(c) /\ read[w] \in Seq(Bytes)
      BY SMTT(60), <1>1, <1>2, AnswersWhole DEF TypeOK
    <3>2. read[w] \in {HeadBytes(c, Reached(c)), RequestBytes(c, Reached(c))}
      BY <2>13
    <3> QED
      BY <1>1, <2>4, <3>1, <3>2, AnswerKeeps
  <2>15. ASSUME NEW f \in Fds
         PROVE  BufferOf(w, f)'
    <3> SUFFICES ASSUME NEW k \in 1..Len(httpRecvBuffers[w][f]), NEW b, b = httpRecvBuffers[w][f][k]
                 PROVE  b[1] \in broken /\ Spent(b)
      BY SMTT(60), <1>1, <1>4 DEF BufferOf, Spent
    <3>1. (c = b[1] /\ fd[c] = f) \/ (b[1] \in broken /\ Spent(b))
      BY <1>1, <1>2 DEF Rest, BufferInv, BufferOf
    <3>2. ASSUME c = b[1], fd[c] = f
          PROVE  b[1] \in broken /\ Spent(b)
      <4>1. Ahead(w) = httpRecvBuffers[w][f]
        BY <1>2, <3>2 DEF Ahead
      <4>2. AllSpent(w, c)
        BY <1>1, <1>2 DEF Rest, OrderInv, OrderOf
      <4>3. Spent(b)
        BY <3>2, <4>1, <4>2 DEF AllSpent
      <4>4. Ahead(w) # <<>>
        BY <4>1
      <4> QED
        BY <2>13, <3>2, <4>3, <4>4
    <3> QED
      BY <3>1, <3>2
  <2>16. \A d \in Conns \ {c} : /\ net'[d] = net[d] /\ answered'[d] = answered[d]
                                /\ d \in broken' <=> d \in broken
    BY <1>1, <2>4
  <2>17. Rest'
    BY <1>1, <2>9, <2>10, <2>11, <2>12, <2>14, <2>15, <2>16, HandedOver
  <2> QED
    BY <2>5, <2>17 DEF IInv
<1> QED
  BY <1>3, <1>4 DEF Upgrade

LEMMA FreeKeeps ==
    ASSUME IInv, NEW w \in Workers, Free(w)
    PROVE  IInv'
<1>1. /\ pc[w] = "free" /\ TypeOK /\ Rest /\ LinkInv /\ SetAhead(w, <<>>) /\ Goto(w, "idle")
      /\ UNCHANGED <<net, read, request, bodyVars, nbFileKeepAlive, exiting, historyVars>>
      /\ NoConn \notin Conns /\ NoFd \notin Fds
  BY RequestAssumption DEF Free, At, IInv, Rest
<1>2. PICK c \in Conns : c = client[w]
  BY <1>1, ServedAt
<1>3. fd[c] \in Fds /\ conn[c] = "served"
  BY <1>1, <1>2, ServedIs
<1>4. /\ conn' \in [Conns -> {"away", "served", "websocket", "closed"}] /\ conn'[c] = "closed"
      /\ \A d \in Conns \ {c} : conn'[d] = conn[d]
  BY <1>1, <1>2 DEF TypeOK, Free
<1>5. /\ fd' \in [Conns -> Fds \cup {NoFd}] /\ fd'[c] = NoFd
      /\ \A d \in Conns \ {c} : fd'[d] = fd[d]
  BY <1>1, <1>2 DEF TypeOK, Free
<1>6. /\ client' \in [Workers -> Conns \cup {NoConn}] /\ client'[w] = NoConn
      /\ \A v \in Workers \ {w} : client'[v] = client[v]
  BY <1>1 DEF TypeOK, Free
<1>7. /\ pc' \in [Workers -> PCs] /\ pc'[w] = "idle" /\ \A v \in Workers \ {w} : pc'[v] = pc[v]
  BY <1>1 DEF TypeOK, Goto, PCs
<1>8. /\ httpRecvBuffers' \in [Workers -> [Fds -> Seq(Bytes)]] /\ httpRecvBuffers'[w][fd[c]] = <<>>
      /\ \A v \in Workers \ {w} : httpRecvBuffers'[v] = httpRecvBuffers[v]
      /\ \A f \in Fds \ {fd[c]} : httpRecvBuffers'[w][f] = httpRecvBuffers[w][f]
  <2>1. httpRecvBuffers' = [httpRecvBuffers EXCEPT ![w][fd[c]] = <<>>]
    BY <1>1, <1>2 DEF SetAhead
  <2>2. httpRecvBuffers \in [Workers -> [Fds -> Seq(Bytes)]] /\ <<>> \in Seq(Bytes)
    BY <1>1 DEF TypeOK
  <2> QED
    BY <1>3, <2>1, <2>2
<1>9. TypeOK'
  BY SMTT(60), <1>1, <1>4, <1>5, <1>6, <1>7, <1>8 DEF TypeOK, bodyVars, historyVars
<1>10. \A v \in Workers \ {w} : client[v] # c
  BY <1>1, <1>2 DEF LinkInv
<1>11. LinkInv'
  <2>1. \A v \in Workers : pc'[v] = "idle" <=> client'[v] = NoConn
    BY <1>1, <1>6, <1>7 DEF LinkInv
  <2>2. \A v \in Workers : client'[v] # NoConn => conn'[client'[v]] = "served"
    <3> SUFFICES ASSUME NEW v \in Workers, client'[v] # NoConn
                 PROVE  conn'[client'[v]] = "served"
      OBVIOUS
    <3>1. v # w /\ client'[v] = client[v] /\ client[v] \in Conns \ {c}
      BY SMTT(60), <1>1, <1>6, <1>10 DEF TypeOK
    <3> QED
      BY <1>1, <1>4, <3>1 DEF LinkInv
  <2>3. \A u, v \in Workers : client'[u] = client'[v] /\ client'[u] # NoConn => u = v
    BY <1>1, <1>6 DEF LinkInv
  <2>4. \A d \in Conns : conn'[d] \in {"served", "websocket"} <=> fd'[d] # NoFd
    BY <1>1, <1>4, <1>5 DEF LinkInv
  <2>5. \A d, e \in Conns : fd'[d] = fd'[e] /\ fd'[d] # NoFd => d = e
    BY <1>1, <1>5 DEF LinkInv
  <2>6. \A d \in Conns : conn'[d] = "away" => net'[d] = StreamBytes(d) /\ answered'[d] = <<>> /\ d \notin broken'
    BY <1>1, <1>4 DEF LinkInv, historyVars
  <2> QED
    BY <2>1, <2>2, <2>3, <2>4, <2>5, <2>6 DEF LinkInv
<1>12. \A v \in Workers \ {w} : Elsewhere(v, c)
  BY <1>1, <1>5, <1>6, <1>7, <1>8, <1>10 DEF Elsewhere, bodyVars, historyVars
<1>13. CountOf(w)' /\ ~Serving(w)'
  BY <1>1, <1>7 DEF CountOf, Serving, Rest, CountInv, bodyVars
<1>14. NetOf(c)'
  BY <1>1 DEF Rest, NetInv, NetOf
<1>15. c \notin broken' => FramingOf(c)'
  BY <1>1 DEF Rest, FrameInv, FramingOf, historyVars
<1>16. ASSUME NEW f \in Fds
       PROVE  BufferOf(w, f)'
  <2>1. CASE f = fd[c]
    BY <1>8, <2>1 DEF BufferOf
  <2>2. CASE f # fd[c]
    <3>1. httpRecvBuffers'[w][f] = httpRecvBuffers[w][f] /\ broken' = broken
      BY <1>1, <1>8, <2>2 DEF historyVars
    <3>2. \A k \in 1..Len(httpRecvBuffers[w][f]) :
            httpRecvBuffers[w][f][k][1] \in broken /\ Spent(httpRecvBuffers[w][f][k])
      BY <1>1, <1>2, <2>2 DEF Rest, BufferInv, BufferOf
    <3> QED
      BY <3>1, <3>2 DEF BufferOf
  <2> QED
    BY <2>1, <2>2
<1>17. \A d \in Conns \ {c} : /\ net'[d] = net[d] /\ answered'[d] = answered[d]
                              /\ d \in broken' <=> d \in broken
  BY <1>1 DEF historyVars
<1>18. Rest'
  BY <1>1, <1>11, <1>12, <1>13, <1>14, <1>15, <1>16, <1>17, HandedOver
<1> QED
  BY <1>9, <1>18 DEF IInv
LEMMA TakeKeeps ==
    ASSUME IInv, NEW w \in Workers, NEW c \in Conns, Take(w, c)
    PROVE  IInv'
<1>1. /\ pc[w] = "idle" /\ conn[c] = "away" /\ TypeOK /\ Rest /\ LinkInv
      /\ Await(w) /\ UNCHANGED <<ioVars, bodyVars, exiting, answered>>
      /\ NoConn \notin Conns /\ NoFd \notin Fds
  BY RequestAssumption DEF Take, At, IInv, Rest
<1>2. PICK f \in Fds : /\ \A d \in Conns : fd[d] # f
                       /\ fd' = [fd EXCEPT ![c] = f]
                       /\ broken' = IF httpRecvBuffers[w][f] = <<>> THEN broken ELSE broken \cup {c}
  BY DEF Take
<1>3. client[w] = NoConn /\ c \notin broken /\ net[c] = StreamBytes(c) /\ answered[c] = <<>>
  BY <1>1 DEF LinkInv
<1>4. /\ conn' \in [Conns -> {"away", "served", "websocket", "closed"}] /\ conn'[c] = "served"
      /\ \A d \in Conns \ {c} : conn'[d] = conn[d]
  BY <1>1 DEF TypeOK, Take
<1>5. /\ fd' \in [Conns -> Fds \cup {NoFd}] /\ fd'[c] = f
      /\ \A d \in Conns \ {c} : fd'[d] = fd[d]
  BY <1>1, <1>2 DEF TypeOK
<1>6. /\ client' \in [Workers -> Conns \cup {NoConn}] /\ client'[w] = c
      /\ \A v \in Workers \ {w} : client'[v] = client[v]
  BY <1>1 DEF TypeOK, Take
<1>7. /\ pc' \in [Workers -> PCs] /\ pc'[w] = "line" /\ \A v \in Workers \ {w} : pc'[v] = pc[v]
  BY <1>1 DEF TypeOK, Goto, PCs, Await
<1>8. /\ read' \in [Workers -> Seq(Bytes)] /\ read'[w] = <<>>
      /\ \A v \in Workers \ {w} : read'[v] = read[v]
  BY <1>1 DEF TypeOK, Await
<1>9. /\ request' \in [Workers -> Requests \cup {NoRequest}] /\ request'[w] = NoRequest
      /\ \A v \in Workers \ {w} : request'[v] = request[v]
  BY <1>1 DEF TypeOK, Await
<1>10. /\ nbFileKeepAlive' \in [Workers -> 0..KeepAliveMax] /\ nbFileKeepAlive'[w] > 0
       /\ \A v \in Workers \ {w} : nbFileKeepAlive'[v] = nbFileKeepAlive[v]
  <2>1. KeepAliveMax \in 0..KeepAliveMax /\ KeepAliveMax > 0
    BY RequestAssumption
  <2>2. nbFileKeepAlive' = [nbFileKeepAlive EXCEPT ![w] = KeepAliveMax]
    BY DEF Take
  <2> QED
    BY <1>1, <2>1, <2>2 DEF TypeOK
<1>11. broken \subseteq broken' /\ broken' \subseteq Conns /\ \A d \in Conns \ {c} : d \in broken' <=> d \in broken
  BY <1>1, <1>2 DEF TypeOK
<1>12. TypeOK'
  BY <1>1, <1>4, <1>5, <1>6, <1>7, <1>8, <1>9, <1>10, <1>11 DEF TypeOK, bodyVars, ioVars
<1>13. \A v \in Workers : client[v] # c
  BY <1>1 DEF LinkInv
<1>14. LinkInv'
  <2>1. \A v \in Workers : pc'[v] = "idle" <=> client'[v] = NoConn
    BY <1>1, <1>6, <1>7 DEF LinkInv
  <2>2. \A v \in Workers : client'[v] # NoConn => conn'[client'[v]] = "served"
    <3> SUFFICES ASSUME NEW v \in Workers, client'[v] # NoConn
                 PROVE  conn'[client'[v]] = "served"
      OBVIOUS
    <3>1. CASE v = w
      BY <1>4, <1>6, <3>1
    <3>2. CASE v # w
      <4>1. client'[v] = client[v] /\ client[v] \in Conns \ {c}
        BY <1>1, <1>6, <1>13, <3>2 DEF TypeOK
      <4> QED
        BY <1>1, <1>4, <4>1 DEF LinkInv
    <3> QED
      BY <3>1, <3>2
  <2>3. \A u, v \in Workers : client'[u] = client'[v] /\ client'[u] # NoConn => u = v
    BY <1>1, <1>6, <1>13 DEF LinkInv
  <2>4. \A d \in Conns : conn'[d] \in {"served", "websocket"} <=> fd'[d] # NoFd
    BY <1>1, <1>2, <1>4, <1>5 DEF LinkInv
  <2>5. \A d, e \in Conns : fd'[d] = fd'[e] /\ fd'[d] # NoFd => d = e
    BY <1>1, <1>2, <1>5 DEF LinkInv
  <2>6. \A d \in Conns : conn'[d] = "away" => net'[d] = StreamBytes(d) /\ answered'[d] = <<>> /\ d \notin broken'
    BY <1>1, <1>4, <1>11 DEF LinkInv, ioVars
  <2> QED
    BY <2>1, <2>2, <2>3, <2>4, <2>5, <2>6 DEF LinkInv
<1>15. \A v \in Workers \ {w} : Elsewhere(v, c)
  BY <1>1, <1>5, <1>6, <1>7, <1>8, <1>9, <1>10, <1>11, <1>13 DEF Elsewhere, bodyVars, ioVars
<1>16. CountOf(w)'
  BY <1>1, <1>7, <1>10 DEF CountOf, Serving, Rest, CountInv, bodyVars
<1>17. NetOf(c)'
  BY <1>1 DEF Rest, NetInv, NetOf, ioVars
\* What the worker still holds was left by handshakes, of other connections.
<1>18. \A g \in Fds : \A k \in 1..Len(httpRecvBuffers[w][g]) :
         /\ httpRecvBuffers[w][g][k][1] \in broken /\ Spent(httpRecvBuffers[w][g][k])
         /\ httpRecvBuffers[w][g][k][1] # c
  <2> SUFFICES ASSUME NEW g \in Fds, NEW k \in 1..Len(httpRecvBuffers[w][g])
               PROVE  /\ httpRecvBuffers[w][g][k][1] \in broken /\ Spent(httpRecvBuffers[w][g][k])
                      /\ httpRecvBuffers[w][g][k][1] # c
    OBVIOUS
  <2>1. PICK b : b = httpRecvBuffers[w][g][k]
    OBVIOUS
  <2>2. b \in Bytes
    BY <1>1, <2>1 DEF TypeOK
  <2>3. b[1] \in Conns
    BY <2>2 DEF Bytes
  <2>4. client[w] # b[1]
    BY <1>1, <1>3, <2>3
  <2>5. b[1] \in broken /\ Spent(b)
    BY <1>1, <2>1, <2>4 DEF Rest, BufferInv, BufferOf
  <2> QED
    BY <1>3, <2>1, <2>5
<1>19. ASSUME NEW g \in Fds
       PROVE  BufferOf(w, g)'
  BY <1>1, <1>11, <1>18 DEF BufferOf, ioVars
<1>20. Ahead(w)' = httpRecvBuffers[w][f] /\ net' = net
  BY <1>1, <1>5, <1>6 DEF Ahead, ioVars
<1>21. OrderOf(w, client[w])'
  <2>1. OrderOf(w, c)'
    BY <1>9, <1>18, <1>20 DEF OrderOf, Pairs, NoRequest
  <2> QED
    BY <1>6, <2>1
<1>22. ASSUME c \notin broken'
       PROVE  Framed(w, c)' /\ FramingOf(c)'
  <2>1. httpRecvBuffers[w][f] = <<>>
    BY <1>2, <1>22
  <2>2. answered'[c] = <<>> /\ Reached(c)' = 1 /\ AllWhole(c)' /\ FramingOf(c)'
    BY <1>1, <1>3 DEF Reached, AllWhole, FramingOf
  <2>3. PICK t : t = StreamFrom(c)[1]
    OBVIOUS
  <2>4. 1 \in 1..(Len(Script[c]) + 1) /\ 1 <= Len(Script[c]) + 1
    <3>1. Len(Script[c]) \in Nat
      BY ScriptTyped
    <3> QED
      BY <3>1
  <2>5. t \in Seq(Bytes) /\ net'[c] = t
    BY <1>3, <1>20, <2>3, <2>4, StreamTyped DEF StreamBytes
  <2>6. Slice(<<>>, t, 0) /\ Slice(t, t, 0)
    <3>1. Len(t) \in Nat
      BY <2>5
    <3> QED
      BY <3>1 DEF Slice
  <2>7. Slices(w, c, t)'
    BY <1>8, <1>20, <2>1, <2>5, <2>6 DEF Slices
  <2> QED
    BY <1>7, <1>8, <2>2, <2>3, <2>4, <2>7 DEF Framed
<1>23. Serving(w)' /\ client'[w] \notin broken' => Framed(w, client[w])'
  BY <1>6, <1>22
<1>24. \A d \in Conns \ {c} : /\ net'[d] = net[d] /\ answered'[d] = answered[d]
                              /\ d \in broken' <=> d \in broken
  BY <1>1, <1>11, <1>20
<1>25. Rest'
  BY <1>1, <1>14, <1>15, <1>16, <1>17, <1>19, <1>21, <1>22, <1>23, <1>24, HandedOver
<1> QED
  BY <1>12, <1>25 DEF IInv

LEMMA WebSocketEndsKeeps ==
    ASSUME IInv, NEW c \in Conns, WebSocketEnds(c)
    PROVE  IInv'
<1>1. /\ conn[c] = "websocket" /\ TypeOK /\ Rest /\ LinkInv
      /\ UNCHANGED <<ioVars, localVars, pc, exiting, historyVars>>
      /\ NoConn \notin Conns /\ NoFd \notin Fds
  BY RequestAssumption DEF WebSocketEnds, IInv, Rest
<1>2. /\ conn' \in [Conns -> {"away", "served", "websocket", "closed"}] /\ conn'[c] = "closed"
      /\ \A d \in Conns \ {c} : conn'[d] = conn[d]
  BY <1>1 DEF TypeOK, WebSocketEnds
<1>3. /\ fd' \in [Conns -> Fds \cup {NoFd}] /\ fd'[c] = NoFd
      /\ \A d \in Conns \ {c} : fd'[d] = fd[d]
  BY <1>1 DEF TypeOK, WebSocketEnds
<1>4. TypeOK'
  BY <1>1, <1>2, <1>3 DEF TypeOK, ioVars, localVars, bodyVars, historyVars
<1>5. \A v \in Workers : client[v] # c
  BY <1>1 DEF LinkInv
<1>6. \A v \in Workers : Elsewhere(v, c)
  BY <1>1, <1>3, <1>5 DEF Elsewhere, ioVars, localVars, bodyVars, historyVars
<1>7. LinkInv'
  <2>1. \A v \in Workers : client'[v] # NoConn => conn'[client'[v]] = "served"
    <3> SUFFICES ASSUME NEW v \in Workers, client'[v] # NoConn
                 PROVE  conn'[client'[v]] = "served"
      OBVIOUS
    <3>1. client'[v] = client[v] /\ client[v] \in Conns \ {c}
      BY <1>1, <1>5 DEF TypeOK, localVars
    <3> QED
      BY <1>1, <1>2, <3>1 DEF LinkInv
  <2>2. \A d \in Conns : conn'[d] \in {"served", "websocket"} <=> fd'[d] # NoFd
    BY <1>1, <1>2, <1>3 DEF LinkInv
  <2>3. \A d, e \in Conns : fd'[d] = fd'[e] /\ fd'[d] # NoFd => d = e
    BY <1>1, <1>3 DEF LinkInv
  <2>4. \A d \in Conns : conn'[d] = "away" => net'[d] = StreamBytes(d) /\ answered'[d] = <<>> /\ d \notin broken'
    BY <1>1, <1>2 DEF LinkInv, ioVars, historyVars
  <2> QED
    BY <1>1, <2>1, <2>2, <2>3, <2>4 DEF LinkInv, localVars
<1>8. CountInv' /\ BufferInv' /\ OrderInv'
  BY <1>1, <1>6, ElsewhereKeeps DEF CountInv, BufferInv, OrderInv
<1>9. NetInv'
  BY <1>1 DEF Rest, NetInv, NetOf, ioVars
<1>10. FrameInv'
  <2>1. \A v \in Workers : Serving(v)' /\ client'[v] \notin broken' => Framed(v, client[v])'
    BY <1>1, <1>6, ElsewhereKeeps
  <2>2. \A d \in Conns \ broken' : FramingOf(d)'
    BY <1>1 DEF Rest, FrameInv, FramingOf, historyVars
  <2> QED
    BY <2>1, <2>2 DEF FrameInv
<1> QED
  BY <1>4, <1>7, <1>8, <1>9, <1>10 DEF IInv, Rest

LEMMA SilenceKeeps ==
    ASSUME IInv, NEW c \in Conns, Silence(c)
    PROVE  IInv'
<1>1. /\ conn[c] = "served" /\ TypeOK /\ Rest /\ LinkInv
      /\ UNCHANGED <<connVars, httpRecvBuffers, localVars, pc, exiting, historyVars>>
  BY DEF Silence, IInv, Rest
<1>2. /\ net' \in [Conns -> Seq(Bytes)] /\ net'[c] = <<>>
      /\ \A d \in Conns \ {c} : net'[d] = net[d]
  BY <1>1 DEF TypeOK, Silence
<1>3. TypeOK'
  BY <1>1, <1>2 DEF TypeOK, connVars, localVars, bodyVars, historyVars
<1>4. LinkInv'
  BY <1>1, <1>2 DEF LinkInv, connVars, localVars, historyVars
<1>5. CountInv'
  BY <1>1 DEF Rest, CountInv, CountOf, Serving, RequestedLength, Ahead, connVars, localVars, bodyVars
<1>6. NetInv'
  BY <1>1, <1>2 DEF Rest, NetInv, NetOf
<1>7. BufferInv'
  BY <1>1 DEF Rest, BufferInv, BufferOf, connVars, localVars, historyVars
<1>8. \A v \in Workers : /\ Serving(v)' = Serving(v) /\ Ahead(v)' = Ahead(v) /\ client'[v] = client[v]
                         /\ read'[v] = read[v] /\ request'[v] = request[v] /\ pc'[v] = pc[v]
                         /\ left'[v] = left[v] /\ copied'[v] = copied[v]
  BY <1>1 DEF Serving, Ahead, connVars, localVars, bodyVars
<1>9. ASSUME NEW v \in Workers, Serving(v)
      PROVE  /\ OrderOf(v, client[v])'
             /\ client'[v] \notin broken' => Framed(v, client[v])'
  <2>1. PICK d \in Conns : d = client[v]
    BY <1>9, ServedAt DEF Serving
  <2>2. net'[d] = net[d] \/ net'[d] = <<>>
    BY <1>2
  <2>3. OrderOf(v, d)
    BY <1>1, <1>9, <2>1 DEF Rest, OrderInv
  <2>4. OrderOf(v, d)'
    BY <1>8, <2>2, <2>3 DEF OrderOf, Pairs, AllSpent
  <2>5. ASSUME d \notin broken'
        PROVE  Framed(v, d)'
    <3>1. Framed(v, d)
      BY <1>1, <1>9, <2>1, <2>5 DEF Rest, FrameInv, historyVars
    <3>2. answered'[d] = answered[d] /\ Reached(d)' = Reached(d) /\ AllWhole(d)'
      BY <1>1, <3>1 DEF Reached, AllWhole, Framed, historyVars
    <3>3. PICK t : t = StreamFrom(d)[Reached(d)]
      OBVIOUS
    <3>4. Reached(d) \in 1..(Len(Script[d]) + 1)
      <4>1. answered[d] \in Seq(Seq(Bytes))
        BY <1>1 DEF TypeOK
      <4>2. Len(answered[d]) \in Nat /\ Len(Script[d]) \in Nat
        BY <4>1, ScriptTyped
      <4> QED
        BY <3>1, <4>2 DEF Framed, Reached
    <3>5. t \in Seq(Bytes)
      BY <3>3, <3>4, StreamTyped
    <3>6. Slice(net'[d], t, Len(read[v]) + Len(Ahead(v)))
      <4>1. Slice(net[d], t, Len(read[v]) + Len(Ahead(v)))
        BY <3>1, <3>3 DEF Framed, Slices
      <4>2. Len(read[v]) + Len(Ahead(v)) + Len(net[d]) <= Len(t)
        BY <4>1 DEF Slice
      <4>3. Len(read[v]) \in Nat /\ Len(Ahead(v)) \in Nat /\ Len(net[d]) \in Nat /\ Len(t) \in Nat
        BY <1>1, <1>9, <2>1, <3>5, ServedIs DEF Serving
      <4>4. Slice(<<>>, t, Len(read[v]) + Len(Ahead(v)))
        <5>1. PICK i, j, k, m \in Nat : /\ i = Len(read[v]) /\ j = Len(Ahead(v))
                                        /\ k = Len(net[d]) /\ m = Len(t)
          BY <4>3
        <5>2. i + j + 0 <= m
          <6>1. i + j + k <= m
            BY <4>2, <5>1
          <6> QED
            BY <6>1
        <5>3. Len(<<>>) = 0 /\ \A l : l \notin 1..0
          OBVIOUS
        <5> QED
          BY <5>1, <5>2, <5>3 DEF Slice
      <4> QED
        BY <2>2, <4>1, <4>4
    <3>7. Slices(v, d, t)'
      BY <1>8, <3>1, <3>3, <3>6 DEF Framed, Slices
    <3>8. ReadSoFar(v, d, Reached(d))' \/ (pc'[v] = "line" /\ read'[v] = <<>>)
      BY <1>8, <3>1, <3>2 DEF Framed, ReadSoFar
    <3>9. t = StreamFrom(d)[Reached(d)'] /\ Reached(d)' <= Len(Script[d]) + 1
      BY <3>1, <3>2, <3>3 DEF Framed
    <3> QED
      BY <3>2, <3>7, <3>8, <3>9 DEF Framed
  <2> QED
    BY <1>8, <2>1, <2>4, <2>5
<1>10. OrderInv'
  BY <1>8, <1>9 DEF OrderInv
<1>11. FrameInv'
  <2>1. \A d \in Conns \ broken' : FramingOf(d)'
    BY <1>1 DEF Rest, FrameInv, FramingOf, historyVars
  <2> QED
    BY <1>8, <1>9, <2>1 DEF FrameInv
<1> QED
  BY <1>3, <1>4, <1>5, <1>6, <1>7, <1>10, <1>11 DEF IInv, Rest
LEMMA ExitKeeps ==
    ASSUME IInv, Exit \/ UNCHANGED vars
    PROVE  IInv'
<1>1. /\ UNCHANGED <<connVars, ioVars, localVars, pc, historyVars>> /\ exiting' \in BOOLEAN
      /\ TypeOK /\ Rest
  BY DEF Exit, vars, IInv, TypeOK
<1>2. TypeOK'
  BY <1>1 DEF TypeOK, connVars, ioVars, localVars, bodyVars, historyVars
<1>3. LinkInv' /\ NetInv' /\ BufferInv'
  BY <1>1 DEF Rest, LinkInv, NetInv, NetOf, BufferInv, BufferOf, connVars, ioVars, localVars, historyVars
<1>4. CountInv'
  BY <1>1 DEF Rest, CountInv, CountOf, Serving, RequestedLength, Ahead, connVars, ioVars, localVars, bodyVars
<1>5. \A v \in Workers : Serving(v)' = Serving(v) /\ Ahead(v)' = Ahead(v) /\ client'[v] = client[v]
  BY <1>1 DEF Serving, Ahead, connVars, ioVars, localVars
<1>6. OrderInv'
  BY <1>1, <1>5 DEF Rest, OrderInv, OrderOf, Pairs, AllSpent, ioVars, localVars
<1>7. ASSUME NEW v \in Workers, Serving(v), client[v] \notin broken
      PROVE  Framed(v, client[v])'
  <2>1. PICK d : d = client[v]
    OBVIOUS
  <2>2. Framed(v, d)
    BY <1>1, <1>7, <2>1 DEF Rest, FrameInv
  <2>3. Framed(v, d)'
    BY <1>1, <1>5, <2>2 DEF Framed, Reached, AllWhole, Slices, ReadSoFar, ioVars, localVars, bodyVars, historyVars
  <2> QED
    BY <1>5, <2>1, <2>3
<1>8. FrameInv'
  <2>1. broken' = broken /\ \A d \in Conns \ broken : FramingOf(d)'
    BY <1>1 DEF Rest, FrameInv, FramingOf, historyVars
  <2> QED
    BY <1>5, <1>7, <2>1 DEF FrameInv
<1> QED
  BY <1>2, <1>3, <1>4, <1>6, <1>8 DEF IInv, Rest

(***************************************************************************)
(* The theorems                                                            *)
(***************************************************************************)
LEMMA Initially ==
    ASSUME Init
    PROVE  IInv
<1>1. \A c \in Conns : StreamBytes(c) \in Seq(Bytes) /\ Ordered(c, StreamBytes(c), 1)
  <2> SUFFICES ASSUME NEW c \in Conns
               PROVE  StreamBytes(c) \in Seq(Bytes) /\ Ordered(c, StreamBytes(c), 1)
    OBVIOUS
  <2>1. Len(Script[c]) \in Nat
    BY ScriptTyped
  <2>2. 1 \in 1..(Len(Script[c]) + 1)
    BY <2>1
  <2> QED
    BY <2>2, StreamTyped DEF StreamBytes
<1>2. \A c \in Conns : conn[c] = "away" /\ fd[c] = NoFd /\ net[c] = StreamBytes(c) /\ answered[c] = <<>>
  BY DEF Init
<1>3. \A w \in Workers : /\ pc[w] = "idle" /\ client[w] = NoConn /\ left[w] = 0 /\ copied[w] = 0
                         /\ \A f \in Fds : httpRecvBuffers[w][f] = <<>>
  BY DEF Init
<1>4. TypeOK
  <2>1. net \in [Conns -> Seq(Bytes)] /\ answered \in [Conns -> Seq(Seq(Bytes))]
    BY <1>1 DEF Init
  <2>2. httpRecvBuffers \in [Workers -> [Fds -> Seq(Bytes)]] /\ read \in [Workers -> Seq(Bytes)]
    BY DEF Init
  <2>3. copied \in [Workers -> 0..PartMax] /\ nbFileKeepAlive \in [Workers -> 0..KeepAliveMax]
    <3>1. 0 \in 0..PartMax /\ KeepAliveMax \in 0..KeepAliveMax
      BY RequestAssumption
    <3> QED
      BY <3>1 DEF Init
  <2> QED
    BY <2>1, <2>2, <2>3 DEF Init, TypeOK, PCs
<1>5. LinkInv
  BY <1>2, <1>3 DEF LinkInv, Init
<1>6. \A w \in Workers : ~Serving(w)
  BY <1>3 DEF Serving
<1>7. CountInv
  BY <1>3, <1>6 DEF CountInv, CountOf
<1>8. NetInv
  BY <1>1, <1>2 DEF NetInv, NetOf, Ordered
<1>9. BufferInv
  BY <1>3 DEF BufferInv, BufferOf
<1>10. OrderInv /\ FrameInv
  BY <1>2, <1>6 DEF OrderInv, FrameInv, FramingOf
<1> QED
  BY <1>4, <1>5, <1>7, <1>8, <1>9, <1>10 DEF IInv, Rest

LEMMA Stepwise ==
    ASSUME IInv, [Next]_vars
    PROVE  IInv'
<1>1. ASSUME NEW w \in Workers, WorkerStep(w)
      PROVE  IInv'
  BY <1>1, ReceiveKeeps, ReadLineKeeps, ReceiveFailsKeeps, RejectKeeps, PlaintextKeeps,
     StartBodyKeeps, BodyAheadKeeps, BodyReceiveKeeps, BodyPartKeeps, BodyFailsKeeps,
     PageKeeps, UpgradeKeeps, FreeKeeps DEF WorkerStep
<1>2. ASSUME NEW w \in Workers, NEW c \in Conns, Take(w, c)
      PROVE  IInv'
  BY <1>2, TakeKeeps
<1>3. ASSUME NEW c \in Conns, WebSocketEnds(c) \/ Silence(c)
      PROVE  IInv'
  BY <1>3, WebSocketEndsKeeps, SilenceKeeps
<1>4. CASE Exit \/ UNCHANGED vars
  BY <1>4, ExitKeeps
<1> QED
  BY <1>1, <1>2, <1>3, <1>4 DEF Next

LEMMA Inductive == Spec => []IInv
<1>1. Init => IInv
  BY Initially
<1>2. IInv /\ [Next]_vars => IInv'
  BY Stepwise
<1> QED
  BY <1>1, <1>2, PTL DEF Spec

\* accept_request(): a worker, its buffers and its counters stay in their
\* types: among others, recvBytes() never copies more than its caller's buffer
\* holds, and the count of the requests left to a connection never goes below 0.
THEOREM TypesKept == Spec => []TypeOK
<1>1. IInv => TypeOK
  BY DEF IInv
<1> QED
  BY <1>1, Inductive, PTL

\* recvLine(), recvBytes() and the loop of accept_request(): however recv()
\* cuts what a client sends, whatever the sizes of the buffers, and whoever used
\* the worker or the descriptor before, the k-th answer on a connection is made
\* from the bytes of its k-th request, or of its head when it is the last; unless
\* the connection has lost its framing, in one of the ways the model names.
THEOREM RequestsFramed == Spec => []Framing
<1>1. IInv => Framing
  BY SMTT(60) DEF IInv, Rest, FrameInv, FramingOf, Framing
<1> QED
  BY <1>1, Inductive, PTL

\* clearRecvBuffer(): what a worker has read ahead on a descriptor is of the
\* connection that it serves on it, for any number of workers and descriptors;
\* or of a connection that had lost its framing before an upgrade.
THEOREM BuffersOwned == Spec => []ReadAheadOwned
<1>1. IInv => ReadAheadOwned
  BY DEF IInv, Rest, BufferInv, BufferOf, Spent, ReadAheadOwned
<1> QED
  BY <1>1, Inductive, PTL
=============================================================================
