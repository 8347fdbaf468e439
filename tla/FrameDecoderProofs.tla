-------------------------- MODULE FrameDecoderProofs --------------------------
(***************************************************************************)
(* The frames of FrameDecoder, for any frames, cuts of the stream, buffers *)
(* and answers of the application: the callbacks are those of RFC 6455,    *)
(* the answers are frames, and no byte of a frame is taken for another's.  *)
(***************************************************************************)
EXTENDS FrameDecoder, SequenceTheorems, WellFoundedInduction, TLAPS

(***************************************************************************)
(* Numbers                                                                 *)
(***************************************************************************)
\* Every set of numbers but the empty one has a smallest.
LEMMA Smallest ==
    ASSUME NEW S \in SUBSET Nat, S # {}
    PROVE  \E n \in S : \A m \in S : n <= m
<1> DEFINE R == OpToRel(<, Nat)
<1>1. IsWellFoundedOn(R, Nat)
  BY Zenon, NatLessThanWellFounded
<1>2. \A x, y \in Nat : y < x => <<y, x>> \in R
  BY DEF OpToRel
<1> HIDE DEF R
<1>3. PICK x \in S : \A y \in S : ~(<<y, x>> \in R)
  BY <1>1, WFMin
<1>4. x \in Nat /\ \A y \in S : y \in Nat /\ ~(y < x)
  BY <1>2, <1>3
<1> QED
  BY <1>4

\* What holds of 0, and of n + 1 when it holds of n, holds up to any number.
LEMMA Induction ==
    ASSUME NEW N \in Nat, NEW P \in SUBSET Nat, 0 \in P,
           \A n \in Nat : n \in P /\ n < N => n + 1 \in P
    PROVE  \A n \in 0..N : n \in P
<1> DEFINE F == {n \in 0..N : n \notin P}
<1> SUFFICES ASSUME F # {}
             PROVE  FALSE
  OBVIOUS
<1>1. PICK n \in F : \A m \in F : n <= m
  <2>1. F \in SUBSET Nat
    OBVIOUS
  <2> HIDE DEF F
  <2> QED
    BY <2>1, Smallest
<1>2. n \in Nat /\ n # 0 /\ n <= N /\ n - 1 \in 0..N /\ n - 1 \notin F
  BY <1>1
<1>3. n - 1 \in P /\ n - 1 < N /\ n - 1 \in Nat
  BY <1>2
<1>4. (n - 1) + 1 \in P
  BY <1>3
<1> QED
  BY <1>1, <1>2, <1>4

\* A number without its last octet, that octet, and a value with one octet more.
Upper(n) == n \div 256
Lower(n) == n % 256
More(x, y) == Lesser(Huge, 256 * x + y)

\* An octet is the sum of its bits, and has the bits it is the sum of.
LEMMA BitTyped == \A x \in Bytes, w \in {1, 2, 4, 8, 16, 32, 64, 128} : Bit(x, w) \in {0, 1}
BY DEF Bit, Bytes

LEMMA BitsOf ==
    ASSUME NEW x \in Bytes
    PROVE  x = Bit(x, 1) + 2 * Bit(x, 2) + 4 * Bit(x, 4) + 8 * Bit(x, 8)
                 + 16 * Bit(x, 16) + 32 * Bit(x, 32) + 64 * Bit(x, 64) + 128 * Bit(x, 128)
BY SMTT(60) DEF Bit, Bytes

LEMMA SumOfBits ==
    ASSUME NEW a \in {0, 1}, NEW b \in {0, 1}, NEW c \in {0, 1}, NEW d \in {0, 1},
           NEW e \in {0, 1}, NEW f \in {0, 1}, NEW g \in {0, 1}, NEW h \in {0, 1}, NEW x,
           x = a + 2 * b + 4 * c + 8 * d + 16 * e + 32 * f + 64 * g + 128 * h
    PROVE  /\ x \in Bytes
           /\ Bit(x, 1) = a /\ Bit(x, 2) = b /\ Bit(x, 4) = c /\ Bit(x, 8) = d
           /\ Bit(x, 16) = e /\ Bit(x, 32) = f /\ Bit(x, 64) = g /\ Bit(x, 128) = h
<1>1. x \in Bytes
  BY DEF Bytes
<1>2. Bit(x, 1) = a
  BY SMTT(60) DEF Bit
<1>3. Bit(x, 2) = b
  BY SMTT(60) DEF Bit
<1>4. Bit(x, 4) = c
  BY SMTT(60) DEF Bit
<1>5. Bit(x, 8) = d
  BY SMTT(60) DEF Bit
<1>6. Bit(x, 16) = e
  BY SMTT(60) DEF Bit
<1>7. Bit(x, 32) = f
  BY SMTT(60) DEF Bit
<1>8. Bit(x, 64) = g
  BY SMTT(60) DEF Bit
<1>9. Bit(x, 128) = h
  BY SMTT(60) DEF Bit
<1> QED
  BY <1>1, <1>2, <1>3, <1>4, <1>5, <1>6, <1>7, <1>8, <1>9

\* To mask an octet twice is to leave it.
LEMMA XorTwice ==
    ASSUME NEW x \in Bytes, NEW y \in Bytes
    PROVE  XorByte(x, y) \in Bytes /\ XorByte(XorByte(x, y), y) = x
<1> DEFINE z == XorByte(x, y)
           sum(w) == (Bit(x, w) + Bit(y, w)) % 2
           W == {1, 2, 4, 8, 16, 32, 64, 128}
<1>1. \A w \in W : Bit(x, w) \in {0, 1} /\ Bit(y, w) \in {0, 1}
  BY BitTyped
<1>2. \A w \in W : sum(w) \in {0, 1} /\ (sum(w) + Bit(y, w)) % 2 = Bit(x, w)
  <2>1. \A p, q \in {0, 1} : (p + q) % 2 \in {0, 1} /\ (((p + q) % 2) + q) % 2 = p
    OBVIOUS
  <2> QED
    BY <1>1, <2>1
<1>3. /\ sum(1) \in {0, 1} /\ sum(2) \in {0, 1} /\ sum(4) \in {0, 1} /\ sum(8) \in {0, 1}
      /\ sum(16) \in {0, 1} /\ sum(32) \in {0, 1} /\ sum(64) \in {0, 1} /\ sum(128) \in {0, 1}
  BY <1>2
<1>4. z = sum(1) + 2 * sum(2) + 4 * sum(4) + 8 * sum(8)
            + 16 * sum(16) + 32 * sum(32) + 64 * sum(64) + 128 * sum(128)
  BY DEF XorByte
<1> HIDE DEF z, sum
<1>5. /\ z \in Bytes
      /\ Bit(z, 1) = sum(1) /\ Bit(z, 2) = sum(2) /\ Bit(z, 4) = sum(4) /\ Bit(z, 8) = sum(8)
      /\ Bit(z, 16) = sum(16) /\ Bit(z, 32) = sum(32) /\ Bit(z, 64) = sum(64) /\ Bit(z, 128) = sum(128)
  BY <1>3, <1>4, SumOfBits
<1>6. \A w \in W : (Bit(z, w) + Bit(y, w)) % 2 = Bit(x, w)
  BY <1>2, <1>5
<1>7. XorByte(z, y) = Bit(x, 1) + 2 * Bit(x, 2) + 4 * Bit(x, 4) + 8 * Bit(x, 8)
                 + 16 * Bit(x, 16) + 32 * Bit(x, 32) + 64 * Bit(x, 64) + 128 * Bit(x, 128)
  BY <1>6 DEF XorByte
<1> QED
  BY <1>5, <1>7, BitsOf DEF z

(***************************************************************************)
(* The inductive invariant                                                 *)
(***************************************************************************)
\* What s has after its first n elements.
Beyond(s, n) == SubSeq(s, n + 1, Len(s))

\* What the decoder has still to read, and the frames from the k-th on.
Rest == bufferRecv \o net
FramesFrom(k) == WireFrom(frames)[k]
MaskBit(f) == IF f.key = Null THEN 0 ELSE 128
FirstOctet(f) == (IF f.fin THEN 128 ELSE 0) + f.opcode
LengthOf(f) == LengthBytes(f.form, Len(f.content), MaskBit(f))

\* The octets of a frame after its first, of its length after the second, and
\* after its length.
KeyAndContent(f) ==
    IF f.key = Null THEN f.content ELSE f.key \o Masked(f.content, f.key, 0)
Octets(f) == IF f.form = "16" THEN Two(Len(f.content)) ELSE Eight(Len(f.content))

AtFirstByte(k) == step = "FIRSTBYTE" /\ Rest = FramesFrom(k + 1)

\* Within frame k + 1.
AtLength(f, w) ==
    /\ step = "LENGTH" /\ msgLength = 0
    /\ Rest = LengthOf(f) \o (KeyAndContent(f) \o w)
AtOctets(f, w) ==
    /\ step = "LENGTH" /\ f.key # Null
    /\ \/ f.form = "16" /\ msgLength = 126
       \/ f.form = "64" /\ msgLength = 127
    /\ Rest = Octets(f) \o (KeyAndContent(f) \o w)
AtMask(f, w) ==
    /\ step = "MASK" /\ f.key # Null /\ msgContent = <<>> /\ msgLength = Len(f.content)
    /\ Rest = KeyAndContent(f) \o w
AtContent(f, w) ==
    /\ step = "CONTENT" /\ f.key # Null /\ msgKeys = f.key
    /\ msgContent # Null /\ msgLength = Len(f.content)
    /\ msgContent = SubSeq(f.content, 1, Len(msgContent))
    /\ Rest = Beyond(Masked(f.content, f.key, 0), Len(msgContent)) \o w

InFrame(f, w) ==
    /\ fin = f.fin /\ opcode = f.opcode
    /\ AtLength(f, w) \/ AtOctets(f, w) \/ AtMask(f, w) \/ AtContent(f, w)
Within(k) == k < Trusted /\ InFrame(frames[k + 1], FramesFrom(k + 2))

\* What the decoder remembers is what the frames before amount to.
Remembered(k) ==
    /\ ~Meaning(k).over
    /\ fragmentedOpcode = Meaning(k).pending /\ fragmentedPayload = Meaning(k).payload

Heard(k) == calls = Meaning(k).calls /\ out = Meaning(k).out

Standing(k) == Heard(k) /\ (ended \/ (Remembered(k) /\ (AtFirstByte(k) \/ Within(k))))

\* A frame was reached that the decoder does not follow.
Lost == Faults # {} /\ IsPrefix(Promised.calls, calls) /\ IsPrefix(Promised.out, out)

PlaceInv == Lost \/ \E k \in 0..Trusted : Standing(k)

IInv == TypeOK /\ PlaceInv

(***************************************************************************)
(* Sequences that are joined and cut                                       *)
(***************************************************************************)
LEMMA Joining ==
    ASSUME NEW B, NEW s \in Seq(B), NEW t \in Seq(B)
    PROVE  /\ s \o t \in Seq(B) /\ Len(s \o t) = Len(s) + Len(t) /\ Len(s) \in Nat /\ Len(t) \in Nat
           /\ \A k \in 1..Len(s) : (s \o t)[k] = s[k]
           /\ \A k \in 1..Len(t) : (s \o t)[Len(s) + k] = t[k]
OBVIOUS

LEMMA Cutting ==
    ASSUME NEW B, NEW s \in Seq(B), NEW n \in 0..Len(s)
    PROVE  /\ SubSeq(s, 1, n) \in Seq(B) /\ Len(SubSeq(s, 1, n)) = n
           /\ \A k \in 1..n : SubSeq(s, 1, n)[k] = s[k]
           /\ Beyond(s, n) \in Seq(B) /\ Len(Beyond(s, n)) = Len(s) - n
           /\ \A k \in 1..(Len(s) - n) : Beyond(s, n)[k] = s[n + k]
BY DEF Beyond

LEMMA Equal ==
    ASSUME NEW B, NEW s \in Seq(B), NEW t \in Seq(B), Len(s) = Len(t),
           \A k \in 1..Len(s) : s[k] = t[k]
    PROVE  s = t
OBVIOUS

LEMMA Regroup ==
    ASSUME NEW B, NEW s \in Seq(B), NEW t \in Seq(B), NEW u \in Seq(B)
    PROVE  (s \o t) \o u = s \o (t \o u)
BY SMTT(60), ConcatAssociative

LEMMA EmptyJoin ==
    ASSUME NEW B, NEW s \in Seq(B)
    PROVE  s \o <<>> = s /\ <<>> \o s = s /\ <<>> \in Seq(B)
BY ConcatEmptySeq

\* What a sequence is made of.
LEMMA TakeBeyond ==
    ASSUME NEW B, NEW s \in Seq(B), NEW n \in 0..Len(s)
    PROVE  SubSeq(s, 1, n) \o Beyond(s, n) = s
<1> DEFINE a == SubSeq(s, 1, n)
           b == Beyond(s, n)
<1>1. /\ a \in Seq(B) /\ b \in Seq(B) /\ Len(a) = n /\ Len(b) = Len(s) - n
      /\ \A k \in 1..n : a[k] = s[k]
      /\ \A k \in 1..(Len(s) - n) : b[k] = s[n + k]
  BY ZenonT(60), Cutting
<1> HIDE DEF a, b
<1>2. a \o b \in Seq(B) /\ Len(a \o b) = Len(s)
  <2>1. a \o b \in Seq(B) /\ Len(a \o b) = Len(a) + Len(b)
    BY <1>1, Joining
  <2> QED
    BY <1>1, <2>1
<1>3. ASSUME NEW k \in 1..Len(a \o b)
      PROVE  (a \o b)[k] = s[k]
  <2>1. CASE k <= n
    BY <1>1, <1>2, <2>1, Joining
  <2>2. CASE k > n
    <3>1. k - n \in 1..Len(b) /\ n + (k - n) = k
      BY <1>1, <1>2, <2>2
    <3>2. (a \o b)[Len(a) + (k - n)] = b[k - n]
      BY <1>1, <3>1, Joining
    <3> QED
      BY <1>1, <3>1, <3>2
  <2> QED
    BY <1>2, <2>1, <2>2
<1>4. a \o b = s
  BY <1>2, <1>3, Equal
<1> QED
  BY <1>4 DEF a, b

\* The first of two may be cut, and the second is left.
LEMMA BeyondFirst ==
    ASSUME NEW B, NEW s \in Seq(B), NEW t \in Seq(B), NEW n \in 0..Len(s)
    PROVE  Beyond(s \o t, n) = Beyond(s, n) \o t
<1> DEFINE w == s \o t
           a == Beyond(w, n)
           b == Beyond(s, n)
<1>1. /\ w \in Seq(B) /\ Len(w) = Len(s) + Len(t) /\ Len(s) \in Nat /\ Len(t) \in Nat
      /\ \A k \in 1..Len(s) : w[k] = s[k]
      /\ \A k \in 1..Len(t) : w[Len(s) + k] = t[k]
  BY Joining
<1> HIDE DEF w
<1>2. n \in 0..Len(w)
  BY <1>1
<1>3. a \in Seq(B) /\ Len(a) = Len(w) - n /\ \A k \in 1..(Len(w) - n) : a[k] = w[n + k]
  BY ZenonT(60), <1>1, <1>2, Cutting
<1>4. b \in Seq(B) /\ Len(b) = Len(s) - n /\ \A k \in 1..(Len(s) - n) : b[k] = s[n + k]
  BY ZenonT(60), Cutting
<1> HIDE DEF a, b
<1>5. /\ b \o t \in Seq(B) /\ Len(b \o t) = Len(b) + Len(t)
      /\ \A k \in 1..Len(b) : (b \o t)[k] = b[k]
      /\ \A k \in 1..Len(t) : (b \o t)[Len(b) + k] = t[k]
  <2>1. b \in Seq(B) /\ t \in Seq(B)
    BY <1>4
  <2> QED
    BY <2>1, Joining
<1>6. ASSUME NEW k \in 1..Len(a)
      PROVE  a[k] = (b \o t)[k]
  <2>1. CASE k <= Len(b)
    <3>1. n + k \in 1..Len(s) /\ k \in 1..Len(b) /\ k \in 1..(Len(w) - n) /\ k \in 1..(Len(s) - n)
      BY <1>1, <1>4, <2>1
    <3> QED
      BY <1>1, <1>3, <1>4, <1>5, <3>1
  <2>2. CASE k > Len(b)
    <3>1. /\ k - Len(b) \in 1..Len(t) /\ Len(b) + (k - Len(b)) = k
          /\ n + k = Len(s) + (k - Len(b)) /\ k \in 1..(Len(w) - n)
      BY <1>1, <1>3, <1>4, <2>2
    <3>2. (b \o t)[k] = t[k - Len(b)]
      BY <1>5, <3>1
    <3>3. a[k] = w[Len(s) + (k - Len(b))]
      BY <1>3, <3>1
    <3>4. w[Len(s) + (k - Len(b))] = t[k - Len(b)]
      BY <1>1, <3>1
    <3> QED
      BY <3>2, <3>3, <3>4
  <2>3. k <= Len(b) \/ k > Len(b)
    <3>1. k \in Int /\ Len(b) \in Int
      BY <1>3, <1>4
    <3> QED
      BY <3>1
  <2> QED
    BY Zenon, <2>1, <2>2, <2>3
<1>7. Len(a) = Len(b \o t)
  BY <1>1, <1>3, <1>4, <1>5
<1>8. a = b \o t
  BY <1>3, <1>5, <1>6, <1>7, Equal
<1> QED
  BY <1>8 DEF a, b, w

LEMMA BeyondAll ==
    ASSUME NEW B, NEW s \in Seq(B), NEW t \in Seq(B)
    PROVE  Beyond(s \o t, Len(s)) = t
<1>1. Len(s) \in 0..Len(s)
  OBVIOUS
<1>2. Beyond(s, Len(s)) = <<>>
  BY DEF Beyond
<1> QED
  BY <1>1, <1>2, BeyondFirst, EmptyJoin

\* Two ends of the same length.
LEMMA SameEnd ==
    ASSUME NEW B, NEW s \in Seq(B), NEW t \in Seq(B), NEW u \in Seq(B), s \o t = s \o u
    PROVE  t = u
BY BeyondAll

LEMMA BeyondTwice ==
    ASSUME NEW B, NEW s \in Seq(B), NEW m \in 0..Len(s), NEW n \in 0..(Len(s) - m)
    PROVE  Beyond(Beyond(s, m), n) = Beyond(s, m + n)
<1> DEFINE a == Beyond(s, m)
<1>1. a \in Seq(B) /\ Len(a) = Len(s) - m /\ \A k \in 1..(Len(s) - m) : a[k] = s[m + k]
  BY Cutting
<1> HIDE DEF a
<1>2. /\ Beyond(a, n) \in Seq(B) /\ Len(Beyond(a, n)) = Len(a) - n
      /\ \A k \in 1..(Len(a) - n) : Beyond(a, n)[k] = a[n + k]
  BY SMTT(60), <1>1, Cutting
<1>3. m + n \in 0..Len(s)
  OBVIOUS
<1>4. /\ Beyond(s, m + n) \in Seq(B) /\ Len(Beyond(s, m + n)) = Len(s) - (m + n)
      /\ \A k \in 1..(Len(s) - (m + n)) : Beyond(s, m + n)[k] = s[m + n + k]
  BY <1>3, Cutting
<1>5. ASSUME NEW k \in 1..Len(Beyond(a, n))
      PROVE  Beyond(a, n)[k] = Beyond(s, m + n)[k]
  <2>1. /\ k \in 1..(Len(a) - n) /\ n + k \in 1..(Len(s) - m) /\ k \in 1..(Len(s) - (m + n))
        /\ m + (n + k) = m + n + k
    BY <1>1, <1>2
  <2> QED
    BY <1>1, <1>2, <1>4, <2>1
<1>6. Len(Beyond(a, n)) = Len(Beyond(s, m + n))
  <2>1. Len(s) \in Nat /\ (Len(s) - m) - n = Len(s) - (m + n)
    OBVIOUS
  <2> QED
    BY <1>1, <1>2, <1>4, <2>1
<1>7. Beyond(a, n) = Beyond(s, m + n)
  BY <1>2, <1>4, <1>5, <1>6, Equal
<1> QED
  BY <1>7 DEF a

\* The beginning of two, when there is enough of the first.
LEMMA TakeFirst ==
    ASSUME NEW B, NEW s \in Seq(B), NEW t \in Seq(B), NEW n \in 0..Len(s)
    PROVE  SubSeq(s \o t, 1, n) = SubSeq(s, 1, n)
<1> DEFINE w == s \o t
<1>1. w \in Seq(B) /\ n \in 0..Len(w) /\ \A k \in 1..Len(s) : w[k] = s[k]
  BY Joining
<1> HIDE DEF w
<1>2. /\ SubSeq(w, 1, n) \in Seq(B) /\ Len(SubSeq(w, 1, n)) = n
      /\ \A k \in 1..n : SubSeq(w, 1, n)[k] = w[k]
  BY <1>1, Cutting
<1>3. /\ SubSeq(s, 1, n) \in Seq(B) /\ Len(SubSeq(s, 1, n)) = n
      /\ \A k \in 1..n : SubSeq(s, 1, n)[k] = s[k]
  BY Cutting
<1>4. \A k \in 1..n : k \in 1..Len(s)
  OBVIOUS
<1>5. SubSeq(w, 1, n) = SubSeq(s, 1, n)
  BY <1>1, <1>2, <1>3, <1>4, Equal
<1> QED
  BY <1>5 DEF w

\* A chunk goes from one to the other: together they are the same.
LEMMA ChunkMoved ==
    ASSUME NEW B, NEW s \in Seq(B), NEW t \in Seq(B), NEW n \in 0..Len(t)
    PROVE  (s \o SubSeq(t, 1, n)) \o Beyond(t, n) = s \o t
<1>1. SubSeq(t, 1, n) \in Seq(B) /\ Beyond(t, n) \in Seq(B)
  BY Cutting
<1>2. \A u, v \in Seq(B) : (s \o u) \o v = s \o (u \o v)
  BY SMTT(60), Regroup
<1>3. (s \o SubSeq(t, 1, n)) \o Beyond(t, n) = s \o (SubSeq(t, 1, n) \o Beyond(t, n))
  BY Zenon, <1>1, <1>2
<1> QED
  BY <1>3, TakeBeyond

\* The beginning of a whole that is known.
LEMMA Beginning ==
    ASSUME NEW B, NEW s \in Seq(B), NEW t \in Seq(B), NEW u \in Seq(B), NEW v \in Seq(B),
           s \o t = u \o v
    PROVE  /\ \A k \in 1..Len(s) : s[k] = (u \o v)[k]
           /\ Len(s) + Len(t) = Len(u) + Len(v)
           /\ \A n \in 0..Len(s) : n <= Len(u) => SubSeq(s, 1, n) = SubSeq(u, 1, n)
<1>1. /\ \A k \in 1..Len(s) : s[k] = (u \o v)[k]
      /\ Len(s) + Len(t) = Len(u) + Len(v)
  BY Joining
<1>2. ASSUME NEW n \in 0..Len(s), n <= Len(u)
      PROVE  SubSeq(s, 1, n) = SubSeq(u, 1, n)
  <2>1. n \in 0..Len(u)
    BY <1>2
  <2>2. SubSeq(s \o t, 1, n) = SubSeq(s, 1, n) /\ SubSeq(u \o v, 1, n) = SubSeq(u, 1, n)
    BY <2>1, TakeFirst
  <2> QED
    BY <2>2
<1> QED
  BY <1>1, <1>2
\* What is cut where the beginnings have one length.
LEMMA SameCut ==
    ASSUME NEW B, NEW s \in Seq(B), NEW t \in Seq(B), NEW u \in Seq(B), NEW v \in Seq(B),
           s \o t = u \o v, Len(s) = Len(u)
    PROVE  s = u /\ t = v
<1>1. \A k \in 1..Len(s) : s[k] = (u \o v)[k]
  BY SMTT(60), Beginning
<1>2. \A k \in 1..Len(u) : (u \o v)[k] = u[k]
  BY Joining
<1>3. s = u
  BY <1>1, <1>2, Equal
<1> QED
  BY <1>3, SameEnd

(***************************************************************************)
(* The octets of the frames                                                *)
(***************************************************************************)
\* A frame that a client may send.
Sendable(f) ==
    /\ f.opcode \in 0..15 /\ f.fin \in BOOLEAN /\ f.form \in Forms
    /\ f.content \in Seq(Bytes) /\ Len(f.content) \in Nat
    /\ Len(f.content) <= MallocMax /\ Eight(Len(f.content)) \in Seq(Bytes)
    /\ f.form = "7" => Len(f.content) < 126
    /\ f.form = "16" => InTwo(Len(f.content))
    /\ f.key = Null \/ (f.key # Null /\ f.key \in Seq(Bytes) /\ Len(f.key) = 4)

LEMMA FrameTyped ==
    ASSUME NEW s \in Streams
    PROVE  s \in Seq(Frame) /\ Len(s) \in Nat /\ \A k \in 1..Len(s) : Sendable(s[k])
<1>1. s \in Seq(Frame) /\ Len(s) \in Nat
  BY FrameAssumption
<1>2. ASSUME NEW k \in 1..Len(s)
      PROVE  Sendable(s[k])
  <2>1. s[k] \in Frame
    BY <1>1
  <2>2. /\ Len(s[k].content) <= MallocMax /\ Eight(Len(s[k].content)) \in Seq(Bytes)
        /\ s[k].form = "7" => Len(s[k].content) < 126
        /\ s[k].form = "16" => InTwo(Len(s[k].content))
        /\ s[k].key # Null => Len(s[k].key) = 4
    BY FrameAssumption
  <2> QED
    BY <2>1, <2>2 DEF Sendable, Frame
<1> QED
  BY <1>1, <1>2

LEMMA ElementTyped ==
    ASSUME NEW B, NEW s \in Seq(B)
    PROVE  \A k \in 1..Len(s) : s[k] \in B
OBVIOUS

LEMMA TwoTyped ==
    ASSUME NEW n \in Nat, InTwo(n)
    PROVE  /\ Two(n) \in Seq(Bytes) /\ Len(Two(n)) = 2
           /\ Two(n)[1] \in Bytes /\ Two(n)[2] \in Bytes /\ 256 * Two(n)[1] + Two(n)[2] = n
<1>1. n \div 256 \in Bytes /\ n % 256 \in Bytes /\ 256 * (n \div 256) + (n % 256) = n
  BY SMTT(60) DEF InTwo, Bytes
<1> QED
  BY <1>1 DEF Two

\* The eight octets of a number, and the number without its last octets.
LEMMA EightIs ==
    ASSUME NEW n \in Nat
    PROVE  /\ Len(Eight(n)) = 8
           /\ \E a \in [0..7 -> Nat] :
                /\ a[0] = n /\ \A k \in 1..7 : a[k] = Upper(a[k - 1])
                /\ Eight(n)[1] = a[7] /\ \A k \in 2..8 : Eight(n)[k] = Lower(a[8 - k])
<1> DEFINE b == Upper(n)
           c == Upper(b)
           d == Upper(c)
           e == Upper(d)
           f == Upper(e)
           g == Upper(f)
           h == Upper(g)
           a == [k \in 0..7 |->
                   CASE k = 0 -> n [] k = 1 -> b [] k = 2 -> c [] k = 3 -> d
                     [] k = 4 -> e [] k = 5 -> f [] k = 6 -> g [] k = 7 -> h]
<1>1. \A x \in Nat : Upper(x) \in Nat
  BY DEF Upper
<1>2. /\ b \in Nat /\ c \in Nat /\ d \in Nat /\ e \in Nat /\ f \in Nat /\ g \in Nat /\ h \in Nat
  BY ZenonT(120), <1>1
<1>3. Eight(n) = <<h, Lower(g), Lower(f), Lower(e), Lower(d), Lower(c), Lower(b), Lower(n)>>
  BY DEF Eight, Upper, Lower
<1>4. /\ b = Upper(n) /\ c = Upper(b) /\ d = Upper(c) /\ e = Upper(d)
      /\ f = Upper(e) /\ g = Upper(f) /\ h = Upper(g)
  OBVIOUS
<1> HIDE DEF b, c, d, e, f, g, h
<1>5. /\ a[0] = n /\ a[1] = b /\ a[2] = c /\ a[3] = d
      /\ a[4] = e /\ a[5] = f /\ a[6] = g /\ a[7] = h
  OBVIOUS
<1>6. a \in [0..7 -> Nat]
  BY <1>2
<1> HIDE DEF a
<1>7. \A k \in 1..7 : a[k] = Upper(a[k - 1])
  <2>1. \A k \in 1..7 : k \in {1, 2, 3, 4, 5, 6, 7}
    OBVIOUS
  <2>2. 1 - 1 = 0 /\ 2 - 1 = 1 /\ 3 - 1 = 2 /\ 4 - 1 = 3 /\ 5 - 1 = 4 /\ 6 - 1 = 5 /\ 7 - 1 = 6
    OBVIOUS
  <2> QED
    <3>1. /\ a[1] = Upper(a[1 - 1]) /\ a[2] = Upper(a[2 - 1]) /\ a[3] = Upper(a[3 - 1])
          /\ a[4] = Upper(a[4 - 1]) /\ a[5] = Upper(a[5 - 1]) /\ a[6] = Upper(a[6 - 1])
          /\ a[7] = Upper(a[7 - 1])
      BY ZenonT(60), <1>4, <1>5, <2>2
    <3> QED
      BY SMTT(60), <2>1, <3>1
<1>8. Len(Eight(n)) = 8 /\ Eight(n)[1] = a[7] /\ \A k \in 2..8 : Eight(n)[k] = Lower(a[8 - k])
  <2>1. \A k \in 2..8 : k \in {2, 3, 4, 5, 6, 7, 8}
    OBVIOUS
  <2> QED
    BY <1>3, <1>5, <2>1
<1> QED
  BY <1>5, <1>6, <1>7, <1>8

LEMMA EightTyped ==
    ASSUME NEW n \in Nat
    PROVE  Eight(n) \in Seq(Nat)
<1>1. \A x \in Nat : Upper(x) \in Nat /\ Lower(x) \in Nat
  BY DEF Upper, Lower
<1>2. PICK a \in [0..7 -> Nat] : Eight(n)[1] = a[7] /\ \A k \in 2..8 : Eight(n)[k] = Lower(a[8 - k])
  BY EightIs
<1>3. ASSUME NEW k \in 1..8
      PROVE  Eight(n)[k] \in Nat
  <2>1. k = 1 \/ (k \in 2..8 /\ 8 - k \in 0..7)
    OBVIOUS
  <2> QED
    BY <1>1, <1>2, <2>1
<1>4. Eight(n) = [k \in 1..8 |-> Eight(n)[k]]
  BY DEF Eight
<1> QED
  BY <1>3, <1>4

LEMMA MaskedTyped ==
    ASSUME NEW s \in Seq(Bytes), NEW key \in Seq(Bytes), Len(key) = 4, NEW from \in Nat
    PROVE  /\ Masked(s, key, from) \in Seq(Bytes) /\ Len(Masked(s, key, from)) = Len(s)
           /\ \A n \in 1..Len(s) :
                /\ Masked(s, key, from)[n] = XorByte(s[n], key[((from + n - 1) % 4) + 1])
                /\ key[((from + n - 1) % 4) + 1] \in Bytes /\ s[n] \in Bytes
<1>1. ASSUME NEW n \in 1..Len(s)
      PROVE  key[((from + n - 1) % 4) + 1] \in Bytes /\ s[n] \in Bytes
  <2>1. ((from + n - 1) % 4) + 1 \in 1..4
    OBVIOUS
  <2>2. \A j \in 1..4 : key[j] \in Bytes
    BY ElementTyped
  <2>3. s[n] \in Bytes
    OBVIOUS
  <2> QED
    BY ZenonT(60), <2>1, <2>2, <2>3
<1>2. ASSUME NEW n \in 1..Len(s)
      PROVE  XorByte(s[n], key[((from + n - 1) % 4) + 1]) \in Bytes
  BY <1>1, XorTwice
<1>3. Len(s) \in Nat
  OBVIOUS
<1> QED
  BY <1>1, <1>2, <1>3 DEF Masked

LEMMA ContentTyped ==
    ASSUME NEW f, Sendable(f)
    PROVE  KeyAndContent(f) \in Seq(Bytes)
<1>1. CASE f.key = Null
  BY <1>1 DEF KeyAndContent, Sendable
<1>2. CASE f.key # Null
  <2>1. f.key \in Seq(Bytes) /\ Len(f.key) = 4 /\ f.content \in Seq(Bytes)
    BY <1>2 DEF Sendable
  <2>2. Masked(f.content, f.key, 0) \in Seq(Bytes)
    BY <2>1, MaskedTyped
  <2> QED
    BY <1>2, <2>1, <2>2, Joining DEF KeyAndContent
<1> QED
  BY <1>1, <1>2

\* The second octet of a frame: the mask bit, and a length or how the length
\* is given.
LEMMA LengthTyped ==
    ASSUME NEW f, Sendable(f)
    PROVE  /\ FirstOctet(f) \in Bytes /\ MaskBit(f) \in {0, 128}
           /\ f.form = "7" => LengthOf(f) = <<MaskBit(f) + Len(f.content)>>
           /\ f.form = "16" => LengthOf(f) = <<MaskBit(f) + 126>> \o Octets(f)
           /\ f.form = "64" => LengthOf(f) = <<MaskBit(f) + 127>> \o Octets(f)
           /\ f.form = "huge" => LengthOf(f) = <<MaskBit(f) + 127>> \o <<1, 0, 0, 0, 0, 0, 0, 0>>
           /\ Octets(f) \in Seq(Bytes) /\ LengthOf(f) \in Seq(Bytes)
           /\ Len(Octets(f)) = IF f.form = "16" THEN 2 ELSE 8
<1>1. FirstOctet(f) \in Bytes /\ MaskBit(f) \in {0, 128}
  <2>1. f.opcode \in 0..15
    BY DEF Sendable
  <2>2. FirstOctet(f) = f.opcode \/ FirstOctet(f) = 128 + f.opcode
    <3>1. CASE f.fin
      BY <2>1, <3>1 DEF FirstOctet
    <3>2. CASE ~f.fin
      BY <2>1, <3>2 DEF FirstOctet
    <3> QED
      BY <3>1, <3>2
  <2>3. \A o \in 0..15 : o \in 0..255 /\ 128 + o \in 0..255
    OBVIOUS
  <2>4. FirstOctet(f) \in Bytes
    BY <2>1, <2>2, <2>3 DEF Bytes
  <2> QED
    BY <2>4 DEF MaskBit
<1>2. Len(f.content) \in Nat /\ Eight(Len(f.content)) \in Seq(Bytes)
  BY DEF Sendable
<1>3. f.form = "16" => Two(Len(f.content)) \in Seq(Bytes) /\ Len(Two(Len(f.content))) = 2
  <2>1. \A n \in Nat : InTwo(n) => Two(n) \in Seq(Bytes) /\ Len(Two(n)) = 2
    BY TwoTyped
  <2>2. f.form = "16" => InTwo(Len(f.content))
    BY DEF Sendable
  <2> QED
    BY <1>2, <2>1, <2>2
<1>4. Len(Eight(Len(f.content))) = 8 /\ 0 \in Bytes /\ 1 \in Bytes
  <2>1. \A n \in Nat : Len(Eight(n)) = 8
    BY EightIs
  <2>2. 0 \in Bytes /\ 1 \in Bytes
    BY DEF Bytes
  <2> QED
    BY ZenonT(60), <1>2, <2>1, <2>2
<1>5. Octets(f) \in Seq(Bytes) /\ Len(Octets(f)) = IF f.form = "16" THEN 2 ELSE 8
  BY <1>2, <1>3, <1>4 DEF Octets
<1>6. MaskBit(f) + 126 \in Bytes /\ MaskBit(f) + 127 \in Bytes
      /\ (f.form = "7" => MaskBit(f) + Len(f.content) \in Bytes)
  <2>1. f.form = "7" => Len(f.content) < 126
    BY DEF Sendable
  <2>2. \A m \in {0, 128} : m + 126 \in Bytes /\ m + 127 \in Bytes
    BY DEF Bytes
  <2>3. \A m \in {0, 128}, n \in Nat : n < 126 => m + n \in Bytes
    BY DEF Bytes
  <2>4. f.form = "7" => MaskBit(f) + Len(f.content) \in Bytes
    BY ZenonT(60), <1>1, <1>2, <2>1, <2>3
  <2> QED
    BY <1>1, <2>2, <2>4
<1>7. f.form = "7" => LengthOf(f) = <<MaskBit(f) + Len(f.content)>>
  BY DEF LengthOf, LengthBytes
<1>8. f.form = "16" => LengthOf(f) = <<MaskBit(f) + 126>> \o Octets(f)
  BY DEF LengthOf, LengthBytes, Octets
<1>9. f.form = "64" => LengthOf(f) = <<MaskBit(f) + 127>> \o Octets(f)
  BY DEF LengthOf, LengthBytes, Octets
<1>10. f.form = "huge" => LengthOf(f) = <<MaskBit(f) + 127>> \o <<1, 0, 0, 0, 0, 0, 0, 0>>
  BY <1>6 DEF LengthOf, LengthBytes
<1>11. LengthOf(f) \in Seq(Bytes)
  <2>1. CASE f.form = "7"
    <3>1. <<MaskBit(f) + Len(f.content)>> \in Seq(Bytes)
      BY <1>6, <2>1
    <3> QED
      BY <1>7, <2>1, <3>1
  <2>2. CASE f.form = "16"
    <3>1. <<MaskBit(f) + 126>> \in Seq(Bytes)
      BY <1>6
    <3> QED
      BY SMTT(60), <1>5, <1>8, <2>2, <3>1, Joining
  <2>3. CASE f.form = "64"
    <3>1. <<MaskBit(f) + 127>> \in Seq(Bytes)
      BY <1>6
    <3> QED
      BY ZenonT(60), <1>5, <1>9, <2>3, <3>1, Joining
  <2>4. CASE f.form = "huge"
    <3>1. <<MaskBit(f) + 127>> \in Seq(Bytes) /\ <<1, 0, 0, 0, 0, 0, 0, 0>> \in Seq(Bytes)
      BY <1>4, <1>6
    <3> QED
      BY ZenonT(60), <1>10, <2>4, <3>1, Joining
  <2> QED
    BY <2>1, <2>2, <2>3, <2>4 DEF Sendable, Forms
<1> QED
  BY <1>1, <1>5, <1>7, <1>8, <1>9, <1>10, <1>11

LEMMA WireIs ==
    ASSUME NEW f, Sendable(f), NEW w \in Seq(Bytes)
    PROVE  /\ Wire(f) \in Seq(Bytes)
           /\ Wire(f) \o w = <<FirstOctet(f)>> \o (LengthOf(f) \o (KeyAndContent(f) \o w))
<1> DEFINE a == <<FirstOctet(f)>>
           b == LengthOf(f)
           c == KeyAndContent(f)
<1>1. a \in Seq(Bytes) /\ b \in Seq(Bytes) /\ c \in Seq(Bytes)
  <2>1. FirstOctet(f) \in Bytes /\ LengthOf(f) \in Seq(Bytes) /\ KeyAndContent(f) \in Seq(Bytes)
    BY ZenonT(60), LengthTyped, ContentTyped
  <2> QED
    BY <2>1
<1>2. Wire(f) = (a \o b) \o c
  BY DEF Wire, FirstOctet, LengthOf, KeyAndContent, MaskBit
<1> HIDE DEF a, b, c
<1>3. a \o b \in Seq(Bytes) /\ c \o w \in Seq(Bytes)
  BY <1>1, Joining
<1>4. (a \o b) \o c \in Seq(Bytes)
  BY <1>1, <1>3, Joining
<1>5. ((a \o b) \o c) \o w = (a \o b) \o (c \o w)
  BY SMTT(60), <1>1, <1>3, Regroup
<1>6. (a \o b) \o (c \o w) = a \o (b \o (c \o w))
  BY SMTT(60), <1>1, <1>3, Regroup
<1> QED
  BY <1>2, <1>4, <1>5, <1>6 DEF a, b, c

\* WireFrom, which is recursive, is what its definition says.
LEMMA WireDefined ==
    ASSUME NEW s, Len(s) \in Nat
    PROVE  /\ WireFrom(s)[Len(s) + 1] = <<>>
           /\ \A k \in 1..Len(s) : WireFrom(s)[k] = Wire(s[k]) \o WireFrom(s)[k + 1]
<1> DEFINE N == Len(s)
           next(g, k) == IF k > N THEN <<>> ELSE Wire(s[k]) \o g[k + 1]
           P == {m \in Nat : m <= N => \E g : \A k \in (N + 1 - m)..(N + 1) : g[k] = next(g, k)}
<1>1. N \in Nat
  OBVIOUS
<1> HIDE DEF N
<1>2. 0 \in P
  <2> DEFINE g == [k \in {N + 1} |-> <<>>]
  <2>1. \A k \in (N + 1 - 0)..(N + 1) : g[k] = next(g, k)
    <3>1. \A k \in (N + 1 - 0)..(N + 1) : k = N + 1 /\ k > N
      BY <1>1
    <3> QED
      BY <3>1
  <2> QED
    BY <2>1
<1>3. ASSUME NEW m \in Nat, m \in P, m < N
      PROVE  m + 1 \in P
  <2>0. m <= N /\ m \in Nat
    BY <1>1, <1>3
  <2>1. PICK g : \A k \in (N + 1 - m)..(N + 1) : g[k] = next(g, k)
    <3> HIDE DEF next
    <3> QED
      BY ZenonT(60), <1>3, <2>0
  <2> DEFINE a == N - m
             h == [k \in a..(N + 1) |-> IF k = a THEN Wire(s[a]) \o g[a + 1] ELSE g[k]]
  <2>2. a \in 1..N /\ N + 1 - m = a + 1 /\ N + 1 - (m + 1) = a
    BY <1>1, <1>3
  <2>3. \A k \in a..(N + 1) : h[k] = IF k = a THEN Wire(s[a]) \o g[a + 1] ELSE g[k]
    OBVIOUS
  <2> HIDE DEF h, a
  <2>4. \A k \in a..(N + 1) : h[k] = next(h, k)
    <3> SUFFICES ASSUME NEW k \in a..(N + 1)
                 PROVE  h[k] = next(h, k)
      OBVIOUS
    <3>1. CASE k = a
      <4>1. h[k] = Wire(s[a]) \o g[a + 1]
        BY <2>3, <3>1
      <4>2. a + 1 \in a..(N + 1) /\ a + 1 # a /\ ~(a > N)
        BY <1>1, <2>2
      <4>3. h[a + 1] = g[a + 1]
        BY <2>3, <4>2
      <4> QED
        BY <3>1, <4>1, <4>2, <4>3
    <3>2. CASE k # a
      <4>1. k \in (N + 1 - m)..(N + 1) /\ h[k] = g[k]
        BY <1>1, <2>2, <2>3, <3>2
      <4>2. g[k] = next(g, k)
        BY <2>1, <4>1
      <4>3. k > N \/ h[k + 1] = g[k + 1]
        BY <1>1, <2>2, <2>3, <3>2
      <4> QED
        BY <4>1, <4>2, <4>3
    <3> QED
      BY <3>1, <3>2
  <2> QED
    BY SMTT(60), <1>3, <2>2, <2>4
<1>4. N \in P
  <2>1. P \in SUBSET Nat /\ \A m \in Nat : m \in P /\ m < N => m + 1 \in P
    BY <1>3
  <2> HIDE DEF P
  <2>2. \A m \in 0..N : m \in P
    BY <1>1, <1>2, <2>1, Induction
  <2> QED
    BY <1>1, <2>2
<1>5. PICK g : \A k \in 1..(N + 1) : g[k] = next(g, k)
  BY <1>1, <1>4
<1> DEFINE from == [k \in 1..(N + 1) |-> g[k]]
           Fixed(h) == h = [k \in 1..(N + 1) |-> next(h, k)]
<1>6. Fixed(from)
  <2>1. \A k \in 1..(N + 1) : from[k] = next(from, k)
    <3> SUFFICES ASSUME NEW k \in 1..(N + 1)
                 PROVE  from[k] = next(from, k)
      OBVIOUS
    <3>1. k > N \/ from[k + 1] = g[k + 1]
      BY <1>1
    <3> QED
      BY <1>5, <3>1
  <2> QED
    BY <2>1
<1>7. WireFrom(s) = CHOOSE h : Fixed(h)
  BY DEF WireFrom, N
<1> HIDE DEF Fixed, from
<1>8. Fixed(WireFrom(s))
  BY <1>6, <1>7
<1>9. \A k \in 1..(N + 1) : WireFrom(s)[k] = next(WireFrom(s), k)
  BY ZenonT(60), <1>8 DEF Fixed
<1>10. N + 1 > N /\ N + 1 \in 1..(N + 1) /\ \A k \in 1..N : k \in 1..(N + 1) /\ ~(k > N)
  BY <1>1
<1>11. /\ WireFrom(s)[N + 1] = <<>>
       /\ \A k \in 1..N : WireFrom(s)[k] = Wire(s[k]) \o WireFrom(s)[k + 1]
  BY ZenonT(60), <1>9, <1>10
<1> QED
  BY ZenonT(60), <1>11 DEF N

LEMMA WireTyped ==
    ASSUME NEW s \in Streams
    PROVE  \A k \in 1..(Len(s) + 1) : WireFrom(s)[k] \in Seq(Bytes)
<1> DEFINE N == Len(s)
           P == {m \in Nat : m <= N => WireFrom(s)[N + 1 - m] \in Seq(Bytes)}
<1>1. /\ N \in Nat /\ \A k \in 1..N : Sendable(s[k])
      /\ WireFrom(s)[N + 1] = <<>>
      /\ \A k \in 1..N : WireFrom(s)[k] = Wire(s[k]) \o WireFrom(s)[k + 1]
  BY FrameTyped, WireDefined
<1> HIDE DEF N
<1>2. 0 \in P
  <2>1. N + 1 - 0 = N + 1 /\ <<>> \in Seq(Bytes)
    BY <1>1
  <2> QED
    BY <1>1, <2>1
<1>3. ASSUME NEW m \in Nat, m \in P, m < N
      PROVE  m + 1 \in P
  <2>1. /\ N - m \in 1..N /\ N + 1 - (m + 1) = N - m /\ N + 1 - m = (N - m) + 1 /\ m <= N
        /\ m + 1 \in Nat
    BY <1>1, <1>3
  <2>2. WireFrom(s)[(N - m) + 1] \in Seq(Bytes)
    BY <1>3, <2>1
  <2>3. WireFrom(s)[N - m] \in Seq(Bytes)
    <3>1. Wire(s[N - m]) \in Seq(Bytes)
      BY ZenonT(60), <1>1, <2>1, <2>2, WireIs
    <3>2. WireFrom(s)[N - m] = Wire(s[N - m]) \o WireFrom(s)[(N - m) + 1]
      BY <1>1, <2>1
    <3> QED
      BY ZenonT(60), <2>2, <3>1, <3>2, Joining
  <2> QED
    BY <2>1, <2>3
<1>4. \A m \in 0..N : m \in P
  <2>1. P \in SUBSET Nat /\ \A m \in Nat : m \in P /\ m < N => m + 1 \in P
    BY <1>3
  <2> HIDE DEF P
  <2> QED
    BY <1>1, <1>2, <2>1, Induction
<1>5. ASSUME NEW k \in 1..(N + 1)
      PROVE  WireFrom(s)[k] \in Seq(Bytes)
  <2>1. N + 1 - k \in 0..N /\ N + 1 - (N + 1 - k) = k /\ N + 1 - k <= N
    BY <1>1
  <2> QED
    BY <1>4, <2>1
<1> QED
  BY <1>5 DEF N

(***************************************************************************)
(* What the frames amount to                                               *)
(***************************************************************************)
MeaningType ==
    [calls : Seq(Events), out : Seq(Nat), pending : {0, Text, Binary},
     payload : Seq(Bytes), over : BOOLEAN]

Grows(m, n) == IsPrefix(m.calls, n.calls) /\ IsPrefix(m.out, n.out)

LEMMA PrefixOfJoin ==
    ASSUME NEW B, NEW s \in Seq(B), NEW t \in Seq(B)
    PROVE  IsPrefix(s, s \o t)
<1>1. Len(s) <= Len(s \o t) /\ Len(s) \in 0..Len(s)
  BY Joining
<1>2. SubSeq(s \o t, 1, Len(s)) = SubSeq(s, 1, Len(s))
  BY <1>1, TakeFirst
<1> QED
  BY <1>1, <1>2 DEF IsPrefix

LEMMA PrefixOfItself == ASSUME NEW B, NEW s \in Seq(B) PROVE IsPrefix(s, s)
<1>1. Len(s) <= Len(s)
  OBVIOUS
<1> QED
  BY <1>1 DEF IsPrefix

LEMMA PrefixOfPrefix ==
    ASSUME NEW B, NEW s \in Seq(B), NEW t \in Seq(B), NEW u \in Seq(B), IsPrefix(s, t), IsPrefix(t, u)
    PROVE  IsPrefix(s, u)
<1>1. /\ Len(s) <= Len(t) /\ Len(t) <= Len(u) /\ Len(s) \in Nat /\ Len(t) \in Nat /\ Len(u) \in Nat
      /\ SubSeq(s, 1, Len(s)) = SubSeq(t, 1, Len(s)) /\ SubSeq(t, 1, Len(t)) = SubSeq(u, 1, Len(t))
  BY DEF IsPrefix
<1>2. /\ Len(t) \in 0..Len(t) /\ Len(t) \in 0..Len(u)
      /\ Len(s) \in 0..Len(t) /\ Len(s) \in 0..Len(u) /\ Len(s) <= Len(u)
  BY <1>1
<1>3. \A k \in 1..Len(t) : t[k] = u[k]
  BY <1>1, <1>2, Cutting
<1>4. SubSeq(t, 1, Len(s)) \in Seq(B) /\ Len(SubSeq(t, 1, Len(s))) = Len(s)
      /\ \A k \in 1..Len(s) : SubSeq(t, 1, Len(s))[k] = t[k]
  BY <1>2, Cutting
<1>5. SubSeq(u, 1, Len(s)) \in Seq(B) /\ Len(SubSeq(u, 1, Len(s))) = Len(s)
      /\ \A k \in 1..Len(s) : SubSeq(u, 1, Len(s))[k] = u[k]
  BY <1>2, Cutting
<1>6. \A k \in 1..Len(s) : k \in 1..Len(t)
  BY <1>1
<1>7. SubSeq(t, 1, Len(s)) = SubSeq(u, 1, Len(s))
  BY <1>3, <1>4, <1>5, <1>6, Equal
<1> QED
  BY <1>1, <1>2, <1>7 DEF IsPrefix

LEMMA GrowsOn ==
    ASSUME NEW m \in MeaningType, NEW n \in MeaningType, NEW o \in MeaningType, Grows(m, n), Grows(n, o)
    PROVE  Grows(m, o)
<1>1. /\ m.calls \in Seq(Events) /\ n.calls \in Seq(Events)
      /\ o.calls \in Seq(Events)
      /\ m.out \in Seq(Nat) /\ n.out \in Seq(Nat) /\ o.out \in Seq(Nat)
  BY DEF MeaningType
<1>2. IsPrefix(m.calls, o.calls)
  BY <1>1, PrefixOfPrefix DEF Grows
<1>3. IsPrefix(m.out, o.out)
  BY <1>1, PrefixOfPrefix DEF Grows
<1> QED
  BY <1>2, <1>3 DEF Grows

LEMMA GrowsNot == ASSUME NEW m \in MeaningType PROVE Grows(m, m)
<1>1. m.calls \in Seq(Events) /\ m.out \in Seq(Nat)
  BY DEF MeaningType
<1> QED
  BY <1>1, PrefixOfItself DEF Grows

\* sendMessage() makes of an answer the frame that RFC 6455 says.
LEMMA AnswerIs ==
    ASSUME NEW op \in 0..15, NEW s \in Seq(Bytes)
    PROVE  Answer(op, s) = SendMessage(op, s) /\ SendMessage(op, s) \in Seq(Nat)
<1>1. Len(s) \in Nat
  OBVIOUS
<1>2. Answer(op, s) = SendMessage(op, s)
  <2> DEFINE form == CASE Len(s) <= 125 -> "7"
                       [] Len(s) >= 126 /\ InTwo(Len(s)) -> "16"
                       [] OTHER -> "64"
             r == [fin |-> TRUE, opcode |-> op, key |-> Null, content |-> s, form |-> form]
             bytes == LengthBytes(form, Len(s), 0)
  <2>1. Answer(op, s) = Wire(r)
    BY Zenon DEF Answer
  <2>2. r.fin = TRUE /\ r.opcode = op /\ r.key = Null /\ r.content = s /\ r.form = form
    <3> HIDE DEF form
    <3> QED
      OBVIOUS
  <2>3. Wire(r) = (<<128 + op>> \o bytes) \o s
    <3> HIDE DEF r, form
    <3> QED
      BY <2>2 DEF Wire
  <2> HIDE DEF r
  <2>4. \A n \in Nat : /\ n < 126 => n <= 125 /\ ~(n >= 126 /\ InTwo(n))
                       /\ n >= 126 /\ InTwo(n) => ~(n <= 125) /\ ~(n < 126)
                       /\ ~(n < 126) => ~(n <= 125)
    OBVIOUS
  <2>5. CASE Len(s) < 126
    <3>1. form = "7" /\ ~(Len(s) >= 126 /\ InTwo(Len(s)))
      BY Zenon, <1>1, <2>4, <2>5
    <3>2. bytes = <<Len(s)>>
      <4>1. \A n \in Nat : LengthBytes("7", n, 0) = <<n>>
        BY DEF LengthBytes
      <4> HIDE DEF form
      <4> QED
        BY Zenon, <1>1, <3>1, <4>1
    <3> HIDE DEF bytes
    <3> QED
      BY Zenon, <2>1, <2>3, <2>5, <3>1, <3>2 DEF SendMessage
  <2>6. CASE Len(s) >= 126 /\ InTwo(Len(s))
    <3>1. form = "16" /\ ~(Len(s) < 126)
      BY Zenon, <1>1, <2>4, <2>6
    <3>2. bytes = <<126>> \o Two(Len(s))
      <4>1. \A n \in Nat : LengthBytes("16", n, 0) = <<126>> \o Two(n)
        BY DEF LengthBytes
      <4> HIDE DEF form
      <4> QED
        BY Zenon, <1>1, <3>1, <4>1
    <3> HIDE DEF bytes
    <3> QED
      BY Zenon, <2>1, <2>3, <2>6, <3>1, <3>2 DEF SendMessage
  <2>7. CASE ~(Len(s) < 126) /\ ~(Len(s) >= 126 /\ InTwo(Len(s)))
    <3>1. form = "64"
      BY Zenon, <1>1, <2>4, <2>7
    <3>2. bytes = <<127>> \o Eight(Len(s))
      <4>1. \A n \in Nat : LengthBytes("64", n, 0) = <<127>> \o Eight(n)
        BY DEF LengthBytes
      <4> HIDE DEF form
      <4> QED
        BY Zenon, <1>1, <3>1, <4>1
    <3> HIDE DEF bytes
    <3> QED
      BY Zenon, <2>1, <2>3, <2>7, <3>2 DEF SendMessage
  <2> QED
    BY Zenon, <2>5, <2>6, <2>7
<1>3. Two(Len(s)) \in Seq(Nat)
  <2>1. \A n \in Nat : n \div 256 \in Nat /\ n % 256 \in Nat
    OBVIOUS
  <2> QED
    BY <1>1, <2>1 DEF Two
<1>4. Eight(Len(s)) \in Seq(Nat)
  BY <1>1, EightTyped
<1>5. <<128 + op>> \in Seq(Nat) /\ <<Len(s)>> \in Seq(Nat) /\ <<126>> \in Seq(Nat) /\ <<127>> \in Seq(Nat)
  BY <1>1
<1>6. <<126>> \o Two(Len(s)) \in Seq(Nat) /\ <<127>> \o Eight(Len(s)) \in Seq(Nat)
  <2>1. \A x, y \in Seq(Nat) : x \o y \in Seq(Nat)
    BY Joining
  <2> QED
    BY SMTT(60), <1>3, <1>4, <1>5, <2>1
<1>7. s \in Seq(Nat)
  <2>1. Bytes \subseteq Nat
    BY DEF Bytes
  <2> QED
    BY <2>1, SeqMonotonic
<1> DEFINE header == CASE Len(s) < 126 -> <<Len(s)>>
                       [] Len(s) >= 126 /\ InTwo(Len(s)) -> <<126>> \o Two(Len(s))
                       [] OTHER -> <<127>> \o Eight(Len(s))
<1>8. header \in Seq(Nat)
  <2>1. \A n \in Nat : ~(n < 126 /\ (n >= 126 /\ InTwo(n)))
    OBVIOUS
  <2>2. CASE Len(s) < 126
    BY Zenon, <1>1, <1>5, <2>1, <2>2
  <2>3. CASE Len(s) >= 126 /\ InTwo(Len(s))
    BY Zenon, <1>1, <1>6, <2>1, <2>3
  <2>4. CASE ~(Len(s) < 126) /\ ~(Len(s) >= 126 /\ InTwo(Len(s)))
    BY Zenon, <1>6, <2>4
  <2> QED
    BY Zenon, <2>2, <2>3, <2>4
<1>9. SendMessage(op, s) = (<<128 + op>> \o header) \o s
  BY DEF SendMessage
<1> HIDE DEF header
<1>10. <<128 + op>> \o header \in Seq(Nat)
  BY <1>5, <1>8, Joining
<1> QED
  BY <1>2, <1>7, <1>9, <1>10, Joining

LEMMA CalledTyped ==
    ASSUME NEW m \in MeaningType, NEW name, NEW s, <<name, s>> \in Events
    PROVE  /\ Called(m, name, s) \in MeaningType /\ Grows(m, Called(m, name, s))
           /\ Called(m, name, s).calls = Append(m.calls, <<name, s>>)
           /\ Called(m, name, s).out = m.out /\ Called(m, name, s).over = m.over
           /\ Called(m, name, s).pending = m.pending /\ Called(m, name, s).payload = m.payload
<1> DEFINE n == Called(m, name, s)
<1>1. m.calls \in Seq(Events) /\ m.out \in Seq(Nat) /\ <<<<name, s>>>> \in Seq(Events)
  BY DEF MeaningType
<1>2. /\ Append(m.calls, <<name, s>>) \in Seq(Events)
      /\ Append(m.calls, <<name, s>>) = m.calls \o <<<<name, s>>>>
  BY <1>1, AppendProperties, AppendIsConcat
<1>3. n = [m EXCEPT !.calls = Append(m.calls, <<name, s>>)]
  BY DEF Called
<1>4. /\ n \in MeaningType /\ n.calls = Append(m.calls, <<name, s>>) /\ n.out = m.out
      /\ n.over = m.over /\ n.pending = m.pending /\ n.payload = m.payload
  BY <1>2, <1>3 DEF MeaningType
<1> HIDE DEF n
<1>5. IsPrefix(m.calls, n.calls)
  BY <1>1, <1>2, <1>4, PrefixOfJoin
<1>6. IsPrefix(m.out, n.out)
  BY <1>1, <1>4, PrefixOfItself
<1> QED
  BY <1>4, <1>5, <1>6 DEF n, Grows

LEMMA AnsweredTyped ==
    ASSUME NEW m \in MeaningType, NEW op \in 0..15, NEW s \in Seq(Bytes)
    PROVE  /\ Answered(m, op, s) \in MeaningType /\ Grows(m, Answered(m, op, s))
           /\ Answered(m, op, s).out = m.out \o SendMessage(op, s)
           /\ Answered(m, op, s).calls = m.calls /\ Answered(m, op, s).over = m.over
           /\ Answered(m, op, s).pending = m.pending /\ Answered(m, op, s).payload = m.payload
<1> DEFINE n == Answered(m, op, s)
<1>1. m.calls \in Seq(Events) /\ m.out \in Seq(Nat)
  BY DEF MeaningType
<1>2. SendMessage(op, s) \in Seq(Nat) /\ Answer(op, s) = SendMessage(op, s)
  BY AnswerIs
<1>3. m.out \o SendMessage(op, s) \in Seq(Nat)
  BY <1>1, <1>2, Joining
<1>4. /\ n \in MeaningType /\ n.out = m.out \o SendMessage(op, s) /\ n.calls = m.calls
      /\ n.over = m.over /\ n.pending = m.pending /\ n.payload = m.payload
  BY <1>2, <1>3 DEF Answered, MeaningType
<1> HIDE DEF n
<1>5. Grows(m, n)
  BY <1>1, <1>2, <1>4, PrefixOfJoin, PrefixOfItself DEF Grows
<1> QED
  BY <1>4, <1>5 DEF n

LEMMA FailedTyped ==
    ASSUME NEW m \in MeaningType
    PROVE  /\ Failed(m) \in MeaningType /\ Grows(m, Failed(m)) /\ Failed(m).over = TRUE
           /\ Failed(m).calls = Append(m.calls, <<"closeRecv", <<>>>>) /\ Failed(m).out = m.out
<1> DEFINE n == Called(m, "closeRecv", <<>>)
<1>1. <<"closeRecv", <<>>>> \in Events
  <2>1. <<>> \in Seq(Bytes)
    OBVIOUS
  <2> QED
    BY <2>1 DEF Events
<1>2. /\ n \in MeaningType /\ Grows(m, n)
      /\ n.calls = Append(m.calls, <<"closeRecv", <<>>>>) /\ n.out = m.out
  BY <1>1, CalledTyped
<1> HIDE DEF n
<1>3. Failed(m) = [n EXCEPT !.over = TRUE]
  BY DEF Failed, n
<1>4. /\ Failed(m) \in MeaningType /\ Failed(m).over = TRUE
      /\ Failed(m).calls = n.calls /\ Failed(m).out = n.out
  BY <1>2, <1>3 DEF MeaningType
<1> QED
  BY <1>2, <1>4 DEF Grows

LEMMA PendingTyped ==
    ASSUME NEW m \in MeaningType, NEW op \in {0, Text, Binary}, NEW s \in Seq(Bytes)
    PROVE  /\ Pending(m, op, s) \in MeaningType /\ Grows(m, Pending(m, op, s))
           /\ Pending(m, op, s).calls = m.calls /\ Pending(m, op, s).out = m.out
           /\ Pending(m, op, s).pending = op /\ Pending(m, op, s).payload = s
           /\ Pending(m, op, s).over = m.over
<1>1. /\ Pending(m, op, s) \in MeaningType
      /\ Pending(m, op, s).calls = m.calls /\ Pending(m, op, s).out = m.out
      /\ Pending(m, op, s).pending = op /\ Pending(m, op, s).payload = s
      /\ Pending(m, op, s).over = m.over
  BY DEF Pending, MeaningType
<1> QED
  BY <1>1, GrowsNot DEF Grows

LEMMA MessageTyped ==
    ASSUME NEW m \in MeaningType, NEW op \in {Text, Binary}, NEW s \in Seq(Bytes)
    PROVE  /\ Message(m, op, s) \in MeaningType /\ Grows(m, Message(m, op, s))
           /\ Message(m, op, s).calls = Append(m.calls, <<Name(op), s>>)
           /\ Message(m, op, s).out = m.out \o SendMessage(op, s)
           /\ Message(m, op, s).pending = 0 /\ Message(m, op, s).payload = <<>>
           /\ Message(m, op, s).over = m.over
<1> DEFINE n == Called(m, Name(op), s)
           o == Answered(n, op, s)
<1>1. <<Name(op), s>> \in Events /\ op \in 0..15
  BY DEF Name, Text, Binary, Events
<1>2. /\ n \in MeaningType /\ Grows(m, n) /\ n.calls = Append(m.calls, <<Name(op), s>>)
      /\ n.out = m.out /\ n.over = m.over
  BY <1>1, CalledTyped
<1> HIDE DEF n
<1>3. /\ o \in MeaningType /\ Grows(n, o) /\ o.out = n.out \o SendMessage(op, s)
      /\ o.calls = n.calls /\ o.over = n.over
  BY <1>1, <1>2, AnsweredTyped
<1>4. Message(m, op, s) = Pending(o, 0, <<>>) /\ <<>> \in Seq(Bytes)
  BY DEF Message, n
<1> HIDE DEF o
<1>5. /\ Message(m, op, s) \in MeaningType
      /\ Message(m, op, s).calls = o.calls /\ Message(m, op, s).out = o.out
      /\ Message(m, op, s).over = o.over
      /\ Message(m, op, s).pending = 0 /\ Message(m, op, s).payload = <<>>
  <2>1. 0 \in {0, Text, Binary}
    OBVIOUS
  <2>2. /\ Pending(o, 0, <<>>) \in MeaningType
        /\ Pending(o, 0, <<>>).calls = o.calls /\ Pending(o, 0, <<>>).out = o.out
        /\ Pending(o, 0, <<>>).over = o.over
        /\ Pending(o, 0, <<>>).pending = 0 /\ Pending(o, 0, <<>>).payload = <<>>
    BY ZenonT(60), <1>3, <1>4, <2>1, PendingTyped
  <2> QED
    BY <1>4, <2>2
<1>6. Grows(m, o)
  BY <1>2, <1>3, GrowsOn
<1> QED
  BY <1>2, <1>3, <1>5, <1>6 DEF Grows

\* One frame: where RFC 6455 has nothing more to say, where it is not legal,
\* and, if it is, for each opcode.
LEMMA AfterIs ==
    ASSUME NEW willing, NEW m \in MeaningType, NEW f
    PROVE  /\ m.over => After(willing, m, f) = m
           /\ ~m.over /\ Illegal(m, f) => After(willing, m, f) = Failed(m)
           /\ ~m.over /\ ~Illegal(m, f) => After(willing, m, f) = Taken(willing, m, f)
BY DEF After, MeaningType

LEMMA OpcodesDiffer ==
    /\ \A op \in {Text, Binary} : op \notin {Continuation, Ping, Pong, Close}
    /\ Continuation \notin {Text, Binary, Ping, Pong, Close}
    /\ Ping \notin {Continuation, Text, Binary, Pong, Close}
    /\ Pong \notin {Continuation, Text, Binary, Ping, Close}
    /\ Close \notin {Continuation, Text, Binary, Ping, Pong}
    /\ {Continuation, Text, Binary, Ping, Pong, Close} \subseteq 0..15
BY DEF Continuation, Text, Binary, Ping, Pong, Close

LEMMA WholeFrame ==
    ASSUME NEW willing, NEW m \in MeaningType, NEW f, ~m.over, ~Illegal(m, f),
           f.opcode \in {Text, Binary}, f.fin
    PROVE  After(willing, m, f) = Message(m, f.opcode, f.content)
<1>1. After(willing, m, f) = Taken(willing, m, f)
  BY AfterIs
<1>2. QED
  BY ZenonT(60), <1>1, OpcodesDiffer DEF Taken

LEMMA FirstFrame ==
    ASSUME NEW willing, NEW m \in MeaningType, NEW f, ~m.over, ~Illegal(m, f),
           f.opcode \in {Text, Binary}, ~f.fin
    PROVE  After(willing, m, f) = Pending(m, f.opcode, f.content)
<1>1. After(willing, m, f) = Taken(willing, m, f)
  BY AfterIs
<1>2. QED
  BY ZenonT(60), <1>1, OpcodesDiffer DEF Taken

LEMMA LastFrame ==
    ASSUME NEW willing, NEW m \in MeaningType, NEW f, ~m.over, ~Illegal(m, f),
           f.opcode = Continuation, f.fin
    PROVE  After(willing, m, f) = Message(m, m.pending, m.payload \o f.content)
<1>1. After(willing, m, f) = Taken(willing, m, f)
  BY AfterIs
<1>2. QED
  BY ZenonT(60), <1>1, OpcodesDiffer DEF Taken

LEMMA InnerFrame ==
    ASSUME NEW willing, NEW m \in MeaningType, NEW f, ~m.over, ~Illegal(m, f),
           f.opcode = Continuation, ~f.fin
    PROVE  After(willing, m, f) = Pending(m, m.pending, m.payload \o f.content)
<1>1. After(willing, m, f) = Taken(willing, m, f)
  BY AfterIs
<1>2. QED
  BY ZenonT(60), <1>1, OpcodesDiffer DEF Taken

LEMMA PingFrame ==
    ASSUME NEW willing, NEW m \in MeaningType, NEW f, ~m.over, ~Illegal(m, f),
           f.opcode = Ping
    PROVE  After(willing, m, f) =
                LET t == Called(m, "onPingCtrlFrame", f.content)
                IN  IF willing[Ping] THEN Answered(t, Pong, f.content) ELSE t
<1>1. After(willing, m, f) = Taken(willing, m, f)
  BY AfterIs
<1>2. QED
  BY ZenonT(60), <1>1, OpcodesDiffer DEF Taken

LEMMA PongFrame ==
    ASSUME NEW willing, NEW m \in MeaningType, NEW f, ~m.over, ~Illegal(m, f),
           f.opcode = Pong
    PROVE  After(willing, m, f) = Called(m, "onPongCtrlFrame", f.content)
<1>1. After(willing, m, f) = Taken(willing, m, f)
  BY AfterIs
<1>2. QED
  BY ZenonT(60), <1>1, OpcodesDiffer DEF Taken

LEMMA ClosingFrame ==
    ASSUME NEW willing, NEW m \in MeaningType, NEW f, ~m.over, ~Illegal(m, f),
           f.opcode = Close
    PROVE  After(willing, m, f) =
                LET t == Called(m, "onCloseCtrlFrame", f.content)
                IN  IF willing[Close] THEN Failed(Answered(t, Close, f.content)) ELSE t
<1>1. After(willing, m, f) = Taken(willing, m, f)
  BY AfterIs
<1>2. QED
  BY ZenonT(60), <1>1, OpcodesDiffer DEF Taken

LEMMA OtherFrame ==
    ASSUME NEW willing, NEW m \in MeaningType, NEW f, ~m.over, ~Illegal(m, f),
           f.opcode \notin {Continuation, Text, Binary, Ping, Pong, Close}
    PROVE  After(willing, m, f) = m
<1>1. After(willing, m, f) = Taken(willing, m, f)
  BY AfterIs
<1>2. QED
  BY ZenonT(60), <1>1, OpcodesDiffer DEF Taken

\* A frame adds to what was called and answered.
LEMMA AfterTyped ==
    ASSUME NEW willing, NEW m \in MeaningType, NEW f, Sendable(f)
    PROVE  After(willing, m, f) \in MeaningType /\ Grows(m, After(willing, m, f))
<1>1. f.content \in Seq(Bytes) /\ f.opcode \in 0..15 /\ f.fin \in BOOLEAN
  BY DEF Sendable
<1>2. CASE m.over
  BY <1>2, AfterIs, GrowsNot
<1>3. CASE ~m.over /\ Illegal(m, f)
  <2>1. After(willing, m, f) = Failed(m)
    BY <1>3, AfterIs
  <2> QED
    BY <2>1, FailedTyped
<1>4. CASE ~m.over /\ ~Illegal(m, f) /\ f.opcode \in {Text, Binary}
  <2>1. CASE f.fin
    <3>1. After(willing, m, f) = Message(m, f.opcode, f.content)
      BY <1>4, <2>1, WholeFrame
    <3> QED
      BY <1>1, <1>4, <3>1, MessageTyped
  <2>2. CASE ~f.fin
    <3>1. After(willing, m, f) = Pending(m, f.opcode, f.content)
      BY <1>4, <2>2, FirstFrame
    <3> QED
      BY SMTT(60), <1>1, <1>4, <3>1, PendingTyped
  <2> QED
    BY <2>1, <2>2
<1>5. CASE ~m.over /\ ~Illegal(m, f) /\ f.opcode = Continuation
  <2>1. m.pending \in {Text, Binary}
    BY <1>5 DEF Illegal, MeaningType
  <2>2. m.payload \o f.content \in Seq(Bytes)
    BY <1>1, Joining DEF MeaningType
  <2>3. CASE f.fin
    <3>1. After(willing, m, f) = Message(m, m.pending, m.payload \o f.content)
      BY <1>5, <2>3, LastFrame
    <3> QED
      BY ZenonT(60), <2>1, <2>2, <3>1, MessageTyped
  <2>4. CASE ~f.fin
    <3>1. After(willing, m, f) = Pending(m, m.pending, m.payload \o f.content)
      BY <1>5, <2>4, InnerFrame
    <3> QED
      <4>1. m.pending \in {0, Text, Binary}
        BY <2>1
      <4>2. \A s \in Seq(Bytes) : /\ Pending(m, m.pending, s) \in MeaningType
                                  /\ Grows(m, Pending(m, m.pending, s))
        BY ZenonT(60), <4>1, PendingTyped
      <4> QED
        BY ZenonT(60), <2>2, <3>1, <4>2
  <2> QED
    BY <2>3, <2>4
<1>6. /\ <<"onPingCtrlFrame", f.content>> \in Events /\ <<"onPongCtrlFrame", f.content>> \in Events
      /\ <<"onCloseCtrlFrame", f.content>> \in Events /\ Pong \in 0..15 /\ Close \in 0..15
  BY <1>1 DEF Events, Pong, Close
<1>7. CASE ~m.over /\ ~Illegal(m, f) /\ f.opcode = Ping
  <2> DEFINE t == Called(m, "onPingCtrlFrame", f.content)
  <2>1. After(willing, m, f) = IF willing[Ping] THEN Answered(t, Pong, f.content) ELSE t
    BY <1>7, PingFrame
  <2>2. t \in MeaningType /\ Grows(m, t)
    BY <1>6, CalledTyped
  <2> HIDE DEF t
  <2>3. Answered(t, Pong, f.content) \in MeaningType /\ Grows(t, Answered(t, Pong, f.content))
    BY <1>1, <1>6, <2>2, AnsweredTyped
  <2>4. Grows(m, Answered(t, Pong, f.content))
    BY <2>2, <2>3, GrowsOn
  <2> QED
    BY <2>1, <2>2, <2>3, <2>4
<1>8. CASE ~m.over /\ ~Illegal(m, f) /\ f.opcode = Pong
  <2>1. After(willing, m, f) = Called(m, "onPongCtrlFrame", f.content)
    BY <1>8, PongFrame
  <2> QED
    <3>1. /\ Called(m, "onPongCtrlFrame", f.content) \in MeaningType
          /\ Grows(m, Called(m, "onPongCtrlFrame", f.content))
      BY <1>6, CalledTyped
    <3> QED
      BY <2>1, <3>1
<1>9. CASE ~m.over /\ ~Illegal(m, f) /\ f.opcode = Close
  <2> DEFINE t == Called(m, "onCloseCtrlFrame", f.content)
             u == Answered(t, Close, f.content)
  <2>1. After(willing, m, f) = IF willing[Close] THEN Failed(u) ELSE t
    BY <1>9, ClosingFrame
  <2>2. t \in MeaningType /\ Grows(m, t)
    BY <1>6, CalledTyped
  <2> HIDE DEF t
  <2>3. u \in MeaningType /\ Grows(t, u)
    BY <1>1, <1>6, <2>2, AnsweredTyped
  <2> HIDE DEF u
  <2>4. Failed(u) \in MeaningType /\ Grows(u, Failed(u))
    BY <2>3, FailedTyped
  <2>5. Grows(m, u)
    BY <2>2, <2>3, GrowsOn
  <2>6. Grows(m, Failed(u))
    BY <2>3, <2>4, <2>5, GrowsOn
  <2> QED
    BY <2>1, <2>2, <2>4, <2>6
<1>10. CASE /\ ~m.over /\ ~Illegal(m, f)
            /\ f.opcode \notin {Continuation, Text, Binary, Ping, Pong, Close}
  <2>1. After(willing, m, f) = m
    BY <1>10, OtherFrame
  <2> QED
    BY <2>1, GrowsNot
<1> QED
  BY <1>2, <1>3, <1>4, <1>5, <1>7, <1>8, <1>9, <1>10

\* MeaningOf, which is recursive, is what its definition says.
LEMMA MeaningDefined ==
    ASSUME NEW willing, NEW s, Len(s) \in Nat
    PROVE  /\ MeaningOf(willing, s)[0] = Start
           /\ \A k \in 1..Len(s) :
                MeaningOf(willing, s)[k] = After(willing, MeaningOf(willing, s)[k - 1], s[k])
<1> DEFINE N == Len(s)
           next(g, k) == IF k = 0 THEN Start ELSE After(willing, g[k - 1], s[k])
           P == {m \in Nat : \E g : \A k \in 0..m : g[k] = next(g, k)}
<1>1. N \in Nat
  OBVIOUS
<1> HIDE DEF N
<1>2. 0 \in P
  <2> DEFINE g == [k \in {0} |-> Start]
  <2>1. \A k \in 0..0 : g[k] = next(g, k)
    OBVIOUS
  <2> QED
    BY <2>1
<1>3. ASSUME NEW m \in Nat, m \in P
      PROVE  m + 1 \in P
  <2>1. PICK g : \A k \in 0..m : g[k] = next(g, k)
    <3> HIDE DEF next
    <3> QED
      BY ZenonT(60), <1>3
  <2> DEFINE h == [k \in 0..(m + 1) |-> IF k = m + 1 THEN After(willing, g[m], s[m + 1]) ELSE g[k]]
  <2>2. \A k \in 0..(m + 1) : h[k] = IF k = m + 1 THEN After(willing, g[m], s[m + 1]) ELSE g[k]
    OBVIOUS
  <2> HIDE DEF h
  <2>3. ASSUME NEW k \in 0..(m + 1)
        PROVE  h[k] = next(h, k)
    <3>1. CASE k = m + 1
      <4>1. m \in 0..(m + 1) /\ m # m + 1 /\ k # 0 /\ k - 1 = m
        BY <3>1
      <4>2. h[m] = g[m] /\ h[k] = After(willing, g[m], s[m + 1])
        BY <2>2, <3>1, <4>1
      <4> QED
        BY <3>1, <4>1, <4>2
    <3>2. CASE k = 0
      <4>1. 0 # m + 1 /\ 0 \in 0..m
        OBVIOUS
      <4> QED
        BY <2>1, <2>2, <3>2, <4>1
    <3>3. CASE k # m + 1 /\ k # 0
      <4>1. k \in 0..m /\ k - 1 \in 0..(m + 1) /\ k - 1 # m + 1
        BY <3>3
      <4>2. h[k] = g[k] /\ h[k - 1] = g[k - 1]
        BY <2>2, <3>3, <4>1
      <4>3. g[k] = After(willing, g[k - 1], s[k])
        BY <2>1, <3>3, <4>1
      <4> QED
        BY <3>3, <4>2, <4>3
    <3> QED
      BY <3>1, <3>2, <3>3
  <2> QED
    BY <2>3
<1>4. N \in P
  <2>1. P \in SUBSET Nat /\ \A m \in Nat : m \in P /\ m < N => m + 1 \in P
    BY <1>3
  <2> HIDE DEF P
  <2>2. \A m \in 0..N : m \in P
    BY <1>1, <1>2, <2>1, Induction
  <2> QED
    BY <1>1, <2>2
<1>5. PICK g : \A k \in 0..N : g[k] = next(g, k)
  <2> HIDE DEF next
  <2> QED
    BY ZenonT(60), <1>4
<1> DEFINE after == [k \in 0..N |-> g[k]]
           Fixed(h) == h = [k \in 0..N |-> next(h, k)]
<1>6. Fixed(after)
  <2>1. ASSUME NEW k \in 0..N
        PROVE  after[k] = next(after, k)
    <3>1. k = 0 \/ after[k - 1] = g[k - 1]
      BY <1>1
    <3> QED
      BY <1>5, <3>1
  <2> QED
    BY <2>1
<1>7. MeaningOf(willing, s) = CHOOSE h : Fixed(h)
  BY DEF MeaningOf, N
<1> HIDE DEF Fixed, after
<1>8. Fixed(MeaningOf(willing, s))
  BY <1>6, <1>7
<1>9. \A k \in 0..N : MeaningOf(willing, s)[k] = next(MeaningOf(willing, s), k)
  BY ZenonT(60), <1>8 DEF Fixed
<1>10. 0 \in 0..N /\ \A k \in 1..N : k \in 0..N /\ k # 0
  BY <1>1
<1>11. /\ MeaningOf(willing, s)[0] = Start
       /\ \A k \in 1..N :
            MeaningOf(willing, s)[k] = After(willing, MeaningOf(willing, s)[k - 1], s[k])
  BY ZenonT(60), <1>9, <1>10
<1> QED
  BY ZenonT(60), <1>11 DEF N

LEMMA MeaningTyped ==
    ASSUME NEW willing, NEW s \in Streams
    PROVE  \A k \in 0..Len(s) : MeaningOf(willing, s)[k] \in MeaningType
<1> DEFINE N == Len(s)
           M == MeaningOf(willing, s)
           P == {k \in Nat : k <= N => M[k] \in MeaningType}
<1>1. /\ N \in Nat /\ \A k \in 1..N : Sendable(s[k])
      /\ M[0] = Start /\ \A k \in 1..N : M[k] = After(willing, M[k - 1], s[k])
  BY FrameTyped, MeaningDefined
<1> HIDE DEF N, M
<1>2. 0 \in P
  <2>1. <<>> \in Seq(Events) /\ <<>> \in Seq(Nat) /\ <<>> \in Seq(Bytes)
    OBVIOUS
  <2>2. Start \in MeaningType
    BY <2>1 DEF Start, MeaningType
  <2> QED
    BY <1>1, <2>2
<1>3. ASSUME NEW k \in Nat, k \in P, k < N
      PROVE  k + 1 \in P
  <2>1. k <= N /\ k + 1 \in 1..N /\ (k + 1) - 1 = k /\ k + 1 \in Nat
    BY <1>1, <1>3
  <2>2. M[k] \in MeaningType /\ Sendable(s[k + 1]) /\ M[k + 1] = After(willing, M[k], s[k + 1])
    BY <1>1, <1>3, <2>1
  <2>3. M[k + 1] \in MeaningType
    BY <2>2, AfterTyped
  <2> QED
    BY <2>1, <2>3
<1>4. \A k \in 0..N : k \in P
  <2>1. P \in SUBSET Nat /\ \A k \in Nat : k \in P /\ k < N => k + 1 \in P
    BY <1>3
  <2> HIDE DEF P
  <2> QED
    BY <1>1, <1>2, <2>1, Induction
<1>5. \A k \in 0..N : k \in Nat /\ k <= N
  BY <1>1
<1> QED
  BY <1>4, <1>5 DEF N, M

\* What was called and answered after fewer frames is a beginning.
LEMMA MeaningGrows ==
    ASSUME NEW willing, NEW s \in Streams, NEW n \in 0..Len(s), NEW k \in 0..n
    PROVE  Grows(MeaningOf(willing, s)[k], MeaningOf(willing, s)[n])
<1> DEFINE N == Len(s)
           M == MeaningOf(willing, s)
           P == {d \in Nat : k + d <= N => Grows(M[k], M[k + d])}
<1>1. /\ N \in Nat /\ \A j \in 1..N : Sendable(s[j])
      /\ \A j \in 1..N : M[j] = After(willing, M[j - 1], s[j])
      /\ \A j \in 0..N : M[j] \in MeaningType
  BY FrameTyped, MeaningDefined, MeaningTyped
<1>2. n \in 0..N /\ k \in 0..N /\ n - k \in 0..N /\ n - k \in Nat /\ k + (n - k) = n
  BY <1>1
<1> HIDE DEF N, M
<1>3. 0 \in P
  <2>1. k + 0 = k
    BY <1>2
  <2> QED
    BY <1>1, <1>2, <2>1, GrowsNot
<1>4. ASSUME NEW d \in Nat, d \in P, d < N
      PROVE  d + 1 \in P
  <2> SUFFICES ASSUME k + (d + 1) <= N
               PROVE  Grows(M[k], M[k + (d + 1)])
    BY <1>4
  <2>1. /\ k + d <= N /\ k + d \in 0..N /\ k + (d + 1) \in 1..N /\ k + (d + 1) \in 0..N
        /\ (k + (d + 1)) - 1 = k + d
    BY <1>1, <1>2
  <2>2. Grows(M[k], M[k + d])
    BY <1>4, <2>1
  <2>3. M[k] \in MeaningType /\ M[k + d] \in MeaningType /\ M[k + (d + 1)] \in MeaningType
    BY <1>1, <1>2, <2>1
  <2>4. Grows(M[k + d], M[k + (d + 1)])
    BY <1>1, <2>1, <2>3, AfterTyped
  <2> QED
    BY <2>2, <2>3, <2>4, GrowsOn
<1>5. \A d \in 0..N : d \in P
  <2>1. P \in SUBSET Nat /\ \A d \in Nat : d \in P /\ d < N => d + 1 \in P
    BY <1>4
  <2> HIDE DEF P
  <2> QED
    BY <1>1, <1>3, <2>1, Induction
<1>6. n - k \in P
  BY <1>2, <1>5
<1>7. k + (n - k) <= N
  BY <1>1, <1>2
<1> QED
  BY <1>2, <1>6, <1>7 DEF M

(***************************************************************************)
(* The types, and how many bytes a step has                                *)
(***************************************************************************)
LEMMA LengthIs ==
    ASSUME NEW n \in Nat
    PROVE  /\ Lesser(n, BUFSIZE) \in Nat /\ Lesser(n, BUFSIZE) <= n /\ Lesser(n, BUFSIZE) <= BUFSIZE
           /\ n <= 8 => Lesser(n, BUFSIZE) = n
           /\ n <= BUFSIZE => Lesser(n, BUFSIZE) = n
           /\ n > BUFSIZE => Lesser(n, BUFSIZE) = BUFSIZE
BY FrameAssumption DEF Lesser

LEMMA EventsTyped ==
    ASSUME NEW s \in Seq(Bytes)
    PROVE  /\ <<"closeRecv", <<>>>> \in Events /\ <<"onPingCtrlFrame", s>> \in Events
           /\ <<"onPongCtrlFrame", s>> \in Events /\ <<"onCloseCtrlFrame", s>> \in Events
           /\ \A op \in {Text, Binary} : <<Name(op), s>> \in Events
<1>1. <<>> \in Seq(Bytes)
  OBVIOUS
<1> QED
  BY <1>1 DEF Events, Name

\* The buffer of a step that has its bytes.
LEMMA BufferIs ==
    ASSUME TypeOK, NEW s, Decode(s)
    PROVE  /\ bufferRecv \in Seq(Bytes) /\ Len(bufferRecv) = Length /\ Length \in Nat
           /\ \A n \in 1..Length : bufferRecv[n] \in Bytes
           /\ s = "FIRSTBYTE" => Length = 1
           /\ s = "LENGTH" /\ msgLength = 0 => Length = 1
           /\ s = "LENGTH" /\ msgLength # 0 =>
                \/ msgLength = 126 /\ readLength = 2 /\ Length = 2
                \/ msgLength = 127 /\ readLength = 8 /\ Length = 8
           /\ s = "MASK" => Length = 4
<1>1. bufferRecv \in Seq(Bytes) /\ Len(bufferRecv) = Length /\ readLength \in Nat /\ step = s
  BY DEF TypeOK, Decode
<1>2. Length \in Nat /\ (readLength <= 8 => Length = readLength)
  BY <1>1, LengthIs DEF Length
<1>3. \A n \in 1..Length : bufferRecv[n] \in Bytes
  BY <1>1, ElementTyped
<1>4. CASE s = "FIRSTBYTE"
  <2>1. readLength = 1
    BY <1>1, <1>4 DEF TypeOK, StepOK
  <2> QED
    BY <1>1, <1>2, <1>3, <1>4, <2>1
<1>5. CASE s = "LENGTH"
  <2>1. <<msgLength, readLength>> \in {<<0, 1>>, <<126, 2>>, <<127, 8>>}
    BY <1>1, <1>5 DEF TypeOK, StepOK
  <2>2. \/ msgLength = 0 /\ readLength = 1
        \/ msgLength = 126 /\ readLength = 2
        \/ msgLength = 127 /\ readLength = 8
    BY <2>1
  <2> QED
    BY <1>1, <1>2, <1>3, <1>5, <2>2
<1>6. CASE s = "MASK"
  <2>1. readLength = 4
    BY <1>1, <1>6 DEF TypeOK, StepOK
  <2> QED
    BY <1>1, <1>2, <1>3, <1>6, <2>1
<1> QED
  BY <1>1, <1>2, <1>3, <1>4, <1>5, <1>6

\* The content with what was received.
LEMMA ContentIs ==
    ASSUME TypeOK, Decode("CONTENT")
    PROVE  /\ msgContent = Null => Content = Null
           /\ msgContent # Null =>
                /\ Content \in Seq(Bytes) /\ Content # Null
                /\ Len(Content) = Len(msgContent) + Length
                /\ readLength + Len(msgContent) = msgLength /\ Len(msgContent) \in Nat
           /\ Payload \in Seq(Bytes)
<1>1. CASE msgContent = Null
  <2>1. <<>> \in Seq(Bytes)
    OBVIOUS
  <2> QED
    BY <1>1, <2>1 DEF Content, Payload
<1>2. CASE msgContent # Null
  <2>1. /\ msgContent \in Seq(Bytes) /\ msgKeys \in Seq(Bytes) /\ Len(msgKeys) = 4
        /\ step = "CONTENT" /\ Len(msgContent) \in Nat
    BY <1>2 DEF TypeOK, Decode
  <2>2. readLength + Len(msgContent) = msgLength
    BY <1>2, <2>1 DEF TypeOK, StepOK
  <2>3. bufferRecv \in Seq(Bytes) /\ Len(bufferRecv) = Length
    BY BufferIs
  <2>4. /\ Masked(bufferRecv, msgKeys, Len(msgContent)) \in Seq(Bytes)
        /\ Len(Masked(bufferRecv, msgKeys, Len(msgContent))) = Length
    BY <2>1, <2>3, MaskedTyped
  <2>5. Content = msgContent \o Masked(bufferRecv, msgKeys, Len(msgContent))
    BY <1>2 DEF Content
  <2>6. Content \in Seq(Bytes) /\ Len(Content) = Len(msgContent) + Length
    BY ZenonT(60), <2>1, <2>4, <2>5, Joining
  <2>7. Content # Null
    BY <2>6, FrameAssumption
  <2> QED
    BY <1>2, <2>1, <2>2, <2>6, <2>7 DEF Payload
<1> QED
  BY <1>1, <1>2

\* The bytes that a step leaves behind are those of no other step.
LEMMA DecodeTyped ==
    ASSUME TypeOK, NEW s, Decode(s), readLength' \in Nat
    PROVE  /\ frames' \in Streams /\ accepts' \in [{Ping, Close} -> BOOLEAN]
           /\ net' \in Seq(Bytes) /\ bufferRecv' \in Seq(Bytes) /\ Len(bufferRecv') <= Length'
<1>1. <<>> \in Seq(Bytes) /\ Len(<<>>) = 0
  OBVIOUS
<1>2. Length' \in Nat
  BY LengthIs DEF Length
<1> QED
  BY <1>1, <1>2 DEF TypeOK, Decode

LEMMA CallTyped ==
    ASSUME TypeOK, NEW e \in Events
    PROVE  Append(calls, e) \in Seq(Events)
BY DEF TypeOK

LEMMA SentTyped ==
    ASSUME TypeOK, NEW op \in 0..15, NEW s \in Seq(Bytes)
    PROVE  out \o SendMessage(op, s) \in Seq(Nat)
<1>1. SendMessage(op, s) \in Seq(Nat) /\ out \in Seq(Nat)
  BY AnswerIs DEF TypeOK
<1> QED
  BY <1>1, Joining

\* What the end of a frame, and of the connection, leaves to be shown.
LEMMA NextFrameTyped ==
    ASSUME TypeOK, Decode("CONTENT"), NextFrame,
           fragmented' \in BOOLEAN, fragmentedPayload' \in Seq(Bytes),
           IF fragmented' THEN fragmentedOpcode' \in {Text, Binary}
                          ELSE fragmentedOpcode' = 0 /\ fragmentedPayload' = <<>>,
           calls' \in Seq(Events), out' \in Seq(Nat)
    PROVE  TypeOK'
<1>1. /\ fin' = FALSE /\ opcode' = 0 /\ msgKeys' = NoKeys /\ msgLength' = 0 /\ msgContent' = Null
      /\ step' = "FIRSTBYTE" /\ readLength' = 1 /\ closing' = closing /\ ended' = ended
  BY DEF NextFrame, Goto
<1>2. StepOK'
  BY <1>1 DEF StepOK
<1>3. NoKeys \in Seq(Bytes) /\ Len(NoKeys) = 4
  BY DEF NoKeys, Bytes
<1>4. readLength' \in Nat
  BY <1>1
<1>5. /\ frames' \in Streams /\ accepts' \in [{Ping, Close} -> BOOLEAN]
      /\ net' \in Seq(Bytes) /\ bufferRecv' \in Seq(Bytes) /\ Len(bufferRecv') <= Length'
  BY <1>4, DecodeTyped
<1>6. closing \in BOOLEAN /\ ended \in BOOLEAN /\ step' \in Steps
  BY <1>1 DEF TypeOK, Steps
<1>7. /\ fin' \in BOOLEAN /\ opcode' \in 0..15 /\ msgLength' \in Nat
      /\ msgKeys' \in Seq(Bytes) /\ Len(msgKeys') = 4 /\ msgContent' \in Seq(Bytes) \cup {Null}
      /\ (msgContent' # Null => msgLength' <= MallocMax)
  <2>1. opcode' = 0 /\ msgLength' = 0
    BY <1>1
  <2>2. opcode' \in 0..15 /\ msgLength' \in Nat
    BY <2>1
  <2> QED
    BY ZenonT(60), <1>1, <1>3, <2>2
<1>8. closing' \in BOOLEAN /\ ended' \in BOOLEAN
  BY <1>1, <1>6
<1> QED
  BY ZenonT(60), <1>2, <1>4, <1>5, <1>6, <1>7, <1>8 DEF TypeOK

LEMMA CloseRecvTyped ==
    ASSUME TypeOK, NEW s, Decode(s), CloseRecv, calls' \in Seq(Events), out' \in Seq(Nat)
    PROVE  TypeOK'
<1>1. /\ closing' = TRUE /\ ended' = TRUE
      /\ UNCHANGED <<step, readLength, fin, opcode, msgKeys, msgLength, msgContent,
                     fragmented, fragmentedOpcode, fragmentedPayload>>
  BY DEF CloseRecv, headerVars, fragmentVars
<1>2. StepOK'
  BY <1>1 DEF StepOK, TypeOK
<1>3. readLength' \in Nat
  BY <1>1 DEF TypeOK
<1>4. /\ frames' \in Streams /\ accepts' \in [{Ping, Close} -> BOOLEAN]
      /\ net' \in Seq(Bytes) /\ bufferRecv' \in Seq(Bytes) /\ Len(bufferRecv') <= Length'
  BY <1>3, DecodeTyped
<1> QED
  BY <1>1, <1>2, <1>4 DEF TypeOK

\* What the header's steps leave to be shown.
LEMMA HeaderTyped ==
    ASSUME TypeOK, NEW s, Decode(s), UNCHANGED <<fragmentVars, closing, ended, calls, out>>,
           step' \in Steps, readLength' \in Nat, msgLength' \in Nat, StepOK',
           msgContent' # Null => msgLength' <= MallocMax,
           fin' \in BOOLEAN, opcode' \in 0..15, msgKeys' \in Seq(Bytes), Len(msgKeys') = 4,
           msgContent' \in Seq(Bytes) \cup {Null}
    PROVE  TypeOK'
<1>1. UNCHANGED <<fragmented, fragmentedOpcode, fragmentedPayload, closing, ended, calls, out>>
  BY DEF fragmentVars
<1>2. /\ frames' \in Streams /\ accepts' \in [{Ping, Close} -> BOOLEAN]
      /\ net' \in Seq(Bytes) /\ bufferRecv' \in Seq(Bytes) /\ Len(bufferRecv') <= Length'
  BY DecodeTyped
<1> QED
  BY <1>1, <1>2 DEF TypeOK

\* Value, which is recursive, takes the octets one by one.
LEMMA ValueDefined ==
    ASSUME NEW s, Len(s) \in Nat
    PROVE  \E v : /\ v[0] = 0 /\ Value(s) = v[Len(s)]
                  /\ \A k \in 1..Len(s) : v[k] = More(v[k - 1], s[k])
<1> DEFINE N == Len(s)
           next(g, k) == IF k = 0 THEN 0 ELSE More(g[k - 1], s[k])
           P == {m \in Nat : \E g : \A k \in 0..m : g[k] = next(g, k)}
<1>1. N \in Nat
  OBVIOUS
<1>2. Value(s) = (CHOOSE h : h = [k \in 0..N |-> next(h, k)])[N]
  BY DEF Value, More
<1> HIDE DEF N
<1>3. 0 \in P
  <2> DEFINE g == [k \in {0} |-> 0]
  <2>1. \A k \in 0..0 : g[k] = next(g, k)
    OBVIOUS
  <2> QED
    BY <2>1
<1>4. ASSUME NEW m \in Nat, m \in P
      PROVE  m + 1 \in P
  <2>1. PICK g : \A k \in 0..m : g[k] = next(g, k)
    <3> HIDE DEF next
    <3> QED
      BY ZenonT(60), <1>4
  <2> DEFINE h == [k \in 0..(m + 1) |-> IF k = m + 1 THEN More(g[m], s[m + 1]) ELSE g[k]]
  <2>2. \A k \in 0..(m + 1) : h[k] = IF k = m + 1 THEN More(g[m], s[m + 1]) ELSE g[k]
    OBVIOUS
  <2> HIDE DEF h
  <2>3. ASSUME NEW k \in 0..(m + 1)
        PROVE  h[k] = next(h, k)
    <3>1. CASE k = m + 1
      <4>1. m \in 0..(m + 1) /\ m # m + 1 /\ k # 0 /\ k - 1 = m
        BY <3>1
      <4>2. h[m] = g[m] /\ h[k] = More(g[m], s[m + 1])
        BY <2>2, <3>1, <4>1
      <4> QED
        BY <3>1, <4>1, <4>2
    <3>2. CASE k = 0
      <4>1. 0 # m + 1 /\ 0 \in 0..m
        OBVIOUS
      <4> QED
        BY <2>1, <2>2, <3>2, <4>1
    <3>3. CASE k # m + 1 /\ k # 0
      <4>1. k \in 0..m /\ k - 1 \in 0..(m + 1) /\ k - 1 # m + 1
        BY <3>3
      <4>2. h[k] = g[k] /\ h[k - 1] = g[k - 1]
        BY <2>2, <3>3, <4>1
      <4>3. g[k] = More(g[k - 1], s[k])
        BY <2>1, <3>3, <4>1
      <4> QED
        BY <3>3, <4>2, <4>3
    <3> QED
      BY <3>1, <3>2, <3>3
  <2> QED
    BY <2>3
<1>5. N \in P
  <2>1. P \in SUBSET Nat /\ \A m \in Nat : m \in P /\ m < N => m + 1 \in P
    BY <1>4
  <2> HIDE DEF P
  <2>2. \A m \in 0..N : m \in P
    BY <1>1, <1>3, <2>1, Induction
  <2> QED
    BY <1>1, <2>2
<1>6. PICK g : \A k \in 0..N : g[k] = next(g, k)
  <2> HIDE DEF next
  <2> QED
    BY ZenonT(60), <1>5
<1> DEFINE first == [k \in 0..N |-> g[k]]
           Fixed(h) == h = [k \in 0..N |-> next(h, k)]
<1>7. Fixed(first)
  <2>1. ASSUME NEW k \in 0..N
        PROVE  first[k] = next(first, k)
    <3>1. k = 0 \/ first[k - 1] = g[k - 1]
      BY <1>1
    <3> QED
      BY <1>6, <3>1
  <2> QED
    BY <2>1
<1> DEFINE v == CHOOSE h : Fixed(h)
<1>8. Value(s) = v[N]
  BY <1>2
<1> HIDE DEF Fixed, first
<1>9. Fixed(v)
  BY <1>7
<1> HIDE DEF v
<1>10. \A k \in 0..N : v[k] = next(v, k)
  BY ZenonT(60), <1>9 DEF Fixed
<1>11. 0 \in 0..N /\ \A k \in 1..N : k \in 0..N /\ k # 0
  BY <1>1
<1>12. v[0] = 0 /\ \A k \in 1..N : v[k] = More(v[k - 1], s[k])
  BY ZenonT(60), <1>10, <1>11
<1> QED
  BY ZenonT(60), <1>8, <1>12 DEF N

LEMMA MoreTyped == \A x, y \in Nat : More(x, y) \in Nat
<1>1. Huge \in Nat
  BY FrameAssumption DEF Huge
<1> QED
  BY <1>1 DEF Lesser, More

LEMMA ValueTyped ==
    ASSUME NEW s \in Seq(Bytes)
    PROVE  Value(s) \in Nat
<1> DEFINE N == Len(s)
<1>1. PICK v : /\ v[0] = 0 /\ Value(s) = v[N]
               /\ \A k \in 1..N : v[k] = More(v[k - 1], s[k])
  <2>1. Len(s) \in Nat
    OBVIOUS
  <2> QED
    BY ZenonT(60), <2>1, ValueDefined
<1>2. N \in Nat /\ \A k \in 1..N : s[k] \in Nat
  <2>1. Len(s) \in Nat /\ \A k \in 1..Len(s) : s[k] \in Bytes
    BY ElementTyped
  <2>2. Bytes \subseteq Nat
    BY DEF Bytes
  <2> QED
    BY <2>1, <2>2
<1> DEFINE P == {k \in Nat : k <= N => v[k] \in Nat}
<1> HIDE DEF N
<1>3. 0 \in P
  BY <1>1
<1>4. ASSUME NEW k \in Nat, k \in P, k < N
      PROVE  k + 1 \in P
  <2>1. k <= N /\ k + 1 \in 1..N /\ (k + 1) - 1 = k /\ k + 1 \in Nat
    BY <1>2, <1>4
  <2>2. v[k] \in Nat /\ s[k + 1] \in Nat
    BY <1>2, <1>4, <2>1
  <2>3. v[k + 1] = More(v[k], s[k + 1])
    <3>1. v[k + 1] = More(v[(k + 1) - 1], s[k + 1])
      BY ZenonT(60), <1>1, <2>1
    <3> QED
      BY ZenonT(60), <2>1, <3>1
  <2>4. v[k + 1] \in Nat
    BY ZenonT(60), <2>2, <2>3, MoreTyped
  <2> QED
    BY <2>1, <2>4
<1>5. \A k \in 0..N : k \in P
  <2>1. P \in SUBSET Nat /\ \A k \in Nat : k \in P /\ k < N => k + 1 \in P
    BY <1>4
  <2> HIDE DEF P
  <2> QED
    BY <1>2, <1>3, <2>1, Induction
<1>6. N \in 0..N /\ N <= N
  BY <1>2
<1>7. v[N] \in Nat
  BY <1>5, <1>6
<1> QED
  BY <1>1, <1>7

LEMMA HeaderStepsTyped ==
    ASSUME TypeOK, FirstByte \/ LengthByte \/ ExtendedLength \/ Mask
    PROVE  TypeOK'
<1>1. /\ fin \in BOOLEAN /\ opcode \in 0..15 /\ msgKeys \in Seq(Bytes) /\ Len(msgKeys) = 4
      /\ msgContent \in Seq(Bytes) \cup {Null} /\ msgLength \in Nat
      /\ calls \in Seq(Events) /\ out \in Seq(Nat) /\ <<>> \in Seq(Bytes) /\ Len(<<>>) = 0
  BY DEF TypeOK
<1>2. CASE FirstByte
  <2>1. /\ Decode("FIRSTBYTE") /\ fin' = (bufferRecv[1] >= 128) /\ opcode' = bufferRecv[1] % 16
        /\ step' = "LENGTH" /\ readLength' = 1
        /\ UNCHANGED <<msgKeys, msgLength, msgContent, fragmentVars, closing, ended, calls, out>>
    BY <1>2 DEF FirstByte, Goto
  <2>2. bufferRecv[1] \in Bytes
    BY <2>1, BufferIs
  <2>3. opcode' \in 0..15
    BY <2>1, <2>2 DEF Bytes
  <2>4. msgLength = 0 /\ msgContent = Null
    BY <2>1 DEF Decode, TypeOK, StepOK
  <2>5. StepOK'
    BY <2>1, <2>4 DEF StepOK
  <2>6. fin' \in BOOLEAN
    BY <2>1
  <2> QED
    BY <1>1, <2>1, <2>3, <2>4, <2>5, <2>6, HeaderTyped DEF Steps
<1>3. CASE LengthByte
  <2> DEFINE n == bufferRecv[1] % 128
  <2>1. Decode("LENGTH") /\ msgLength = 0 /\ UNCHANGED out
    BY <1>3 DEF LengthByte
  <2>2. bufferRecv[1] \in Bytes
    BY <2>1, BufferIs
  <2>3. CASE bufferRecv[1] < 128
    <3>1. Call("closeRecv", <<>>) /\ CloseRecv
      BY <1>3, <2>3 DEF LengthByte
    <3>2. calls' \in Seq(Events) /\ out' \in Seq(Nat)
      BY <1>1, <2>1, <3>1, EventsTyped, CallTyped DEF Call
    <3> QED
      BY <2>1, <3>1, <3>2, CloseRecvTyped
  <2>4. CASE ~(bufferRecv[1] < 128)
    <3>1. /\ IF n = 0
             THEN msgContent' = Null /\ Goto("CONTENT", 0) /\ UNCHANGED msgLength
             ELSE IF n < 126
             THEN Allocate(n)
             ELSE /\ msgLength' = n
                  /\ Goto("LENGTH", IF n = 126 THEN 2 ELSE 8)
                  /\ UNCHANGED msgContent
          /\ UNCHANGED <<fin, opcode, msgKeys, fragmentVars, closing, ended, calls, out>>
      BY <1>3, <2>1, <2>4 DEF LengthByte
    <3>2. n \in 0..127 /\ n \in Nat
      BY <2>2 DEF Bytes
    <3>3. msgContent = Null
      BY <2>1 DEF Decode, TypeOK, StepOK
    <3> HIDE DEF n
    <3>4. CASE n = 0
      <4>1. /\ msgContent' = Null /\ step' = "CONTENT" /\ readLength' = 0 /\ msgLength' = 0
        BY <2>1, <3>1, <3>4 DEF Goto
      <4>2. StepOK'
        BY <4>1 DEF StepOK
      <4> QED
        BY <1>1, <2>1, <3>1, <4>1, <4>2, HeaderTyped DEF Steps
    <3>5. CASE n # 0 /\ n < 126
      <4>1. /\ msgContent' = (IF n > MallocMax THEN Null ELSE <<>>)
            /\ step' = "MASK" /\ readLength' = 4 /\ msgLength' = n
        BY <3>1, <3>5 DEF Goto, Allocate
      <4>2. StepOK'
        BY <4>1 DEF StepOK
      <4>3. /\ msgContent' \in Seq(Bytes) \cup {Null}
            /\ (msgContent' # Null => msgLength' <= MallocMax)
        BY <1>1, <3>2, <4>1, FrameAssumption
      <4> QED
        BY <1>1, <2>1, <3>1, <3>2, <4>1, <4>2, <4>3, HeaderTyped DEF Steps
    <3>6. CASE n # 0 /\ ~(n < 126)
      <4>1. /\ msgContent' = Null /\ step' = "LENGTH" /\ msgLength' = n
            /\ readLength' = IF n = 126 THEN 2 ELSE 8
        BY <3>1, <3>3, <3>6 DEF Goto
      <4>2. n = 126 \/ n = 127
        BY <3>2, <3>6
      <4>3. <<msgLength', readLength'>> \in {<<0, 1>>, <<126, 2>>, <<127, 8>>}
        BY <4>1, <4>2
      <4>4. StepOK'
        BY <4>1, <4>3 DEF StepOK
      <4> QED
        BY <1>1, <2>1, <3>1, <3>2, <4>1, <4>4, HeaderTyped DEF Steps
    <3> QED
      BY <3>4, <3>5, <3>6
  <2> QED
    BY <2>3, <2>4
<1>4. CASE ExtendedLength
  <2> DEFINE n == IF msgLength = 126 /\ Value(bufferRecv) = 127 THEN Huge ELSE Value(bufferRecv)
  <2>1. /\ Decode("LENGTH") /\ msgLength # 0
        /\ msgLength' = n /\ msgContent' = (IF n > MallocMax THEN Null ELSE <<>>)
        /\ step' = "MASK" /\ readLength' = 4
        /\ UNCHANGED <<fin, opcode, msgKeys, fragmentVars, closing, ended, calls, out>>
    BY <1>4 DEF ExtendedLength, Allocate, Goto
  <2>2. bufferRecv \in Seq(Bytes) /\ Len(bufferRecv) >= 2
    BY <2>1, BufferIs
  <2>3. n \in Nat
    BY <2>2, ValueTyped, FrameAssumption DEF Huge
  <2> HIDE DEF n
  <2>4. StepOK'
    BY <2>1 DEF StepOK
  <2>5. /\ msgContent' \in Seq(Bytes) \cup {Null}
        /\ (msgContent' # Null => msgLength' <= MallocMax)
    BY <1>1, <2>1, <2>3, FrameAssumption
  <2> QED
    BY <1>1, <2>1, <2>3, <2>4, <2>5, HeaderTyped DEF Steps
<1>5. CASE Mask
  <2>1. /\ Decode("MASK") /\ msgKeys' = bufferRecv
        /\ step' = "CONTENT" /\ readLength' = msgLength
        /\ UNCHANGED <<fin, opcode, msgLength, msgContent, fragmentVars, closing, ended, calls, out>>
    BY <1>5 DEF Mask, Goto
  <2>2. bufferRecv \in Seq(Bytes) /\ Len(bufferRecv) = 4
    BY <2>1, BufferIs
  <2>3. msgContent \in {Null, <<>>} /\ (msgContent # Null => msgLength <= MallocMax)
    BY <2>1 DEF Decode, TypeOK, StepOK
  <2>4. msgContent' # Null => readLength' + Len(msgContent') = msgLength'
    BY <1>1, <2>1, <2>3
  <2>5. StepOK'
    BY <2>1, <2>4 DEF StepOK
  <2> QED
    BY <1>1, <2>1, <2>2, <2>3, <2>5, HeaderTyped DEF Steps
<1> QED
  BY <1>2, <1>3, <1>4, <1>5

LEMMA ContentStepsTyped ==
    ASSUME TypeOK,
           \/ ContentGoesOn \/ ProtocolError \/ WholeMessage \/ FirstFragment
           \/ NextFragment \/ PingPong \/ CloseFrame \/ UnknownOpcode
    PROVE  TypeOK'
<1>1. /\ fin \in BOOLEAN /\ opcode \in 0..15 /\ msgKeys \in Seq(Bytes) /\ Len(msgKeys) = 4
      /\ msgContent \in Seq(Bytes) \cup {Null} /\ msgLength \in Nat /\ readLength \in Nat
      /\ calls \in Seq(Events) /\ out \in Seq(Nat) /\ <<>> \in Seq(Bytes)
      /\ (msgContent # Null => msgLength <= MallocMax)
      /\ fragmented \in BOOLEAN /\ fragmentedPayload \in Seq(Bytes)
      /\ IF fragmented THEN fragmentedOpcode \in {Text, Binary}
                       ELSE fragmentedOpcode = 0 /\ fragmentedPayload = <<>>
  BY DEF TypeOK
<1>2. Decode("CONTENT")
  BY DEF ContentGoesOn, ProtocolError, WholeMessage, FirstFragment, NextFragment, PingPong,
         CloseFrame, UnknownOpcode
<1>3. Payload \in Seq(Bytes)
  BY <1>2, ContentIs
<1>4. /\ <<"closeRecv", <<>>>> \in Events /\ <<"onPingCtrlFrame", Payload>> \in Events
      /\ <<"onPongCtrlFrame", Payload>> \in Events /\ <<"onCloseCtrlFrame", Payload>> \in Events
      /\ \A op \in {Text, Binary}, s \in Seq(Bytes) : <<Name(op), s>> \in Events
  BY <1>3, EventsTyped
<1>5. {Text, Binary, Pong, Close} \subseteq 0..15
  BY OpcodesDiffer
<1>6. CASE ContentGoesOn
  <2>1. /\ Len(Payload) # msgLength /\ msgContent' = Content /\ step' = step
        /\ readLength' = IF readLength > BUFSIZE /\ msgLength # Huge
                         THEN readLength - BUFSIZE ELSE readLength
        /\ UNCHANGED <<fin, opcode, msgKeys, msgLength>>
        /\ UNCHANGED <<fragmentVars, closing, ended, calls, out>>
    BY <1>6 DEF ContentGoesOn, Complete, headerVars
  <2>2. step = "CONTENT"
    BY <1>2 DEF Decode
  <2>3. readLength' \in Nat
    BY <1>1, <2>1, FrameAssumption
  <2>4. /\ msgContent' \in Seq(Bytes) \cup {Null} /\ (msgContent' # Null => msgContent # Null)
    BY <1>2, <2>1, ContentIs
  <2>5. ASSUME msgContent' # Null
        PROVE  readLength' + Len(msgContent') = msgLength'
    <3>1. /\ msgContent # Null /\ Content # Null /\ Len(Content) = Len(msgContent) + Length
          /\ readLength + Len(msgContent) = msgLength /\ Len(msgContent) \in Nat
      BY <1>2, <2>1, <2>5, ContentIs
    <3>2. Len(Content) # msgLength
      BY <2>1, <3>1 DEF Payload
    <3>3. readLength > BUFSIZE /\ Length = BUFSIZE
      <4>1. readLength <= BUFSIZE => Length = readLength
        BY <1>1, LengthIs DEF Length
      <4>2. readLength > BUFSIZE => Length = BUFSIZE
        BY <1>1, LengthIs DEF Length
      <4> QED
        BY <1>1, <3>1, <3>2, <4>1, <4>2, FrameAssumption
    <3>4. msgLength # Huge
      BY <1>1, <3>1, FrameAssumption DEF Huge
    <3>5. readLength' = readLength - BUFSIZE /\ msgLength' = msgLength /\ msgContent' = Content
      BY <2>1, <3>3, <3>4
    <3>6. (readLength - BUFSIZE) + (Len(msgContent) + BUFSIZE) = readLength + Len(msgContent)
      BY <1>1, <3>1, FrameAssumption
    <3> QED
      BY <3>1, <3>3, <3>5, <3>6
  <2>6. StepOK'
    BY <2>1, <2>2, <2>5 DEF StepOK
  <2> QED
    BY <1>1, <1>2, <2>1, <2>2, <2>3, <2>4, <2>6, HeaderTyped DEF Steps
<1>7. CASE ProtocolError
  <2>1. Call("closeRecv", <<>>) /\ CloseRecv /\ UNCHANGED out
    BY <1>7 DEF ProtocolError
  <2>2. calls' \in Seq(Events) /\ out' \in Seq(Nat)
    BY <1>1, <1>4, <2>1, CallTyped DEF Call
  <2> QED
    BY <1>2, <2>1, <2>2, CloseRecvTyped
<1>8. CASE WholeMessage
  <2>1. /\ opcode \in {Text, Binary} /\ calls' = Append(calls, <<Name(opcode), Payload>>)
        /\ out' = out \o SendMessage(opcode, Payload) /\ NextFrame
        /\ UNCHANGED <<fragmented, fragmentedOpcode, fragmentedPayload>>
    BY <1>8 DEF WholeMessage, Call, fragmentVars
  <2>2. calls' \in Seq(Events)
    BY <1>3, <1>4, <2>1, CallTyped
  <2>3. out' \in Seq(Nat)
    BY <1>1, <1>3, <2>1, SentTyped
  <2> QED
    BY <1>1, <1>2, <2>1, <2>2, <2>3, NextFrameTyped
<1>9. CASE FirstFragment
  <2>1. /\ opcode \in {Text, Binary} /\ NextFrame /\ UNCHANGED <<calls, out>>
        /\ fragmented' = TRUE /\ fragmentedOpcode' = opcode /\ fragmentedPayload' = Payload
    BY <1>9 DEF FirstFragment
  <2> QED
    BY <1>1, <1>2, <1>3, <2>1, NextFrameTyped
<1>10. CASE NextFragment
  <2> DEFINE message == fragmentedPayload \o Payload
  <2>1. /\ fragmented /\ NextFrame
        /\ IF fin
           THEN /\ calls' = Append(calls, <<Name(fragmentedOpcode), message>>)
                /\ out' = out \o SendMessage(fragmentedOpcode, message)
                /\ fragmented' = FALSE /\ fragmentedOpcode' = 0 /\ fragmentedPayload' = <<>>
           ELSE /\ fragmentedPayload' = message
                /\ UNCHANGED <<fragmented, fragmentedOpcode, calls, out>>
    BY <1>10 DEF NextFragment, Call
  <2>2. message \in Seq(Bytes) /\ fragmentedOpcode \in {Text, Binary}
    BY <1>1, <1>3, <2>1, Joining
  <2> HIDE DEF message
  <2>3. CASE fin
    <3>1. calls' \in Seq(Events)
      BY <1>4, <2>1, <2>2, <2>3, CallTyped
    <3>2. out' \in Seq(Nat)
      <4>1. fragmentedOpcode \in 0..15
        BY <1>5, <2>2
      <4> QED
        BY <2>1, <2>2, <2>3, <4>1, SentTyped
    <3> QED
      BY <1>1, <1>2, <2>1, <2>3, <3>1, <3>2, NextFrameTyped
  <2>4. CASE ~fin
    BY <1>1, <1>2, <2>1, <2>2, <2>4, NextFrameTyped
  <2> QED
    BY <2>3, <2>4
<1>11. CASE PingPong
  <2>1. /\ calls' = Append(calls, <<IF opcode = Ping THEN "onPingCtrlFrame" ELSE "onPongCtrlFrame", Payload>>)
        /\ out' = (IF opcode = Ping /\ accepts[Ping] THEN out \o SendMessage(Pong, Payload) ELSE out)
        /\ NextFrame /\ UNCHANGED <<fragmented, fragmentedOpcode, fragmentedPayload>>
    BY <1>11 DEF PingPong, Call, fragmentVars
  <2>2. calls' \in Seq(Events)
    <3>1. Append(calls, <<"onPingCtrlFrame", Payload>>) \in Seq(Events)
      BY <1>4, CallTyped
    <3>2. Append(calls, <<"onPongCtrlFrame", Payload>>) \in Seq(Events)
      BY <1>4, CallTyped
    <3> QED
      BY <2>1, <3>1, <3>2
  <2>3. out' \in Seq(Nat)
    <3>1. out \o SendMessage(Pong, Payload) \in Seq(Nat)
      BY <1>3, <1>5, SentTyped
    <3> QED
      BY <1>1, <2>1, <3>1
  <2> QED
    BY <1>1, <1>2, <2>1, <2>2, <2>3, NextFrameTyped
<1>12. CASE CloseFrame
  <2>1. IF accepts[Close]
        THEN /\ calls' = calls \o << <<"onCloseCtrlFrame", Payload>>, <<"closeRecv", << >> >> >>
             /\ out' = out \o SendMessage(Close, Payload)
             /\ CloseRecv
        ELSE /\ calls' = Append(calls, <<"onCloseCtrlFrame", Payload>>)
             /\ NextFrame
             /\ UNCHANGED <<fragmented, fragmentedOpcode, fragmentedPayload, out>>
    BY <1>12 DEF CloseFrame, Call, fragmentVars
  <2>2. CASE accepts[Close]
    <3>1. << <<"onCloseCtrlFrame", Payload>>, <<"closeRecv", << >> >> >> \in Seq(Events)
      BY <1>4
    <3>2. calls' \in Seq(Events)
      <4>1. \A s \in Seq(Events) : calls \o s \in Seq(Events)
        BY <1>1, Joining
      <4> QED
        BY ZenonT(60), <2>1, <2>2, <3>1, <4>1
    <3>3. out' \in Seq(Nat)
      BY <1>3, <1>5, <2>1, <2>2, SentTyped
    <3> QED
      BY <1>2, <2>1, <2>2, <3>2, <3>3, CloseRecvTyped
  <2>3. CASE ~accepts[Close]
    <3>1. calls' \in Seq(Events)
      BY <1>4, <2>1, <2>3, CallTyped
    <3> QED
      BY <1>1, <1>2, <2>1, <2>3, <3>1, NextFrameTyped
  <2> QED
    BY <2>2, <2>3
<1>13. CASE UnknownOpcode
  <2>1. NextFrame /\ UNCHANGED <<fragmented, fragmentedOpcode, fragmentedPayload, calls, out>>
    BY <1>13 DEF UnknownOpcode, fragmentVars
  <2> QED
    BY <1>1, <1>2, <2>1, NextFrameTyped
<1> QED
  BY <1>6, <1>7, <1>8, <1>9, <1>10, <1>11, <1>12, <1>13

LEMMA OtherStepsTyped ==
    ASSUME TypeOK, Receive \/ CloseElsewhere \/ LeaveLoop \/ UNCHANGED vars
    PROVE  TypeOK'
<1>1. CASE Receive
  <2>1. /\ Len(bufferRecv) < Length
        /\ UNCHANGED <<frames, accepts, step, readLength, fin, opcode, msgKeys, msgLength,
                       msgContent, fragmented, fragmentedOpcode, fragmentedPayload, closing,
                       ended, calls, out>>
    BY <1>1 DEF Receive, headerVars, fragmentVars
  <2>2. PICK n \in 1..Lesser(Length - Len(bufferRecv), Len(net)) :
          bufferRecv' = bufferRecv \o SubSeq(net, 1, n) /\ net' = SubSeq(net, n + 1, Len(net))
    BY <1>1 DEF Receive
  <2>3. /\ bufferRecv \in Seq(Bytes) /\ net \in Seq(Bytes) /\ readLength \in Nat
        /\ Len(bufferRecv) \in Nat /\ Len(net) \in Nat
    BY DEF TypeOK
  <2>4. Length \in Nat /\ Length' = Length
    BY <2>1, <2>3, LengthIs DEF Length
  <2>5. n \in 0..Len(net) /\ Len(bufferRecv) + n <= Length
    BY <2>1, <2>2, <2>3, <2>4 DEF Lesser
  <2>6. /\ SubSeq(net, 1, n) \in Seq(Bytes) /\ Len(SubSeq(net, 1, n)) = n
        /\ SubSeq(net, n + 1, Len(net)) \in Seq(Bytes)
    BY <2>3, <2>5, Cutting DEF Beyond
  <2>7. bufferRecv' \in Seq(Bytes) /\ Len(bufferRecv') = Len(bufferRecv) + n
    BY <2>2, <2>3, <2>6, Joining
  <2>8. StepOK'
    BY <2>1 DEF StepOK, TypeOK
  <2> QED
    BY <2>1, <2>2, <2>4, <2>5, <2>6, <2>7, <2>8 DEF TypeOK
<1>2. CASE CloseElsewhere \/ LeaveLoop \/ UNCHANGED vars
  <2>1. /\ UNCHANGED <<frames, accepts, net, bufferRecv, step, readLength, fin, opcode, msgKeys,
                       msgLength, msgContent, fragmented, fragmentedOpcode, fragmentedPayload,
                       calls, out>>
        /\ closing' \in {TRUE, closing} /\ ended' \in {TRUE, ended}
    BY <1>2 DEF CloseElsewhere, LeaveLoop, vars, headerVars, fragmentVars
  <2>2. StepOK' /\ Length' = Length
    BY <2>1 DEF StepOK, TypeOK, Length
  <2> QED
    BY <2>1, <2>2 DEF TypeOK
<1> QED
  BY <1>1, <1>2

LEMMA NextTyped ==
    ASSUME TypeOK, [Next]_vars
    PROVE  TypeOK'
<1>1. CASE FirstByte \/ LengthByte \/ ExtendedLength \/ Mask
  BY <1>1, HeaderStepsTyped
<1>2. CASE \/ ContentGoesOn \/ ProtocolError \/ WholeMessage \/ FirstFragment
           \/ NextFragment \/ PingPong \/ CloseFrame \/ UnknownOpcode
  BY <1>2, ContentStepsTyped
<1>3. CASE Receive \/ CloseElsewhere \/ LeaveLoop \/ UNCHANGED vars
  BY <1>3, OtherStepsTyped
<1> QED
  BY <1>1, <1>2, <1>3 DEF Next, ThreadStep

LEMMA InitTyped == Init => TypeOK
<1> SUFFICES ASSUME Init
             PROVE  TypeOK
  OBVIOUS
<1>1. net \in Seq(Bytes)
  <2>1. frames \in Streams /\ net = WireFrom(frames)[1]
    BY DEF Init, WireAll
  <2>2. 1 \in 1..(Len(frames) + 1)
    BY <2>1, FrameTyped
  <2> QED
    BY <2>1, <2>2, WireTyped
<1>2. StepOK
  BY DEF Init, StepOK
<1>3. /\ <<>> \in Seq(Bytes) /\ <<>> \in Seq(Events) /\ <<>> \in Seq(Nat) /\ Len(<<>>) = 0
      /\ NoKeys \in Seq(Bytes) /\ Len(NoKeys) = 4
  BY DEF NoKeys, Bytes
<1>4. Length \in Nat
  BY LengthIs DEF Init, Length
<1>5. /\ fin \in BOOLEAN /\ closing \in BOOLEAN /\ ended \in BOOLEAN
      /\ fragmented \in BOOLEAN /\ ~fragmented
  BY Zenon DEF Init
<1>6. /\ frames \in Streams /\ accepts \in [{Ping, Close} -> BOOLEAN]
      /\ bufferRecv = <<>> /\ step \in Steps /\ readLength = 1 /\ msgLength = 0 /\ opcode = 0
      /\ msgKeys = NoKeys /\ msgContent = Null /\ fragmentedOpcode = 0 /\ fragmentedPayload = <<>>
      /\ calls = <<>> /\ out = <<>>
  BY DEF Init, Steps
<1>7. 1 \in Nat /\ 0 \in Nat /\ 0 \in 0..15 /\ 0 <= Length
  BY <1>4
<1> QED
  BY ZenonT(60), <1>1, <1>2, <1>3, <1>5, <1>6, <1>7 DEF TypeOK

(***************************************************************************)
(* Where the decoder stands                                                *)
(***************************************************************************)
LEMMA NullIs == Null \notin Seq(Bytes)
BY FrameAssumption

\* The frames before the first that is misread.
LEMMA TrustedIs ==
    ASSUME frames \in Streams
    PROVE  /\ Trusted \in 0..Len(frames) /\ Len(frames) \in Nat /\ Trusted \in Nat
           /\ \A k \in 1..Trusted : ~Misread(frames[k])
           /\ Faults = {} => Trusted = Len(frames)
<1>1. Len(frames) \in Nat /\ Faults \subseteq 1..Len(frames)
  BY FrameTyped DEF Faults
<1>2. CASE Faults = {}
  <2>1. Trusted = Len(frames)
    BY <1>2 DEF Trusted
  <2> QED
    BY <1>1, <1>2, <2>1 DEF Faults
<1>3. CASE Faults # {}
  <2>1. \E n \in Faults : \A m \in Faults : n <= m
    BY <1>1, <1>3, Smallest
  <2>2. Min(Faults) \in Faults /\ \A m \in Faults : Min(Faults) <= m
    BY Zenon, <2>1 DEF Min
  <2>3. Trusted = Min(Faults) - 1
    BY <1>3 DEF Trusted
  <2>4. Min(Faults) \in 1..Len(frames)
    BY <1>1, <2>2
  <2>5. \A k \in 1..Trusted : k \notin Faults /\ k \in 1..Len(frames)
    BY <1>1, <2>2, <2>3, <2>4
  <2> QED
    BY <1>1, <1>3, <2>3, <2>4, <2>5 DEF Faults
<1> QED
  BY <1>2, <1>3

\* A frame that is followed, and what comes after it.
LEMMA FrameIs ==
    ASSUME TypeOK, NEW k \in 0..Trusted, k < Trusted
    PROVE  /\ Sendable(frames[k + 1]) /\ ~Misread(frames[k + 1]) /\ k + 1 \in 0..Trusted
           /\ FramesFrom(k + 2) \in Seq(Bytes)
           /\ FramesFrom(k + 1) =
                <<FirstOctet(frames[k + 1])>> \o
                    (LengthOf(frames[k + 1]) \o (KeyAndContent(frames[k + 1]) \o FramesFrom(k + 2)))
           /\ Meaning(k) \in MeaningType
           /\ Meaning(k + 1) = After(accepts, Meaning(k), frames[k + 1])
<1>1. /\ frames \in Streams /\ Len(frames) \in Nat /\ Trusted \in 0..Len(frames) /\ Trusted \in Nat
      /\ \A j \in 1..Trusted : ~Misread(frames[j])
  BY TrustedIs DEF TypeOK
<1>2. /\ k + 1 \in 0..Trusted /\ k + 1 \in 1..Trusted /\ k + 1 \in 1..Len(frames)
      /\ k + 2 \in 1..(Len(frames) + 1) /\ (k + 1) + 1 = k + 2 /\ (k + 1) - 1 = k
      /\ k \in 0..Len(frames)
  BY <1>1
<1>3. Sendable(frames[k + 1]) /\ ~Misread(frames[k + 1])
  BY <1>1, <1>2, FrameTyped
<1>4. FramesFrom(k + 2) \in Seq(Bytes)
  BY <1>1, <1>2, WireTyped DEF FramesFrom
<1>5. FramesFrom(k + 1) = Wire(frames[k + 1]) \o FramesFrom(k + 2)
  BY <1>1, <1>2, WireDefined DEF FramesFrom
<1>6. Meaning(k) \in MeaningType
  BY <1>1, <1>2, MeaningTyped DEF Meaning
<1>7. Meaning(k + 1) = After(accepts, Meaning(k), frames[k + 1])
  BY <1>1, <1>2, MeaningDefined DEF Meaning
<1>8. Wire(frames[k + 1]) \o FramesFrom(k + 2) =
        <<FirstOctet(frames[k + 1])>> \o
            (LengthOf(frames[k + 1]) \o (KeyAndContent(frames[k + 1]) \o FramesFrom(k + 2)))
  BY ZenonT(60), <1>3, <1>4, WireIs
<1> QED
  BY ZenonT(60), <1>2, <1>3, <1>4, <1>5, <1>6, <1>7, <1>8

\* What no step changes.
LEMMA Unmoved ==
    ASSUME [Next]_vars
    PROVE  /\ frames' = frames /\ accepts' = accepts
           /\ Faults' = Faults /\ Trusted' = Trusted /\ Promised' = Promised
           /\ \A k : Meaning(k)' = Meaning(k) /\ FramesFrom(k)' = FramesFrom(k)
<1>1. frames' = frames /\ accepts' = accepts
  BY DEF Next, ThreadStep, vars, Receive, FirstByte, LengthByte, ExtendedLength, Mask, ContentGoesOn,
         ProtocolError, WholeMessage, FirstFragment, NextFragment, PingPong, CloseFrame,
         UnknownOpcode, LeaveLoop, CloseElsewhere, Decode
<1>2. Faults' = Faults
  BY <1>1 DEF Faults, Misread
<1>3. Trusted' = Trusted
  BY <1>1, <1>2 DEF Trusted
<1>4. \A k : Meaning(k)' = Meaning(k) /\ FramesFrom(k)' = FramesFrom(k)
  BY <1>1 DEF Meaning, FramesFrom
<1> QED
  BY <1>1, <1>2, <1>3, <1>4 DEF Promised, Meaning

\* A step that has its bytes reads them from what is left.
LEMMA Read ==
    ASSUME TypeOK, NEW s, Decode(s), NEW u \in Seq(Bytes), NEW v \in Seq(Bytes),
           Rest = u \o v, Length <= Len(u)
    PROVE  /\ bufferRecv = SubSeq(u, 1, Length) /\ Rest' = Beyond(u, Length) \o v
           /\ Length = Len(u) => bufferRecv = u /\ Rest' = v
<1>1. /\ bufferRecv \in Seq(Bytes) /\ net \in Seq(Bytes) /\ Len(bufferRecv) = Length
      /\ Length \in Nat /\ bufferRecv' = <<>> /\ net' = net
  BY BufferIs DEF TypeOK, Decode
<1>2. Rest' = net
  BY <1>1, EmptyJoin DEF Rest
<1>3. Len(u) \in Nat /\ Length \in 0..Len(u)
  BY <1>1
<1>4. SubSeq(u, 1, Length) \in Seq(Bytes) /\ Beyond(u, Length) \in Seq(Bytes)
      /\ Len(SubSeq(u, 1, Length)) = Length
  BY <1>3, Cutting
<1>5. u \o v = SubSeq(u, 1, Length) \o (Beyond(u, Length) \o v)
  <2>1. u = SubSeq(u, 1, Length) \o Beyond(u, Length)
    BY <1>3, TakeBeyond
  <2>2. (SubSeq(u, 1, Length) \o Beyond(u, Length)) \o v = SubSeq(u, 1, Length) \o (Beyond(u, Length) \o v)
    <3>1. \A x, y, z \in Seq(Bytes) : (x \o y) \o z = x \o (y \o z)
      BY SMTT(60), Regroup
    <3> QED
      BY ZenonT(60), <1>4, <3>1
  <2> QED
    BY ZenonT(60), <2>1, <2>2
<1>6. Beyond(u, Length) \o v \in Seq(Bytes)
  BY ZenonT(60), <1>4, Joining
<1>7. bufferRecv = SubSeq(u, 1, Length) /\ net = Beyond(u, Length) \o v
  <2>1. bufferRecv \o net = SubSeq(u, 1, Length) \o (Beyond(u, Length) \o v)
    BY <1>5 DEF Rest
  <2> DEFINE x == SubSeq(u, 1, Length)
             y == Beyond(u, Length) \o v
  <2>2. x \in Seq(Bytes) /\ y \in Seq(Bytes) /\ bufferRecv \o net = x \o y /\ Len(bufferRecv) = Len(x)
    BY <1>1, <1>4, <1>6, <2>1
  <2> HIDE DEF x, y
  <2>3. bufferRecv = x /\ net = y
    BY ZenonT(60), <1>1, <2>2, SameCut
  <2> QED
    BY <2>3 DEF x, y
<1>8. ASSUME Length = Len(u)
      PROVE  bufferRecv = u /\ net = v
  BY ZenonT(60), <1>1, <1>8, SameCut DEF Rest
<1> QED
  BY <1>2, <1>7, <1>8

LEMMA ReadAll ==
    ASSUME TypeOK, NEW s, Decode(s), NEW u \in Seq(Bytes), NEW v \in Seq(Bytes),
           Rest = u \o v, Length = Len(u)
    PROVE  bufferRecv = u /\ Rest' = v
<1>1. Len(u) \in Nat
  OBVIOUS
<1>2. Length <= Len(u)
  BY <1>1
<1> QED
  BY ZenonT(60), <1>2, Read

LEMMA RestKept ==
    ASSUME TypeOK, Receive
    PROVE  Rest' = Rest
<1>1. PICK n \in 1..Lesser(Length - Len(bufferRecv), Len(net)) :
        bufferRecv' = bufferRecv \o SubSeq(net, 1, n) /\ net' = Beyond(net, n)
  BY DEF Receive, Beyond
<1>2. bufferRecv \in Seq(Bytes) /\ net \in Seq(Bytes) /\ Len(net) \in Nat /\ Len(bufferRecv) \in Nat
  BY DEF TypeOK
<1>3. readLength \in Nat /\ Length \in Nat
  BY LengthIs DEF TypeOK, Length
<1>4. n \in 0..Len(net)
  BY <1>1, <1>2, <1>3 DEF Lesser
<1> QED
  BY <1>1, <1>2, <1>4, ChunkMoved DEF Rest

(***************************************************************************)
(* The header                                                              *)
(***************************************************************************)
LEMMA FirstByteRead ==
    ASSUME TypeOK, FirstByte, NEW f, NEW w \in Seq(Bytes), Sendable(f),
           Rest = <<FirstOctet(f)>> \o (LengthOf(f) \o (KeyAndContent(f) \o w))
    PROVE  InFrame(f, w)'
<1> DEFINE u == <<FirstOctet(f)>>
           v == LengthOf(f) \o (KeyAndContent(f) \o w)
<1>1. FirstOctet(f) \in Bytes /\ LengthOf(f) \in Seq(Bytes) /\ KeyAndContent(f) \in Seq(Bytes)
  BY ZenonT(60), LengthTyped, ContentTyped
<1>2. u \in Seq(Bytes) /\ Len(u) = 1 /\ u[1] = FirstOctet(f)
  BY <1>1
<1>3. v \in Seq(Bytes)
  <2>1. \A x, y \in Seq(Bytes) : x \o y \in Seq(Bytes)
    BY Joining
  <2> QED
    BY ZenonT(60), <1>1, <2>1
<1>4. /\ Decode("FIRSTBYTE") /\ fin' = (bufferRecv[1] >= 128) /\ opcode' = bufferRecv[1] % 16
      /\ step' = "LENGTH" /\ msgLength' = msgLength
  BY DEF FirstByte, Goto
<1>5. Rest = u \o v
  OBVIOUS
<1> HIDE DEF u, v
<1>6. Length = 1
  BY <1>4, BufferIs
<1>7. bufferRecv = u /\ Rest' = v
  <2>1. Length = Len(u)
    BY <1>2, <1>6
  <2> QED
    BY ZenonT(60), <1>2, <1>3, <1>4, <1>5, <2>1, ReadAll
<1>8. bufferRecv[1] = FirstOctet(f)
  BY <1>2, <1>7
<1>9. fin' = f.fin /\ opcode' = f.opcode
  <2>1. f.fin \in BOOLEAN /\ f.opcode \in 0..15
    BY DEF Sendable
  <2>2. CASE f.fin = TRUE
    <3>1. FirstOctet(f) = 128 + f.opcode
      BY <2>2 DEF FirstOctet
    <3>2. FirstOctet(f) >= 128 /\ FirstOctet(f) % 16 = f.opcode
      BY SMTT(60), <2>1, <3>1
    <3> QED
      BY <1>4, <1>8, <2>2, <3>2
  <2>3. CASE f.fin = FALSE
    <3>1. FirstOctet(f) = f.opcode
      BY <2>1, <2>3 DEF FirstOctet
    <3>2. ~(FirstOctet(f) >= 128) /\ FirstOctet(f) % 16 = f.opcode
      BY SMTT(60), <2>1, <3>1
    <3>3. ~(bufferRecv[1] >= 128)
      BY <1>8, <3>2
    <3>4. fin' = FALSE
      <4>1. (bufferRecv[1] >= 128) = FALSE
        BY <3>3
      <4> QED
        BY ZenonT(60), <1>4, <4>1
    <3> QED
      BY <1>4, <1>8, <2>3, <3>2, <3>4
  <2> QED
    BY <2>1, <2>2, <2>3
<1>10. msgLength' = 0
  BY <1>4 DEF Decode, TypeOK, StepOK
<1> QED
  BY <1>4, <1>7, <1>9, <1>10 DEF InFrame, AtLength, v

\* What the second byte says.
LEMMA SecondByteRead ==
    ASSUME TypeOK, Decode("LENGTH"), NEW f, NEW w \in Seq(Bytes), Sendable(f), AtLength(f, w)
    PROVE  /\ bufferRecv[1] \in Bytes
           /\ f.key = Null => bufferRecv[1] < 128
           /\ f.key # Null =>
                /\ ~(bufferRecv[1] < 128)
                /\ f.form = "7" => /\ bufferRecv[1] % 128 = Len(f.content)
                                   /\ Rest' = KeyAndContent(f) \o w
                /\ f.form = "16" => /\ bufferRecv[1] % 128 = 126
                                    /\ Rest' = Octets(f) \o (KeyAndContent(f) \o w)
                /\ f.form = "64" => /\ bufferRecv[1] % 128 = 127
                                    /\ Rest' = Octets(f) \o (KeyAndContent(f) \o w)
<1> DEFINE x == KeyAndContent(f) \o w
           n == CASE f.form = "7" -> Len(f.content) [] f.form = "16" -> 126 [] OTHER -> 127
           t == CASE f.form = "7" -> <<>>
                  [] f.form \in {"16", "64"} -> Octets(f)
                  [] OTHER -> <<1, 0, 0, 0, 0, 0, 0, 0>>
           u == <<MaskBit(f) + n>>
<1>1. /\ LengthOf(f) \in Seq(Bytes) /\ KeyAndContent(f) \in Seq(Bytes) /\ Octets(f) \in Seq(Bytes)
      /\ MaskBit(f) \in {0, 128}
  BY ZenonT(60), LengthTyped, ContentTyped
<1>2. x \in Seq(Bytes)
  BY ZenonT(60), <1>1, Joining
<1>3. /\ f.form \in {"7", "16", "64", "huge"} /\ Len(f.content) \in Nat
      /\ f.content \in Seq(Bytes) /\ (f.form = "7" => Len(f.content) < 126)
  BY DEF Sendable, Forms
<1>4. t \in Seq(Bytes)
  <2>1. <<>> \in Seq(Bytes) /\ <<1, 0, 0, 0, 0, 0, 0, 0>> \in Seq(Bytes)
    BY DEF Bytes
  <2> QED
    BY <1>1, <1>3, <2>1
<1>5. n \in 0..127
  <2>1. Len(f.content) \in 0..127 \/ f.form # "7"
    <3>1. \A m \in Nat : m < 126 => m \in 0..127
      OBVIOUS
    <3> QED
      BY ZenonT(60), <1>3, <3>1
  <2>2. 126 \in 0..127 /\ 127 \in 0..127
    OBVIOUS
  <2>3. /\ f.form = "7" => n = Len(f.content)
        /\ f.form = "16" => n = 126
        /\ f.form # "7" /\ f.form # "16" => n = 127
    OBVIOUS
  <2> HIDE DEF n
  <2> QED
    BY ZenonT(60), <2>1, <2>2, <2>3
<1>6. LengthOf(f) = u \o t
  <2>1. /\ f.form = "7" => LengthOf(f) = <<MaskBit(f) + Len(f.content)>>
        /\ f.form = "16" => LengthOf(f) = <<MaskBit(f) + 126>> \o Octets(f)
        /\ f.form = "64" => LengthOf(f) = <<MaskBit(f) + 127>> \o Octets(f)
        /\ f.form = "huge" => LengthOf(f) = <<MaskBit(f) + 127>> \o <<1, 0, 0, 0, 0, 0, 0, 0>>
    BY ZenonT(60), LengthTyped
  <2>2. CASE f.form = "7"
    <3>1. n = Len(f.content) /\ t = <<>> /\ LengthOf(f) = u
      BY <2>1, <2>2
    <3>2. u \o <<>> = u
      BY <1>1, <3>1, EmptyJoin
    <3> QED
      BY <3>1, <3>2
  <2>3. CASE f.form = "16"
    <3>1. n = 126 /\ t = Octets(f)
      BY <2>3
    <3> QED
      BY <2>1, <2>3, <3>1
  <2>4. CASE f.form = "64"
    <3>1. n = 127 /\ t = Octets(f)
      BY <2>4
    <3> QED
      BY <2>1, <2>4, <3>1
  <2>5. CASE f.form = "huge"
    <3>1. n = 127 /\ t = <<1, 0, 0, 0, 0, 0, 0, 0>>
      BY <2>5
    <3> QED
      BY <2>1, <2>5, <3>1
  <2> QED
    BY <1>3, <2>2, <2>3, <2>4, <2>5
<1>7. Rest = LengthOf(f) \o x /\ msgLength = 0
  BY DEF AtLength
<1>8. /\ f.form = "7" => n = Len(f.content) /\ t = <<>>
      /\ f.form = "16" => n = 126 /\ t = Octets(f)
      /\ f.form = "64" => n = 127 /\ t = Octets(f)
  OBVIOUS
<1>9. MaskBit(f) + n \in Bytes
  <2>1. \A m \in {0, 128}, i \in 0..127 : m + i \in Bytes
    BY DEF Bytes
  <2> HIDE DEF n
  <2> QED
    BY ZenonT(60), <1>1, <1>5, <2>1
<1> HIDE DEF n, t, x
<1>10. u \in Seq(Bytes) /\ Len(u) = 1 /\ u[1] = MaskBit(f) + n
  BY <1>9
<1> HIDE DEF u
<1>11. Rest = u \o (t \o x)
  <2>1. \A a, b, c \in Seq(Bytes) : (a \o b) \o c = a \o (b \o c)
    BY SMTT(60), Regroup
  <2> QED
    <3>1. (u \o t) \o x = u \o (t \o x)
      BY ZenonT(60), <1>2, <1>4, <1>10, <2>1
    <3> QED
      BY ZenonT(60), <1>6, <1>7, <3>1
<1>12. t \o x \in Seq(Bytes)
  BY ZenonT(60), <1>2, <1>4, Joining
<1>13. Length = 1
  BY <1>7, BufferIs
<1>14. bufferRecv = u /\ Rest' = t \o x
  <2>1. Length = Len(u)
    BY <1>10, <1>13
  <2>2. Decode("LENGTH")
    OBVIOUS
  <2> QED
    BY ZenonT(60), <1>10, <1>11, <1>12, <2>1, <2>2, ReadAll
<1>15. bufferRecv[1] = MaskBit(f) + n
  BY <1>10, <1>14
<1>16. CASE f.key = Null
  <2>1. MaskBit(f) = 0
    BY <1>16 DEF MaskBit
  <2> QED
    BY <1>5, <1>9, <1>15, <1>16, <2>1
<1>17. CASE f.key # Null
  <2>1. MaskBit(f) = 128
    BY <1>17 DEF MaskBit
  <2>2. ~(bufferRecv[1] < 128) /\ bufferRecv[1] % 128 = n
    BY <1>5, <1>15, <2>1
  <2>3. <<>> \o x = x
    BY <1>2, EmptyJoin
  <2> QED
    BY ZenonT(60), <1>8, <1>9, <1>14, <1>15, <1>17, <2>2, <2>3 DEF x
<1> QED
  BY <1>16, <1>17

\* The header's steps stay within the frame, or end the connection of a client
\* that does not mask.
LEMMA LengthByteRead ==
    ASSUME TypeOK, LengthByte, NEW f, NEW w \in Seq(Bytes), Sendable(f), ~Misread(f), InFrame(f, w)
    PROVE  \/ /\ f.key = Null /\ ended' /\ calls' = Append(calls, <<"closeRecv", <<>>>>) /\ out' = out
           \/ /\ InFrame(f, w)'
              /\ UNCHANGED <<fragmentedOpcode, fragmentedPayload, calls, out>>
<1>1. Decode("LENGTH") /\ msgLength = 0 /\ step = "LENGTH"
  BY DEF LengthByte, Decode
<1>2. fin = f.fin /\ opcode = f.opcode /\ AtLength(f, w)
  BY <1>1 DEF InFrame, AtLength, AtOctets, AtMask, AtContent
<1>3. f.form \in {"7", "16", "64", "huge"} /\ Len(f.content) \in Nat /\ Len(f.content) <= MallocMax
      /\ f.content \in Seq(Bytes) /\ (f.form = "7" => Len(f.content) < 126)
  BY DEF Sendable, Forms
<1>4. CASE f.key = Null
  <2>1. bufferRecv[1] < 128
    BY <1>1, <1>2, <1>4, SecondByteRead
  <2> QED
    BY <1>1, <1>4, <2>1 DEF LengthByte, Call, CloseRecv
<1>5. CASE f.key # Null
  <2> DEFINE n == bufferRecv[1] % 128
  <2>1. /\ ~(bufferRecv[1] < 128)
        /\ f.form = "7" => n = Len(f.content) /\ Rest' = KeyAndContent(f) \o w
        /\ f.form = "16" => n = 126 /\ Rest' = Octets(f) \o (KeyAndContent(f) \o w)
        /\ f.form = "64" => n = 127 /\ Rest' = Octets(f) \o (KeyAndContent(f) \o w)
    BY ZenonT(60), <1>1, <1>2, <1>5, SecondByteRead
  <2>2. f.form # "huge" /\ (f.form = "7" => Len(f.content) # 0)
    <3>1. Len(f.content) = 0 => f.content = <<>>
      BY <1>3
    <3> QED
      BY <1>5, <3>1 DEF Misread
  <2>3. /\ IF n = 0
           THEN msgContent' = Null /\ Goto("CONTENT", 0) /\ UNCHANGED msgLength
           ELSE IF n < 126
           THEN Allocate(n)
           ELSE /\ msgLength' = n
                /\ Goto("LENGTH", IF n = 126 THEN 2 ELSE 8)
                /\ UNCHANGED msgContent
        /\ UNCHANGED <<fin, opcode, fragmentedOpcode, fragmentedPayload, calls, out>>
    BY <1>1, <2>1 DEF LengthByte, fragmentVars
  <2> HIDE DEF n
  <2>4. CASE f.form = "7"
    <3>1. n = Len(f.content) /\ n # 0 /\ n < 126
      BY <1>3, <2>1, <2>2, <2>4
    <3>2. ~(n > MallocMax)
      BY <1>3, <3>1, FrameAssumption
    <3>3. msgLength' = n /\ msgContent' = <<>> /\ step' = "MASK"
      BY <2>3, <3>1, <3>2 DEF Allocate, Goto
    <3>4. AtMask(f, w)'
      BY <1>5, <2>1, <2>4, <3>1, <3>3 DEF AtMask
    <3> QED
      BY <1>2, <2>3, <3>4 DEF InFrame
  <2>5. CASE f.form = "16" \/ f.form = "64"
    <3>1. n # 0 /\ ~(n < 126) /\ msgLength' = n /\ step' = "LENGTH"
      BY <2>1, <2>3, <2>5 DEF Goto
    <3>2. AtOctets(f, w)'
      BY <1>5, <2>1, <2>5, <3>1 DEF AtOctets
    <3> QED
      BY <1>2, <2>3, <3>2 DEF InFrame
  <2> QED
    BY <1>3, <2>2, <2>4, <2>5
<1> QED
  BY <1>4, <1>5

\* One octet more.
LEMMA Saturating ==
    ASSUME NEW n \in Nat
    PROVE  More(Lesser(Huge, Upper(n)), Lower(n)) = Lesser(Huge, n)
<1> DEFINE q == Upper(n)
           r == Lower(n)
<1>1. q \in Nat /\ r \in 0..255 /\ n = 256 * q + r
  BY SMTT(60) DEF Upper, Lower
<1>2. Huge \in Nat
  BY FrameAssumption DEF Huge
<1> HIDE DEF q, r
<1>3. CASE q <= Huge
  <2>1. Lesser(Huge, q) = q
    BY <1>1, <1>2, <1>3 DEF Lesser
  <2>2. More(q, r) = Lesser(Huge, n)
    BY <1>1 DEF More
  <2> QED
    BY Zenon, <2>1, <2>2 DEF q, r
<1>4. CASE ~(q <= Huge)
  <2>1. Lesser(Huge, q) = Huge
    BY <1>1, <1>2, <1>4 DEF Lesser
  <2>2. Huge <= 256 * Huge + r /\ Huge <= n
    BY <1>1, <1>2, <1>4
  <2>3. Lesser(Huge, 256 * Huge + r) = Huge /\ Lesser(Huge, n) = Huge
    BY <2>2 DEF Lesser
  <2>4. More(Huge, r) = Lesser(Huge, n)
    BY <2>3 DEF More
  <2> QED
    BY Zenon, <2>1, <2>4 DEF q, r
<1> QED
  BY <1>3, <1>4

\* ntohs() and ntohll() find the length that the octets give.
LEMMA OctetsValue ==
    ASSUME NEW f, Sendable(f)
    PROVE  Value(Octets(f)) = Len(f.content)
<1> DEFINE s == Octets(f)
           n == Len(f.content)
<1>1. n \in Nat /\ n <= MallocMax
  BY DEF Sendable
<1>2. Lesser(Huge, n) = n
  BY <1>1, FrameAssumption DEF Lesser, Huge
<1>3. Len(s) = IF f.form = "16" THEN 2 ELSE 8
  BY LengthTyped
<1>4. Len(s) \in Nat
  BY <1>3
<1>5. PICK v : /\ v[0] = 0 /\ Value(s) = v[Len(s)]
               /\ \A k \in 1..Len(s) : v[k] = More(v[k - 1], s[k])
  BY ZenonT(60), <1>4, ValueDefined
<1>6. s = IF f.form = "16" THEN Two(n) ELSE Eight(n)
  BY DEF Octets
<1>7. \A m \in Nat : More(0, m) = Lesser(Huge, m)
  BY DEF More
<1> HIDE DEF s, n
<1>8. CASE f.form = "16"
  <2>1. Len(s) = 2 /\ s[1] = Upper(n) /\ s[2] = Lower(n)
    BY <1>3, <1>6, <1>8 DEF Two, Upper, Lower
  <2>2. Upper(n) \in Nat /\ 1 \in 1..2 /\ 2 \in 1..2 /\ 1 - 1 = 0 /\ 2 - 1 = 1
    BY <1>1 DEF Upper
  <2>3. v[1] = More(v[0], s[1]) /\ v[2] = More(v[1], s[2])
    BY ZenonT(60), <1>5, <2>1, <2>2
  <2>4. v[1] = Lesser(Huge, Upper(n))
    BY ZenonT(60), <1>5, <1>7, <2>1, <2>2, <2>3
  <2>5. v[2] = Lesser(Huge, n)
    <3>1. More(Lesser(Huge, Upper(n)), Lower(n)) = Lesser(Huge, n)
      BY <1>1, Saturating
    <3> QED
      BY ZenonT(60), <2>1, <2>3, <2>4, <3>1
  <2> QED
    BY ZenonT(60), <1>2, <1>5, <2>1, <2>5 DEF s, n
<1>9. CASE f.form # "16"
  <2>1. Len(s) = 8 /\ s = Eight(n)
    BY <1>3, <1>6, <1>9
  <2>2. PICK a \in [0..7 -> Nat] :
             /\ a[0] = n /\ \A k \in 1..7 : a[k] = Upper(a[k - 1])
             /\ Eight(n)[1] = a[7] /\ \A k \in 2..8 : Eight(n)[k] = Lower(a[8 - k])
    BY <1>1, EightIs
  <2> DEFINE P == {k \in Nat : k <= 7 => v[k + 1] = Lesser(Huge, a[7 - k])}
  <2>3. 0 \in P
    <3>1. /\ 1 \in 1..8 /\ 1 - 1 = 0 /\ 0 + 1 = 1 /\ 7 - 0 = 7 /\ 0 \in Nat /\ a[7] \in Nat
      BY <2>2
    <3>2. v[1] = More(v[0], s[1])
      BY ZenonT(60), <1>5, <2>1, <3>1
    <3>3. v[1] = Lesser(Huge, a[7])
      BY ZenonT(60), <1>5, <1>7, <2>1, <2>2, <3>1, <3>2
    <3> QED
      BY <3>1, <3>3
  <2>4. ASSUME NEW k \in Nat, k \in P, k < 7
        PROVE  k + 1 \in P
    <3>1. /\ k <= 7 /\ (k + 1) + 1 \in 1..8 /\ (k + 1) + 1 \in 2..8 /\ ((k + 1) + 1) - 1 = k + 1
          /\ 8 - ((k + 1) + 1) = 7 - (k + 1) /\ 7 - k \in 1..7 /\ (7 - k) - 1 = 7 - (k + 1)
          /\ 7 - (k + 1) \in 0..7 /\ k + 1 \in Nat
      BY <2>4
    <3> DEFINE m == a[7 - (k + 1)]
    <3>2. m \in Nat
      BY <2>2, <3>1
    <3>3. v[k + 1] = Lesser(Huge, a[7 - k])
      BY <2>4, <3>1
    <3>4. a[7 - k] = Upper(m)
      <4>1. a[7 - k] = Upper(a[(7 - k) - 1])
        BY ZenonT(60), <2>2, <3>1
      <4> QED
        BY ZenonT(60), <3>1, <4>1
    <3>5. s[(k + 1) + 1] = Lower(m)
      <4>1. Eight(n)[(k + 1) + 1] = Lower(a[8 - ((k + 1) + 1)])
        BY ZenonT(60), <2>2, <3>1
      <4> QED
        BY ZenonT(60), <2>1, <3>1, <4>1
    <3>6. v[(k + 1) + 1] = More(v[k + 1], s[(k + 1) + 1])
      <4>1. v[(k + 1) + 1] = More(v[((k + 1) + 1) - 1], s[(k + 1) + 1])
        BY ZenonT(60), <1>5, <2>1, <3>1
      <4> QED
        BY ZenonT(60), <3>1, <4>1
    <3> HIDE DEF m
    <3>7. v[(k + 1) + 1] = Lesser(Huge, m)
      <4>1. More(Lesser(Huge, Upper(m)), Lower(m)) = Lesser(Huge, m)
        BY <3>2, Saturating
      <4> QED
        BY ZenonT(60), <3>3, <3>4, <3>5, <3>6, <4>1
    <3> QED
      BY <3>1, <3>7 DEF m
  <2>5. \A k \in 0..7 : k \in P
    <3>1. P \in SUBSET Nat /\ \A k \in Nat : k \in P /\ k < 7 => k + 1 \in P
      BY <2>4
    <3> HIDE DEF P
    <3> QED
      BY <2>3, <3>1, Induction
  <2>6. 7 \in P
    BY <2>5
  <2>7. v[8] = Lesser(Huge, a[0])
    <3>1. 7 <= 7 /\ 7 + 1 = 8 /\ 7 - 7 = 0
      OBVIOUS
    <3>2. v[7 + 1] = Lesser(Huge, a[7 - 7])
      BY <2>6
    <3> QED
      BY ZenonT(60), <3>1, <3>2
  <2> QED
    BY ZenonT(60), <1>2, <1>5, <2>1, <2>2, <2>7 DEF s, n
<1> QED
  BY <1>8, <1>9

LEMMA ExtendedLengthRead ==
    ASSUME TypeOK, ExtendedLength, NEW f, NEW w \in Seq(Bytes), Sendable(f), ~Misread(f), InFrame(f, w)
    PROVE  InFrame(f, w)' /\ UNCHANGED <<fragmentedOpcode, fragmentedPayload, calls, out>>
<1> DEFINE n == IF msgLength = 126 /\ Value(bufferRecv) = 127 THEN Huge ELSE Value(bufferRecv)
           x == KeyAndContent(f) \o w
           s == Octets(f)
<1>1. /\ Decode("LENGTH") /\ msgLength # 0 /\ step = "LENGTH"
      /\ msgLength' = n /\ msgContent' = (IF n > MallocMax THEN Null ELSE <<>>) /\ step' = "MASK"
      /\ UNCHANGED <<fin, opcode, fragmentedOpcode, fragmentedPayload, calls, out>>
  BY DEF ExtendedLength, Decode, Allocate, Goto, fragmentVars
<1>2. fin = f.fin /\ opcode = f.opcode /\ AtOctets(f, w)
  BY <1>1 DEF InFrame, AtLength, AtOctets, AtMask, AtContent
<1>3. /\ f.key # Null /\ Rest = s \o x
      /\ \/ f.form = "16" /\ msgLength = 126
         \/ f.form = "64" /\ msgLength = 127
  BY <1>2 DEF AtOctets
<1>4. s \in Seq(Bytes) /\ KeyAndContent(f) \in Seq(Bytes) /\ Len(s) = IF f.form = "16" THEN 2 ELSE 8
  BY ZenonT(60), LengthTyped, ContentTyped
<1>5. x \in Seq(Bytes)
  BY ZenonT(60), <1>4, Joining
<1> HIDE DEF x, s
<1>6. Length = Len(s)
  <2>1. \/ msgLength = 126 /\ Length = 2
        \/ msgLength = 127 /\ Length = 8
    BY <1>1, BufferIs
  <2> QED
    BY <1>3, <1>4, <2>1
<1>7. bufferRecv = s /\ Rest' = x
  BY ZenonT(60), <1>1, <1>3, <1>4, <1>5, <1>6, ReadAll
<1>8. Value(bufferRecv) = Len(f.content)
  BY <1>7, OctetsValue DEF s
<1>9. f.form = "16" => Len(f.content) # 127
  BY <1>3 DEF Misread
<1>10. n = Len(f.content)
  BY <1>3, <1>8, <1>9
<1> HIDE DEF n
<1>11. ~(n > MallocMax)
  BY <1>10, FrameAssumption DEF Sendable
<1>12. AtMask(f, w)'
  BY <1>1, <1>3, <1>7, <1>10, <1>11 DEF AtMask, x
<1> QED
  BY <1>1, <1>2, <1>12 DEF InFrame

LEMMA MaskRead ==
    ASSUME TypeOK, Mask, NEW f, NEW w \in Seq(Bytes), Sendable(f), InFrame(f, w)
    PROVE  InFrame(f, w)' /\ UNCHANGED <<fragmentedOpcode, fragmentedPayload, calls, out>>
<1> DEFINE c == Masked(f.content, f.key, 0)
<1>1. /\ Decode("MASK") /\ step = "MASK" /\ msgKeys' = bufferRecv /\ step' = "CONTENT"
      /\ UNCHANGED <<fin, opcode, msgLength, msgContent, fragmentedOpcode, fragmentedPayload, calls, out>>
  BY DEF Mask, Decode, Goto, fragmentVars
<1>2. fin = f.fin /\ opcode = f.opcode /\ AtMask(f, w)
  BY <1>1 DEF InFrame, AtLength, AtOctets, AtMask, AtContent
<1>3. /\ f.key # Null /\ msgContent = <<>> /\ msgLength = Len(f.content)
      /\ Rest = KeyAndContent(f) \o w
  BY <1>2 DEF AtMask
<1>4. f.key \in Seq(Bytes) /\ Len(f.key) = 4 /\ f.content \in Seq(Bytes)
  BY <1>3 DEF Sendable
<1>5. c \in Seq(Bytes) /\ Len(c) \in Nat
  BY <1>4, MaskedTyped
<1>6. KeyAndContent(f) = f.key \o c
  BY <1>3 DEF KeyAndContent
<1> HIDE DEF c
<1>7. Rest = f.key \o (c \o w) /\ c \o w \in Seq(Bytes)
  <2>1. \A x, y, z \in Seq(Bytes) : (x \o y) \o z = x \o (y \o z)
    BY SMTT(60), Regroup
  <2>2. (f.key \o c) \o w = f.key \o (c \o w)
    BY ZenonT(60), <1>4, <1>5, <2>1
  <2>3. c \o w \in Seq(Bytes)
    BY ZenonT(60), <1>5, Joining
  <2> QED
    BY ZenonT(60), <1>3, <1>6, <2>2, <2>3
<1>8. Length = Len(f.key)
  BY <1>1, <1>4, BufferIs
<1>9. bufferRecv = f.key /\ Rest' = c \o w
  BY ZenonT(60), <1>1, <1>4, <1>7, <1>8, ReadAll
<1>10. Beyond(c, 0) = c
  BY <1>5 DEF Beyond
<1>11. /\ msgContent' # Null /\ Len(msgContent') = 0 /\ msgContent' = SubSeq(f.content, 1, 0)
  <2>1. <<>> \in Seq(Bytes) /\ Len(<<>>) = 0 /\ SubSeq(f.content, 1, 0) = <<>>
    BY <1>4
  <2>2. msgContent' = <<>>
    BY <1>1, <1>3
  <2>3. <<>> # Null
    BY ZenonT(60), <2>1, NullIs
  <2> QED
    BY <2>1, <2>2, <2>3
<1>12. AtContent(f, w)'
  BY <1>1, <1>3, <1>9, <1>10, <1>11 DEF AtContent, c
<1> QED
  BY <1>1, <1>2, <1>12 DEF InFrame

(***************************************************************************)
(* The content                                                             *)
(***************************************************************************)
\* What is read is unmasked with the octets of the key that masked it.
LEMMA Unmasked ==
    ASSUME NEW s \in Seq(Bytes), NEW key \in Seq(Bytes), Len(key) = 4, NEW j \in Nat, NEW n \in Nat,
           j + n <= Len(s)
    PROVE  SubSeq(s, 1, j) \o Masked(SubSeq(Beyond(Masked(s, key, 0), j), 1, n), key, j) =
                SubSeq(s, 1, j + n)
<1> DEFINE c == Masked(s, key, 0)
<1>1. /\ c \in Seq(Bytes) /\ Len(c) = Len(s) /\ Len(s) \in Nat
      /\ \A i \in 1..Len(s) :
           /\ c[i] = XorByte(s[i], key[((0 + i - 1) % 4) + 1])
           /\ key[((0 + i - 1) % 4) + 1] \in Bytes /\ s[i] \in Bytes
  <2>1. 0 \in Nat /\ Len(s) \in Nat
    OBVIOUS
  <2> QED
    BY ZenonT(60), <2>1, MaskedTyped
<1> HIDE DEF c
<1> DEFINE b == SubSeq(Beyond(Masked(s, key, 0), j), 1, n)
           u == Beyond(c, j)
           p == SubSeq(s, 1, j)
           q == Masked(b, key, j)
           r == SubSeq(s, 1, j + n)
<1>2. j \in 0..Len(c) /\ n \in 0..(Len(c) - j) /\ j \in 0..Len(s) /\ j + n \in 0..Len(s)
  BY <1>1
<1>3. u \in Seq(Bytes) /\ Len(u) = Len(c) - j /\ \A i \in 1..(Len(c) - j) : u[i] = c[j + i]
  BY <1>1, <1>2, Cutting
<1>4. b = SubSeq(u, 1, n)
  BY DEF c
<1> HIDE DEF b, u
<1>5. b \in Seq(Bytes) /\ Len(b) = n /\ \A i \in 1..n : b[i] = u[i]
  BY <1>2, <1>3, <1>4, Cutting
<1>6. /\ q \in Seq(Bytes) /\ Len(q) = Len(b)
      /\ \A i \in 1..Len(b) :
           /\ q[i] = XorByte(b[i], key[((j + i - 1) % 4) + 1])
           /\ key[((j + i - 1) % 4) + 1] \in Bytes /\ b[i] \in Bytes
  BY <1>5, MaskedTyped
<1> HIDE DEF q
<1>7. ASSUME NEW i \in 1..n
      PROVE  q[i] = s[j + i]
  <2>1. /\ i \in 1..Len(b) /\ i \in 1..(Len(c) - j) /\ j + i \in 1..Len(s)
        /\ 0 + (j + i) - 1 = j + i - 1
    BY <1>1, <1>2, <1>5
  <2> DEFINE k == key[((j + i - 1) % 4) + 1]
  <2>2. c[j + i] = XorByte(s[j + i], k) /\ k \in Bytes /\ s[j + i] \in Bytes
    BY <1>1, <2>1
  <2>3. b[i] = c[j + i]
    BY <1>3, <1>5, <2>1
  <2>4. q[i] = XorByte(b[i], k)
    BY <1>6, <2>1
  <2> HIDE DEF k
  <2> QED
    BY <2>2, <2>3, <2>4, XorTwice
<1>8. /\ p \in Seq(Bytes) /\ Len(p) = j /\ \A i \in 1..j : p[i] = s[i]
  BY <1>2, Cutting
<1>9. /\ r \in Seq(Bytes) /\ Len(r) = j + n /\ \A i \in 1..(j + n) : r[i] = s[i]
  BY ZenonT(60), <1>2, Cutting
<1> HIDE DEF p, r
<1>10. /\ p \o q \in Seq(Bytes) /\ Len(p \o q) = Len(p) + Len(q)
       /\ \A i \in 1..Len(p) : (p \o q)[i] = p[i]
       /\ \A i \in 1..Len(q) : (p \o q)[Len(p) + i] = q[i]
  <2>1. \A x, y \in Seq(Bytes) :
           /\ x \o y \in Seq(Bytes) /\ Len(x \o y) = Len(x) + Len(y)
           /\ \A i \in 1..Len(x) : (x \o y)[i] = x[i]
           /\ \A i \in 1..Len(y) : (x \o y)[Len(x) + i] = y[i]
    BY Joining
  <2> QED
    BY ZenonT(60), <1>6, <1>8, <2>1
<1>11. ASSUME NEW i \in 1..(j + n)
       PROVE  (p \o q)[i] = r[i]
  <2>1. CASE i <= j
    <3>1. i \in 1..j
      BY <2>1
    <3> QED
      BY <1>8, <1>9, <1>10, <3>1
  <2>2. CASE i > j
    <3>1. i - j \in 1..n /\ j + (i - j) = i
      BY <2>2
    <3>2. (p \o q)[j + (i - j)] = q[i - j]
      BY <1>5, <1>6, <1>8, <1>10, <3>1
    <3>3. q[i - j] = s[j + (i - j)]
      BY <1>7, <3>1
    <3> QED
      BY <1>9, <3>1, <3>2, <3>3
  <2>3. i <= j \/ i > j
    OBVIOUS
  <2> QED
    BY <2>1, <2>2, <2>3
<1>12. Len(p \o q) = j + n
  BY <1>5, <1>6, <1>8, <1>10
<1>13. p \o q = r
  BY <1>9, <1>10, <1>11, <1>12, Equal
<1> QED
  BY <1>13 DEF b, p, q, r

LEMMA ContentRead ==
    ASSUME TypeOK, Decode("CONTENT"), NEW f, NEW w \in Seq(Bytes), Sendable(f), InFrame(f, w)
    PROVE  /\ fin = f.fin /\ opcode = f.opcode /\ msgKeys = f.key /\ f.key # Null
           /\ msgLength = Len(f.content) /\ Content # Null
           /\ Len(Content) \in 0..Len(f.content) /\ Content = SubSeq(f.content, 1, Len(Content))
           /\ Rest' = Beyond(Masked(f.content, f.key, 0), Len(Content)) \o w
<1> DEFINE c == Masked(f.content, f.key, 0)
           j == Len(msgContent)
           u == Beyond(c, j)
<1>1. step = "CONTENT"
  BY DEF Decode
<1>2. fin = f.fin /\ opcode = f.opcode /\ AtContent(f, w)
  BY <1>1 DEF InFrame, AtLength, AtOctets, AtMask, AtContent
<1>3. /\ f.key # Null /\ msgKeys = f.key /\ msgContent # Null /\ msgLength = Len(f.content)
      /\ msgContent = SubSeq(f.content, 1, j) /\ Rest = u \o w
  BY <1>2 DEF AtContent
<1>4. f.key \in Seq(Bytes) /\ Len(f.key) = 4 /\ f.content \in Seq(Bytes) /\ Len(f.content) \in Nat
  BY <1>3 DEF Sendable
<1>5. c \in Seq(Bytes) /\ Len(c) = Len(f.content)
  BY <1>4, MaskedTyped
<1>6. /\ Content \in Seq(Bytes) /\ Content # Null /\ Len(Content) = j + Length
      /\ readLength + j = msgLength /\ j \in Nat
  BY <1>3, ContentIs
<1>7. readLength \in Nat /\ Length \in Nat /\ Length <= readLength
  BY LengthIs DEF TypeOK, Length
<1>8. bufferRecv \in Seq(Bytes)
  BY BufferIs
<1>9. Content = msgContent \o Masked(bufferRecv, msgKeys, j)
  BY <1>3 DEF Content
<1> HIDE DEF c, j
<1>10. j + Length <= Len(f.content) /\ j \in 0..Len(c) /\ Length \in 0..(Len(c) - j)
  BY <1>3, <1>4, <1>5, <1>6, <1>7
<1>11. u \in Seq(Bytes) /\ Len(u) = Len(c) - j
  BY ZenonT(60), <1>5, <1>10, Cutting
<1>12. Beyond(u, Length) = Beyond(c, j + Length)
  BY <1>5, <1>10, BeyondTwice
<1> HIDE DEF u
<1>13. Length <= Len(u)
  BY <1>5, <1>10, <1>11, <1>7, <1>4
<1>14. bufferRecv = SubSeq(u, 1, Length) /\ Rest' = Beyond(u, Length) \o w
  BY ZenonT(60), <1>3, <1>11, <1>13, Read
<1>15. bufferRecv = SubSeq(Beyond(Masked(f.content, f.key, 0), j), 1, Length)
  BY <1>14 DEF u, c
<1>16. SubSeq(f.content, 1, j) \o Masked(bufferRecv, f.key, j) = SubSeq(f.content, 1, j + Length)
  <2> DEFINE s == f.content
             key == f.key
             n == Length
  <2>1. /\ s \in Seq(Bytes) /\ key \in Seq(Bytes) /\ Len(key) = 4 /\ j \in Nat /\ n \in Nat
        /\ j + n <= Len(s) /\ bufferRecv \in Seq(Bytes)
        /\ bufferRecv = SubSeq(Beyond(Masked(s, key, 0), j), 1, n)
    BY <1>4, <1>6, <1>7, <1>8, <1>10, <1>15
  <2> HIDE DEF s, key, n
  <2>2. SubSeq(s, 1, j) \o Masked(SubSeq(Beyond(Masked(s, key, 0), j), 1, n), key, j) =
             SubSeq(s, 1, j + n)
    BY ZenonT(60), <2>1, Unmasked
  <2> QED
    BY <2>1, <2>2 DEF s, key, n
<1>17. Content = SubSeq(f.content, 1, j + Length)
  BY ZenonT(60), <1>3, <1>9, <1>16
<1>18. Len(Content) \in 0..Len(f.content)
  BY <1>4, <1>6, <1>7, <1>10
<1> QED
  BY ZenonT(60), <1>2, <1>3, <1>6, <1>12, <1>14, <1>17, <1>18 DEF c

LEMMA ContentGoesOnRead ==
    ASSUME TypeOK, ContentGoesOn, NEW f, NEW w \in Seq(Bytes), Sendable(f), InFrame(f, w)
    PROVE  InFrame(f, w)' /\ UNCHANGED <<fragmentedOpcode, fragmentedPayload, calls, out>>
<1>1. /\ Decode("CONTENT") /\ step = "CONTENT" /\ msgContent' = Content
      /\ UNCHANGED <<step, fin, opcode, msgKeys, msgLength, fragmentedOpcode, fragmentedPayload,
                     calls, out>>
  BY DEF ContentGoesOn, Decode, headerVars, fragmentVars
<1>2. /\ fin = f.fin /\ opcode = f.opcode /\ msgKeys = f.key /\ f.key # Null
      /\ msgLength = Len(f.content) /\ Content # Null
      /\ Content = SubSeq(f.content, 1, Len(Content))
      /\ Rest' = Beyond(Masked(f.content, f.key, 0), Len(Content)) \o w
  BY ZenonT(60), <1>1, ContentRead
<1>3. AtContent(f, w)'
  BY <1>1, <1>2 DEF AtContent
<1> QED
  BY <1>1, <1>2, <1>3 DEF InFrame

\* A frame that is complete, and what is then left.
LEMMA CompleteRead ==
    ASSUME TypeOK, Decode("CONTENT"), Complete, NEW f, NEW w \in Seq(Bytes), Sendable(f), InFrame(f, w)
    PROVE  /\ fin = f.fin /\ opcode = f.opcode /\ f.key # Null /\ msgLength = Len(f.content)
           /\ Payload = f.content /\ Rest' = w
<1> DEFINE c == Masked(f.content, f.key, 0)
<1>1. /\ fin = f.fin /\ opcode = f.opcode /\ f.key # Null
      /\ msgLength = Len(f.content) /\ Content # Null
      /\ Content = SubSeq(f.content, 1, Len(Content))
      /\ Rest' = Beyond(c, Len(Content)) \o w
  BY ZenonT(60), ContentRead
<1>2. Payload = Content /\ Len(Content) = Len(f.content)
  BY <1>1 DEF Payload, Complete
<1>3. f.content \in Seq(Bytes) /\ f.key \in Seq(Bytes) /\ Len(f.key) = 4
  BY <1>1 DEF Sendable
<1>4. c \in Seq(Bytes) /\ Len(c) = Len(f.content)
  BY <1>3, MaskedTyped
<1> HIDE DEF c
<1>5. Content = f.content
  <2>1. SubSeq(f.content, 1, Len(f.content)) = f.content
    BY <1>3
  <2> QED
    BY <1>1, <1>2, <2>1
<1>6. Beyond(c, Len(c)) = <<>>
  BY <1>4 DEF Beyond
<1>7. <<>> \o w = w
  BY EmptyJoin
<1> QED
  BY <1>1, <1>2, <1>4, <1>5, <1>6, <1>7

(***************************************************************************)
(* The end of a frame                                                      *)
(***************************************************************************)
\* What the decoder remembers and has done amounts to m.
Amounts(m) ==
    /\ calls = m.calls /\ out = m.out
    /\ ended \/ (~m.over /\ fragmentedOpcode = m.pending /\ fragmentedPayload = m.payload)

\* A whole frame, unmasked, after frames that amount to m.
Done(m, f) ==
    /\ m \in MeaningType /\ ~m.over /\ calls = m.calls /\ out = m.out
    /\ fragmentedOpcode = m.pending /\ fragmentedPayload = m.payload
    /\ fin = f.fin /\ opcode = f.opcode /\ msgLength = Len(f.content)
    /\ f.key # Null /\ Payload = f.content /\ Sendable(f)

LEMMA IllegalIs ==
    ASSUME TypeOK, NEW m, NEW f, Done(m, f)
    PROVE  /\ fragmented <=> m.pending # 0
           /\ Illegal(m, f) <=> \/ InvalidControl
                                \/ opcode \in {Text, Binary} /\ fragmented
                                \/ opcode = Continuation /\ ~fragmented
<1>1. fragmented <=> m.pending # 0
  <2>1. IF fragmented THEN fragmentedOpcode \in {Text, Binary}
                      ELSE fragmentedOpcode = 0 /\ fragmentedPayload = <<>>
    BY DEF TypeOK
  <2>2. \A op \in {Text, Binary} : op # 0
    BY DEF Text, Binary
  <2>3. fragmentedOpcode = m.pending
    BY DEF Done
  <2> QED
    BY <2>1, <2>2, <2>3
<1>2. InvalidControl <=> f.opcode \in Control /\ (~f.fin \/ Len(f.content) > 125)
  BY ZenonT(60) DEF Done, InvalidControl
<1> QED
  BY ZenonT(60), <1>1, <1>2 DEF Illegal, Done

LEMMA ProtocolErrorDone ==
    ASSUME TypeOK, NEW m, NEW f, Done(m, f), ProtocolError
    PROVE  Amounts(After(accepts, m, f))' /\ ended'
<1>1. /\ calls' = Append(calls, <<"closeRecv", <<>>>>) /\ out' = out /\ ended' = TRUE
      /\ \/ InvalidControl
         \/ opcode \in {Text, Binary} /\ fragmented
         \/ opcode = Continuation /\ ~fragmented
  BY DEF ProtocolError, Call, CloseRecv
<1>2. accepts' = accepts
  BY DEF ProtocolError, Decode
<1>3. Illegal(m, f)
  BY ZenonT(60), <1>1, IllegalIs
<1>4. m \in MeaningType /\ ~m.over /\ calls = m.calls /\ out = m.out
  BY DEF Done
<1>5. After(accepts, m, f) = Failed(m)
  BY <1>3, <1>4, AfterIs
<1>6. Failed(m).calls = Append(m.calls, <<"closeRecv", <<>>>>) /\ Failed(m).out = m.out
  BY <1>4, FailedTyped
<1>7. After(accepts, m, f)' = Failed(m)
  BY <1>2, <1>5
<1> QED
  BY <1>1, <1>4, <1>6, <1>7 DEF Amounts

LEMMA WholeMessageDone ==
    ASSUME TypeOK, NEW m, NEW f, Done(m, f), WholeMessage
    PROVE  Amounts(After(accepts, m, f))' /\ step' = "FIRSTBYTE"
<1>1. /\ opcode \in {Text, Binary} /\ ~fragmented /\ fin
      /\ calls' = Append(calls, <<Name(opcode), Payload>>)
      /\ out' = out \o SendMessage(opcode, Payload)
      /\ fragmentedOpcode' = fragmentedOpcode /\ fragmentedPayload' = fragmentedPayload
      /\ step' = "FIRSTBYTE" /\ accepts' = accepts
  BY DEF WholeMessage, Call, NextFrame, Goto, fragmentVars, Decode
<1>2. fin \in BOOLEAN /\ fragmentedOpcode = 0 /\ fragmentedPayload = <<>>
  BY <1>1 DEF TypeOK
<1>3. /\ m \in MeaningType /\ ~m.over /\ calls = m.calls /\ out = m.out /\ fin = f.fin
      /\ opcode = f.opcode /\ Payload = f.content /\ f.content \in Seq(Bytes)
  BY DEF Done, Sendable
<1>4. ~Illegal(m, f)
  <2>1. ~InvalidControl /\ opcode # Continuation
    BY ZenonT(60), <1>1, OpcodesDiffer DEF InvalidControl, Control
  <2> QED
    BY ZenonT(60), <1>1, <2>1, IllegalIs
<1>5. After(accepts, m, f) = Message(m, opcode, Payload)
  BY <1>1, <1>3, <1>4, WholeFrame
<1> DEFINE n == Message(m, opcode, Payload)
<1>6. /\ n.calls = Append(m.calls, <<Name(opcode), Payload>>)
      /\ n.out = m.out \o SendMessage(opcode, Payload)
      /\ n.pending = 0 /\ n.payload = <<>> /\ n.over = m.over
  <2>1. Payload \in Seq(Bytes)
    BY <1>3
  <2> QED
    BY ZenonT(60), <1>1, <1>3, <2>1, MessageTyped
<1>7. PICK a : a = n
  OBVIOUS
<1>8. After(accepts, m, f)' = a
  BY <1>1, <1>5, <1>7
<1> HIDE DEF n
<1> QED
  BY <1>1, <1>2, <1>3, <1>6, <1>7, <1>8 DEF Amounts

LEMMA FirstFragmentDone ==
    ASSUME TypeOK, NEW m, NEW f, Done(m, f), FirstFragment
    PROVE  Amounts(After(accepts, m, f))' /\ step' = "FIRSTBYTE"
<1>1. /\ opcode \in {Text, Binary} /\ ~fragmented /\ ~fin
      /\ calls' = calls /\ out' = out
      /\ fragmentedOpcode' = opcode /\ fragmentedPayload' = Payload
      /\ step' = "FIRSTBYTE" /\ accepts' = accepts
  BY DEF FirstFragment, NextFrame, Goto, Decode
<1>2. /\ m \in MeaningType /\ ~m.over /\ calls = m.calls /\ out = m.out /\ fin = f.fin
      /\ opcode = f.opcode /\ Payload = f.content /\ f.content \in Seq(Bytes)
  BY DEF Done, Sendable
<1>3. ~Illegal(m, f)
  <2>1. ~InvalidControl /\ opcode # Continuation
    BY ZenonT(60), <1>1, OpcodesDiffer DEF InvalidControl, Control
  <2> QED
    BY ZenonT(60), <1>1, <2>1, IllegalIs
<1>4. After(accepts, m, f) = Pending(m, opcode, Payload)
  BY <1>1, <1>2, <1>3, FirstFrame
<1> DEFINE n == Pending(m, opcode, Payload)
<1>5. /\ n.calls = m.calls /\ n.out = m.out
      /\ n.pending = opcode /\ n.payload = Payload /\ n.over = m.over
  <2>1. Payload \in Seq(Bytes) /\ opcode \in {0, Text, Binary}
    BY <1>1, <1>2
  <2> QED
    BY SMTT(60), <1>2, <2>1, PendingTyped
<1>6. PICK a : a = n
  OBVIOUS
<1>7. After(accepts, m, f)' = a
  BY <1>1, <1>4, <1>6
<1> HIDE DEF n
<1> QED
  BY <1>1, <1>2, <1>5, <1>6, <1>7 DEF Amounts

LEMMA NextFragmentDone ==
    ASSUME TypeOK, NEW m, NEW f, Done(m, f), NextFragment
    PROVE  Amounts(After(accepts, m, f))' /\ step' = "FIRSTBYTE"
<1> DEFINE message == fragmentedPayload \o Payload
<1>1. /\ opcode = Continuation /\ fragmented /\ step' = "FIRSTBYTE" /\ accepts' = accepts
      /\ IF fin
         THEN /\ calls' = Append(calls, <<Name(fragmentedOpcode), message>>)
              /\ out' = out \o SendMessage(fragmentedOpcode, message)
              /\ fragmentedOpcode' = 0 /\ fragmentedPayload' = <<>>
         ELSE /\ fragmentedPayload' = message
              /\ UNCHANGED <<fragmentedOpcode, calls, out>>
  BY DEF NextFragment, Call, NextFrame, Goto, Decode
<1>2. /\ m \in MeaningType /\ ~m.over /\ calls = m.calls /\ out = m.out /\ fin = f.fin
      /\ opcode = f.opcode /\ Payload = f.content /\ f.content \in Seq(Bytes)
      /\ fragmentedOpcode = m.pending /\ fragmentedPayload = m.payload
  BY DEF Done, Sendable
<1>3. fragmentedOpcode \in {Text, Binary} /\ fragmentedPayload \in Seq(Bytes) /\ fin \in BOOLEAN
  BY <1>1 DEF TypeOK
<1>4. message \in Seq(Bytes)
  BY <1>2, <1>3, Joining
<1>5. ~Illegal(m, f)
  <2>1. ~InvalidControl /\ opcode \notin {Text, Binary}
    BY ZenonT(60), <1>1, OpcodesDiffer DEF InvalidControl, Control
  <2> QED
    BY ZenonT(60), <1>1, <2>1, IllegalIs
<1> HIDE DEF message
<1>6. CASE fin
  <2>1. After(accepts, m, f) = Message(m, fragmentedOpcode, message)
    BY <1>1, <1>2, <1>5, <1>6, LastFrame DEF message
  <2> DEFINE n == Message(m, fragmentedOpcode, message)
  <2>2. /\ n.calls = Append(m.calls, <<Name(fragmentedOpcode), message>>)
        /\ n.out = m.out \o SendMessage(fragmentedOpcode, message)
        /\ n.pending = 0 /\ n.payload = <<>> /\ n.over = m.over
    BY ZenonT(60), <1>2, <1>3, <1>4, MessageTyped
  <2>3. PICK a : a = n
    OBVIOUS
  <2>4. After(accepts, m, f)' = a
    BY <1>1, <2>1, <2>3
  <2> HIDE DEF n
  <2> QED
    BY <1>1, <1>2, <1>6, <2>2, <2>3, <2>4 DEF Amounts
<1>7. CASE ~fin
  <2>1. After(accepts, m, f) = Pending(m, fragmentedOpcode, message)
    BY <1>1, <1>2, <1>5, <1>7, InnerFrame DEF message
  <2> DEFINE n == Pending(m, fragmentedOpcode, message)
  <2>2. /\ n.calls = m.calls /\ n.out = m.out
        /\ n.pending = fragmentedOpcode /\ n.payload = message /\ n.over = m.over
    <3>1. fragmentedOpcode \in {0, Text, Binary}
      BY <1>3
    <3>2. m \in MeaningType
      BY <1>2
    <3> QED
      BY ZenonT(60), <1>4, <3>1, <3>2, PendingTyped
  <2>3. PICK a : a = n
    OBVIOUS
  <2>4. After(accepts, m, f)' = a
    BY <1>1, <2>1, <2>3
  <2> HIDE DEF n
  <2> QED
    BY <1>1, <1>2, <1>7, <2>2, <2>3, <2>4 DEF Amounts
<1> QED
  BY <1>6, <1>7

LEMMA PingPongDone ==
    ASSUME TypeOK, NEW m, NEW f, Done(m, f), PingPong
    PROVE  Amounts(After(accepts, m, f))' /\ step' = "FIRSTBYTE"
<1>1. /\ opcode \in {Ping, Pong} /\ ~InvalidControl /\ step' = "FIRSTBYTE" /\ accepts' = accepts
      /\ calls' = Append(calls, <<IF opcode = Ping THEN "onPingCtrlFrame" ELSE "onPongCtrlFrame", Payload>>)
      /\ out' = (IF opcode = Ping /\ accepts[Ping] THEN out \o SendMessage(Pong, Payload) ELSE out)
      /\ fragmentedOpcode' = fragmentedOpcode /\ fragmentedPayload' = fragmentedPayload
  BY DEF PingPong, Call, NextFrame, Goto, fragmentVars, Decode
<1>2. /\ m \in MeaningType /\ ~m.over /\ calls = m.calls /\ out = m.out
      /\ opcode = f.opcode /\ Payload = f.content /\ f.content \in Seq(Bytes)
      /\ fragmentedOpcode = m.pending /\ fragmentedPayload = m.payload
  BY DEF Done, Sendable
<1>3. ~Illegal(m, f)
  <2>1. opcode \notin {Text, Binary} /\ opcode # Continuation
    BY ZenonT(60), <1>1, OpcodesDiffer
  <2> QED
    BY ZenonT(60), <1>1, <2>1, IllegalIs
<1>4. accepts[Ping] \in BOOLEAN /\ Ping # Pong
  BY DEF TypeOK, Ping, Pong
<1>5. /\ <<"onPingCtrlFrame", Payload>> \in Events /\ <<"onPongCtrlFrame", Payload>> \in Events
      /\ Pong \in 0..15
  BY <1>2, EventsTyped, OpcodesDiffer
<1>6. CASE opcode = Ping
  <2> DEFINE t == Called(m, "onPingCtrlFrame", Payload)
             n == IF accepts[Ping] THEN Answered(t, Pong, Payload) ELSE t
  <2>1. After(accepts, m, f) = n
    BY <1>2, <1>3, <1>6, PingFrame
  <2>2. /\ t \in MeaningType /\ t.calls = Append(m.calls, <<"onPingCtrlFrame", Payload>>)
        /\ t.out = m.out /\ t.over = m.over /\ t.pending = m.pending /\ t.payload = m.payload
    BY SMTT(60), <1>2, <1>5, CalledTyped
  <2> HIDE DEF t
  <2>3. /\ Answered(t, Pong, Payload).calls = t.calls
        /\ Answered(t, Pong, Payload).out = t.out \o SendMessage(Pong, Payload)
        /\ Answered(t, Pong, Payload).over = t.over
        /\ Answered(t, Pong, Payload).pending = t.pending
        /\ Answered(t, Pong, Payload).payload = t.payload
    <3>1. Payload \in Seq(Bytes)
      BY <1>2
    <3> QED
      BY ZenonT(60), <1>5, <2>2, <3>1, AnsweredTyped
  <2>4. /\ n.calls = calls' /\ n.out = out'
        /\ n.over = m.over /\ n.pending = m.pending /\ n.payload = m.payload
    <3>1. CASE accepts[Ping]
      BY <1>1, <1>2, <1>6, <2>2, <2>3, <3>1
    <3>2. CASE ~accepts[Ping]
      BY <1>1, <1>2, <1>6, <2>2, <3>2
    <3> QED
      BY <3>1, <3>2
  <2>5. PICK a : a = n
    OBVIOUS
  <2>6. After(accepts, m, f)' = a
    BY <1>1, <2>1, <2>5
  <2> HIDE DEF n
  <2> QED
    BY <1>1, <1>2, <2>4, <2>5, <2>6 DEF Amounts
<1>7. CASE opcode = Pong
  <2> DEFINE n == Called(m, "onPongCtrlFrame", Payload)
  <2>1. After(accepts, m, f) = n
    BY <1>2, <1>3, <1>7, PongFrame
  <2>2. /\ n.calls = Append(m.calls, <<"onPongCtrlFrame", Payload>>)
        /\ n.out = m.out /\ n.over = m.over /\ n.pending = m.pending /\ n.payload = m.payload
    BY SMTT(60), <1>2, <1>5, CalledTyped
  <2>3. PICK a : a = n
    OBVIOUS
  <2>4. After(accepts, m, f)' = a
    BY <1>1, <2>1, <2>3
  <2> HIDE DEF n
  <2>5. calls' = Append(calls, <<"onPongCtrlFrame", Payload>>) /\ out' = out
    BY <1>1, <1>4, <1>7
  <2> QED
    BY <1>1, <1>2, <2>2, <2>3, <2>4, <2>5 DEF Amounts
<1> QED
  BY <1>1, <1>6, <1>7

LEMMA CloseFrameDone ==
    ASSUME TypeOK, NEW m, NEW f, Done(m, f), CloseFrame
    PROVE  Amounts(After(accepts, m, f))' /\ (ended' \/ step' = "FIRSTBYTE")
<1> DEFINE e == <<"onCloseCtrlFrame", Payload>>
           closed == <<"closeRecv", <<>>>>
<1>1. /\ opcode = Close /\ ~InvalidControl /\ accepts' = accepts
      /\ IF accepts[Close]
         THEN /\ calls' = calls \o <<e, closed>>
              /\ out' = out \o SendMessage(Close, Payload)
              /\ ended' = TRUE
         ELSE /\ calls' = Append(calls, e) /\ out' = out /\ step' = "FIRSTBYTE"
              /\ fragmentedOpcode' = fragmentedOpcode /\ fragmentedPayload' = fragmentedPayload
  BY DEF CloseFrame, Call, CloseRecv, NextFrame, Goto, fragmentVars, Decode
<1>2. /\ m \in MeaningType /\ ~m.over /\ calls = m.calls /\ out = m.out
      /\ opcode = f.opcode /\ Payload = f.content /\ f.content \in Seq(Bytes)
      /\ fragmentedOpcode = m.pending /\ fragmentedPayload = m.payload
  BY DEF Done, Sendable
<1>3. ~Illegal(m, f)
  <2>1. opcode \notin {Text, Binary} /\ opcode # Continuation
    BY ZenonT(60), <1>1, OpcodesDiffer
  <2> QED
    BY ZenonT(60), <1>1, <2>1, IllegalIs
<1>4. e \in Events /\ closed \in Events /\ Close \in 0..15
  BY <1>2, EventsTyped, OpcodesDiffer
<1>5. Payload \in Seq(Bytes) /\ calls \in Seq(Events)
  BY <1>2 DEF TypeOK
<1> DEFINE t == Called(m, "onCloseCtrlFrame", Payload)
           u == Answered(t, Close, Payload)
           n == IF accepts[Close] THEN Failed(u) ELSE t
<1>6. After(accepts, m, f) = n
  BY <1>1, <1>2, <1>3, ClosingFrame
<1>7. /\ t \in MeaningType /\ t.calls = Append(m.calls, e)
      /\ t.out = m.out /\ t.over = m.over /\ t.pending = m.pending /\ t.payload = m.payload
  BY SMTT(60), <1>2, <1>4, CalledTyped
<1> HIDE DEF t
<1>8. u \in MeaningType /\ u.calls = t.calls /\ u.out = t.out \o SendMessage(Close, Payload)
  BY ZenonT(60), <1>4, <1>5, <1>7, AnsweredTyped
<1> HIDE DEF u
<1>9. Failed(u).calls = Append(u.calls, closed) /\ Failed(u).out = u.out
  BY ZenonT(60), <1>8, FailedTyped
<1>10. PICK a : a = n
  OBVIOUS
<1>11. After(accepts, m, f)' = a
  BY <1>1, <1>6, <1>10
<1> HIDE DEF e, closed
<1>12. CASE accepts[Close]
  <2>1. a = Failed(u)
    BY <1>10, <1>12
  <2>2. Append(Append(calls, e), closed) = calls \o <<e, closed>>
    BY SMTT(60), <1>4, <1>5
  <2>3. calls' = a.calls
    BY <1>1, <1>2, <1>7, <1>8, <1>9, <1>12, <2>1, <2>2
  <2>4. out' = a.out /\ ended'
    BY <1>1, <1>2, <1>7, <1>8, <1>9, <1>12, <2>1
  <2> QED
    BY <1>11, <2>3, <2>4 DEF Amounts
<1>13. CASE ~accepts[Close]
  <2>1. a = t
    BY <1>10, <1>13
  <2> QED
    BY <1>1, <1>2, <1>7, <1>11, <1>13, <2>1 DEF Amounts
<1> QED
  BY <1>12, <1>13

LEMMA UnknownOpcodeDone ==
    ASSUME TypeOK, NEW m, NEW f, Done(m, f), UnknownOpcode
    PROVE  Amounts(After(accepts, m, f))' /\ step' = "FIRSTBYTE"
<1>1. /\ opcode \notin {Continuation, Text, Binary} \cup Control
      /\ calls' = calls /\ out' = out /\ step' = "FIRSTBYTE" /\ accepts' = accepts
      /\ fragmentedOpcode' = fragmentedOpcode /\ fragmentedPayload' = fragmentedPayload
  BY DEF UnknownOpcode, NextFrame, Goto, fragmentVars, Decode
<1>2. /\ m \in MeaningType /\ ~m.over /\ calls = m.calls /\ out = m.out /\ opcode = f.opcode
      /\ fragmentedOpcode = m.pending /\ fragmentedPayload = m.payload
  BY DEF Done
<1>3. ~Illegal(m, f)
  <2>1. ~InvalidControl /\ opcode \notin {Text, Binary} /\ opcode # Continuation
    BY ZenonT(60), <1>1 DEF InvalidControl
  <2> QED
    BY ZenonT(60), <2>1, IllegalIs
<1>4. f.opcode \notin {Continuation, Text, Binary, Ping, Pong, Close}
  BY <1>1, <1>2 DEF Control
<1>5. After(accepts, m, f) = m
  BY <1>2, <1>3, <1>4, OtherFrame
<1>6. After(accepts, m, f)' = m
  BY <1>1, <1>5
<1> QED
  BY <1>1, <1>2, <1>6 DEF Amounts

(***************************************************************************)
(* The inductive invariant                                                 *)
(***************************************************************************)
\* The frame at hand is done with, whichever it is.
LEMMA FrameDone ==
    ASSUME TypeOK, NEW m, NEW f, Done(m, f),
           \/ ProtocolError \/ WholeMessage \/ FirstFragment \/ NextFragment
           \/ PingPong \/ CloseFrame \/ UnknownOpcode
    PROVE  Amounts(After(accepts, m, f))' /\ (ended' \/ step' = "FIRSTBYTE")
<1>1. CASE ProtocolError
  BY <1>1, ProtocolErrorDone
<1>2. CASE WholeMessage
  BY <1>2, WholeMessageDone
<1>3. CASE FirstFragment
  BY <1>3, FirstFragmentDone
<1>4. CASE NextFragment
  BY <1>4, NextFragmentDone
<1>5. CASE PingPong
  BY <1>5, PingPongDone
<1>6. CASE CloseFrame
  BY <1>6, CloseFrameDone
<1>7. CASE UnknownOpcode
  BY <1>7, UnknownOpcodeDone
<1> QED
  BY <1>1, <1>2, <1>3, <1>4, <1>5, <1>6, <1>7

\* The histories only grow.
LEMMA Longer ==
    ASSUME TypeOK
    PROVE  /\ IsPrefix(calls, calls) /\ IsPrefix(out, out)
           /\ \A e \in Events : IsPrefix(calls, Append(calls, e))
           /\ \A c \in Seq(Events) : IsPrefix(calls, calls \o c)
           /\ \A op \in 0..15, s \in Seq(Bytes) : IsPrefix(out, out \o SendMessage(op, s))
<1>1. calls \in Seq(Events) /\ out \in Seq(Nat)
  BY DEF TypeOK
<1>2. IsPrefix(calls, calls) /\ IsPrefix(out, out)
  BY <1>1, PrefixOfItself
<1>3. \A c \in Seq(Events) : IsPrefix(calls, calls \o c)
  BY <1>1, PrefixOfJoin
<1>4. ASSUME NEW e \in Events
      PROVE  IsPrefix(calls, Append(calls, e))
  <2>1. Append(calls, e) = calls \o <<e>> /\ <<e>> \in Seq(Events)
    BY <1>1
  <2> QED
    BY <1>3, <2>1
<1>5. ASSUME NEW op \in 0..15, NEW s \in Seq(Bytes)
      PROVE  IsPrefix(out, out \o SendMessage(op, s))
  <2>1. SendMessage(op, s) \in Seq(Nat)
    BY AnswerIs
  <2> QED
    BY <1>1, <2>1, PrefixOfJoin
<1> QED
  BY <1>2, <1>3, <1>4, <1>5

LEMMA HistoryGrows ==
    ASSUME TypeOK, [Next]_vars
    PROVE  IsPrefix(calls, calls') /\ IsPrefix(out, out')
<1> DEFINE closed == <<"closeRecv", <<>>>>
<1>1. /\ IsPrefix(calls, calls) /\ IsPrefix(out, out)
      /\ \A e \in Events : IsPrefix(calls, Append(calls, e))
      /\ \A c \in Seq(Events) : IsPrefix(calls, calls \o c)
      /\ \A op \in 0..15, s \in Seq(Bytes) : IsPrefix(out, out \o SendMessage(op, s))
  BY Longer
<1>2. closed \in Events
  <2>1. <<>> \in Seq(Bytes)
    OBVIOUS
  <2> QED
    BY ZenonT(60), <2>1, EventsTyped
<1>3. CASE \/ Receive \/ FirstByte \/ LengthByte \/ ExtendedLength \/ Mask \/ ContentGoesOn
           \/ ProtocolError \/ FirstFragment \/ UnknownOpcode \/ LeaveLoop \/ CloseElsewhere
           \/ UNCHANGED vars
  <2>1. calls' \in {calls, Append(calls, closed)} /\ out' = out
    BY <1>3 DEF vars, Receive, FirstByte, LengthByte, ExtendedLength, Mask, ContentGoesOn,
         ProtocolError, FirstFragment, UnknownOpcode, LeaveLoop, CloseElsewhere, Call
  <2> HIDE DEF closed
  <2> QED
    BY <1>1, <1>2, <2>1
<1>4. CASE WholeMessage \/ NextFragment \/ PingPong \/ CloseFrame
  <2>1. Payload \in Seq(Bytes)
    BY <1>4, ContentIs DEF WholeMessage, NextFragment, PingPong, CloseFrame
  <2>2. /\ <<"onPingCtrlFrame", Payload>> \in Events
        /\ <<"onPongCtrlFrame", Payload>> \in Events /\ <<"onCloseCtrlFrame", Payload>> \in Events
        /\ \A op \in {Text, Binary}, s \in Seq(Bytes) : <<Name(op), s>> \in Events
    BY <2>1, EventsTyped
  <2>3. {Text, Binary, Pong, Close} \subseteq 0..15
    BY OpcodesDiffer
  <2>4. CASE WholeMessage
    <3>1. /\ opcode \in {Text, Binary} /\ calls' = Append(calls, <<Name(opcode), Payload>>)
          /\ out' = out \o SendMessage(opcode, Payload)
      BY <2>4 DEF WholeMessage, Call
    <3> QED
      BY ZenonT(60), <1>1, <2>1, <2>2, <2>3, <3>1
  <2>5. CASE NextFragment
    <3> DEFINE message == fragmentedPayload \o Payload
    <3>1. /\ fragmented
          /\ \/ /\ calls' = Append(calls, <<Name(fragmentedOpcode), message>>)
                /\ out' = out \o SendMessage(fragmentedOpcode, message)
             \/ calls' = calls /\ out' = out
      BY <2>5 DEF NextFragment, Call
    <3>2. fragmentedOpcode \in {Text, Binary} /\ fragmentedPayload \in Seq(Bytes)
      BY <3>1 DEF TypeOK
    <3>3. message \in Seq(Bytes)
      BY <2>1, <3>2, Joining
    <3> HIDE DEF message
    <3> QED
      BY ZenonT(60), <1>1, <2>2, <2>3, <3>1, <3>2, <3>3
  <2>6. CASE PingPong
    <3>1. /\ calls' = Append(calls, <<IF opcode = Ping THEN "onPingCtrlFrame" ELSE "onPongCtrlFrame", Payload>>)
          /\ out' = out \/ out' = out \o SendMessage(Pong, Payload)
      BY <2>6 DEF PingPong, Call
    <3>2. \/ calls' = Append(calls, <<"onPingCtrlFrame", Payload>>)
          \/ calls' = Append(calls, <<"onPongCtrlFrame", Payload>>)
      BY <3>1
    <3> QED
      BY ZenonT(60), <1>1, <2>1, <2>2, <2>3, <3>1, <3>2
  <2>7. CASE CloseFrame
    <3> DEFINE c == << <<"onCloseCtrlFrame", Payload>>, closed >>
    <3>1. \/ calls' = calls \o c /\ out' = out \o SendMessage(Close, Payload)
          \/ calls' = Append(calls, <<"onCloseCtrlFrame", Payload>>) /\ out' = out
      BY <2>7 DEF CloseFrame, Call
    <3>2. c \in Seq(Events)
      BY <1>2, <2>2
    <3> HIDE DEF c
    <3> QED
      BY ZenonT(60), <1>1, <2>1, <2>2, <2>3, <3>1, <3>2
  <2> QED
    BY <1>4, <2>4, <2>5, <2>6, <2>7
<1> QED
  BY <1>3, <1>4 DEF Next, ThreadStep

LEMMA LostForGood ==
    ASSUME TypeOK, Lost, [Next]_vars
    PROVE  Lost'
<1>1. Faults' = Faults /\ Promised' = Promised
  BY Unmoved
<1>2. IsPrefix(calls, calls') /\ IsPrefix(out, out')
  BY HistoryGrows
<1>3. calls \in Seq(Events) /\ out \in Seq(Nat) /\ calls' \in Seq(Events) /\ out' \in Seq(Nat)
  BY NextTyped DEF TypeOK
<1>4. Promised \in MeaningType
  <2>1. Trusted \in 0..Len(frames) /\ frames \in Streams
    BY TrustedIs DEF TypeOK
  <2> QED
    BY <2>1, MeaningTyped DEF Promised, Meaning
<1>5. Promised.calls \in Seq(Events) /\ Promised.out \in Seq(Nat)
  BY <1>4 DEF MeaningType
<1>6. IsPrefix(Promised.calls, calls') /\ IsPrefix(Promised.out, out')
  BY <1>2, <1>3, <1>5, PrefixOfPrefix DEF Lost
<1> QED
  BY <1>1, <1>6 DEF Lost

\* The decoder reads nothing after the frames, and nothing that matters after a
\* frame that is misread.
LEMMA Following ==
    ASSUME TypeOK, ~Lost, NEW k \in 0..Trusted, Standing(k), NEW s, Decode(s)
    PROVE  k < Trusted
<1> SUFFICES ASSUME k = Trusted
             PROVE  FALSE
  <2>1. Trusted \in Nat
    BY TrustedIs DEF TypeOK
  <2> QED
    BY <2>1
<1>1. Trusted \in Nat /\ (Faults = {} => Trusted = Len(frames)) /\ Len(frames) \in Nat
  BY TrustedIs DEF TypeOK
<1>2. ~ended /\ step = s
  BY DEF Decode
<1>3. Heard(k) /\ AtFirstByte(k)
  BY <1>1, <1>2 DEF Standing, Within
<1>4. Faults = {}
  <2>1. calls = Promised.calls /\ out = Promised.out
    BY <1>3 DEF Heard, Promised
  <2>2. IsPrefix(calls, calls) /\ IsPrefix(out, out)
    BY Longer
  <2> QED
    BY <2>1, <2>2 DEF Lost
<1>5. Rest = <<>>
  BY <1>1, <1>3, <1>4, WireDefined DEF AtFirstByte, FramesFrom
<1>6. s = "FIRSTBYTE"
  BY <1>2, <1>3 DEF AtFirstByte
<1>7. bufferRecv \in Seq(Bytes) /\ Len(bufferRecv) = 1 /\ net \in Seq(Bytes)
  BY <1>6, BufferIs DEF TypeOK
<1>8. Len(bufferRecv \o net) = Len(bufferRecv) + Len(net) /\ Len(net) \in Nat
  BY <1>7, Joining
<1> QED
  BY <1>5, <1>7, <1>8 DEF Rest

\* A step that stays within the frame.
LEMMA StandingWithin ==
    ASSUME TypeOK, [Next]_vars, NEW k \in 0..Trusted, k < Trusted, Standing(k), ~ended, NEW f, NEW w,
           f = frames[k + 1], w = FramesFrom(k + 2), InFrame(f, w)',
           UNCHANGED <<fragmentedOpcode, fragmentedPayload, calls, out>>
    PROVE  Standing(k)'
<1>1. /\ frames' = frames /\ Trusted' = Trusted /\ Meaning(k)' = Meaning(k)
      /\ FramesFrom(k + 2)' = FramesFrom(k + 2)
  BY Unmoved
<1>2. Heard(k)'
  BY <1>1 DEF Standing, Heard
<1>3. Remembered(k)'
  BY <1>1 DEF Standing, Remembered
<1>4. f = frames'[k + 1] /\ w = FramesFrom(k + 2)'
  BY <1>1
<1>5. Within(k)'
  BY <1>1, <1>4 DEF Within
<1> QED
  BY <1>2, <1>3, <1>5 DEF Standing

LEMMA HeaderStands ==
    ASSUME TypeOK, ~Lost, NEW k \in 0..Trusted, Standing(k),
           FirstByte \/ LengthByte \/ ExtendedLength \/ Mask \/ ContentGoesOn
    PROVE  \E j \in 0..Trusted : Standing(j)'
<1>1. PICK s : Decode(s) /\ step = s
  BY DEF FirstByte, LengthByte, ExtendedLength, Mask, ContentGoesOn, Decode
<1>2. k < Trusted /\ ~ended
  BY <1>1, Following DEF Decode
<1>3. [Next]_vars
  BY DEF Next, ThreadStep
<1>4. PICK f : f = frames[k + 1]
  OBVIOUS
<1>5. PICK w : w = FramesFrom(k + 2)
  OBVIOUS
<1>6. /\ Sendable(f) /\ ~Misread(f) /\ k + 1 \in 0..Trusted /\ w \in Seq(Bytes)
      /\ FramesFrom(k + 1) = <<FirstOctet(f)>> \o (LengthOf(f) \o (KeyAndContent(f) \o w))
      /\ Meaning(k) \in MeaningType /\ Meaning(k + 1) = After(accepts, Meaning(k), f)
  BY ZenonT(60), <1>2, <1>4, <1>5, FrameIs
<1>7. Heard(k) /\ Remembered(k) /\ (AtFirstByte(k) \/ Within(k))
  BY <1>2 DEF Standing
<1>8. step # "FIRSTBYTE" => InFrame(f, w)
  BY <1>4, <1>5, <1>7 DEF AtFirstByte, Within
<1>9. CASE FirstByte
  <2>1. step = "FIRSTBYTE" /\ UNCHANGED <<fragmentedOpcode, fragmentedPayload, calls, out>>
    BY <1>9 DEF FirstByte, Decode, fragmentVars
  <2>2. AtFirstByte(k)
    BY <1>7, <2>1 DEF Within, InFrame, AtLength, AtOctets, AtMask, AtContent
  <2>3. InFrame(f, w)'
    BY ZenonT(60), <1>6, <1>9, <2>2, FirstByteRead DEF AtFirstByte
  <2>4. Standing(k)'
    BY ZenonT(60), <1>2, <1>3, <1>4, <1>5, <2>1, <2>3, StandingWithin
  <2> QED
    BY <2>4
<1>10. CASE LengthByte
  <2>1. step # "FIRSTBYTE"
    BY <1>10 DEF LengthByte, Decode
  <2>2. \/ f.key = Null /\ ended' /\ calls' = Append(calls, <<"closeRecv", <<>>>>) /\ out' = out
        \/ /\ InFrame(f, w)'
           /\ UNCHANGED <<fragmentedOpcode, fragmentedPayload, calls, out>>
    BY ZenonT(60), <1>6, <1>8, <1>10, <2>1, LengthByteRead
  <2>3. CASE f.key = Null /\ ended' /\ calls' = Append(calls, <<"closeRecv", <<>>>>) /\ out' = out
    <3> DEFINE m == Meaning(k)
    <3>1. ~m.over /\ Illegal(m, f)
      BY <1>7, <2>3 DEF Remembered, Illegal
    <3>2. Meaning(k + 1) = Failed(m)
      BY <1>6, <3>1, AfterIs
    <3>3. Failed(m).calls = Append(m.calls, <<"closeRecv", <<>>>>) /\ Failed(m).out = m.out
      BY <1>6, FailedTyped
    <3>4. Meaning(k + 1)' = Meaning(k + 1)
      BY <1>3, Unmoved
    <3>5. calls = m.calls /\ out = m.out
      BY <1>7 DEF Heard
    <3> HIDE DEF m
    <3>6. Heard(k + 1)'
      BY <2>3, <3>2, <3>3, <3>4, <3>5 DEF Heard
    <3>7. Standing(k + 1)'
      BY <2>3, <3>6 DEF Standing
    <3> QED
      BY <1>6, <3>7
  <2>4. CASE /\ InFrame(f, w)'
             /\ UNCHANGED <<fragmentedOpcode, fragmentedPayload, calls, out>>
    <3>1. Standing(k)'
      BY ZenonT(60), <1>2, <1>3, <1>4, <1>5, <2>4, StandingWithin
    <3> QED
      BY <3>1
  <2> QED
    BY <2>2, <2>3, <2>4
<1>11. CASE ExtendedLength \/ Mask \/ ContentGoesOn
  <2>1. step # "FIRSTBYTE"
    BY <1>11 DEF ExtendedLength, Mask, ContentGoesOn, Decode
  <2>2. InFrame(f, w)' /\ UNCHANGED <<fragmentedOpcode, fragmentedPayload, calls, out>>
    <3>1. CASE ExtendedLength
      BY ZenonT(60), <1>6, <1>8, <2>1, <3>1, ExtendedLengthRead
    <3>2. CASE Mask
      BY ZenonT(60), <1>6, <1>8, <2>1, <3>2, MaskRead
    <3>3. CASE ContentGoesOn
      BY ZenonT(60), <1>6, <1>8, <2>1, <3>3, ContentGoesOnRead
    <3> QED
      BY <1>11, <3>1, <3>2, <3>3
  <2>3. Standing(k)'
    BY ZenonT(60), <1>2, <1>3, <1>4, <1>5, <2>2, StandingWithin
  <2> QED
    BY <2>3
<1> QED
  BY <1>9, <1>10, <1>11

LEMMA FrameStands ==
    ASSUME TypeOK, ~Lost, NEW k \in 0..Trusted, Standing(k),
           \/ ProtocolError \/ WholeMessage \/ FirstFragment \/ NextFragment
           \/ PingPong \/ CloseFrame \/ UnknownOpcode
    PROVE  \E j \in 0..Trusted : Standing(j)'
<1>1. Decode("CONTENT") /\ Complete /\ ~ended /\ step = "CONTENT"
  BY DEF ProtocolError, WholeMessage, FirstFragment, NextFragment, PingPong, CloseFrame,
         UnknownOpcode, Decode
<1>2. k < Trusted
  BY <1>1, Following
<1>3. [Next]_vars
  BY DEF Next, ThreadStep
<1>4. PICK f : f = frames[k + 1]
  OBVIOUS
<1>5. PICK w : w = FramesFrom(k + 2)
  OBVIOUS
<1>6. PICK m : m = Meaning(k)
  OBVIOUS
<1>7. /\ Sendable(f) /\ k + 1 \in 0..Trusted /\ w \in Seq(Bytes)
      /\ m \in MeaningType /\ Meaning(k + 1) = After(accepts, m, f)
  BY ZenonT(60), <1>2, <1>4, <1>5, <1>6, FrameIs
<1>8. Heard(k) /\ Remembered(k) /\ InFrame(f, w)
  BY <1>1, <1>4, <1>5 DEF Standing, AtFirstByte, Within
<1>9. /\ fin = f.fin /\ opcode = f.opcode /\ f.key # Null /\ msgLength = Len(f.content)
      /\ Payload = f.content /\ Rest' = w
  BY ZenonT(60), <1>1, <1>7, <1>8, CompleteRead
<1>10. Done(m, f)
  BY <1>6, <1>7, <1>8, <1>9 DEF Done, Heard, Remembered
<1>11. Amounts(After(accepts, m, f))' /\ (ended' \/ step' = "FIRSTBYTE")
  BY <1>10, FrameDone
<1>12. /\ Meaning(k + 1)' = Meaning(k + 1) /\ FramesFrom(k + 2)' = w /\ accepts' = accepts
  BY <1>3, <1>5, Unmoved
<1>13. PICK n : n = After(accepts, m, f)
  OBVIOUS
<1>14. Meaning(k + 1)' = n /\ After(accepts, m, f)' = n
  BY <1>7, <1>12, <1>13
<1>15. /\ calls' = n.calls /\ out' = n.out
       /\ ended' \/ (~n.over /\ fragmentedOpcode' = n.pending /\ fragmentedPayload' = n.payload)
  BY <1>11, <1>14 DEF Amounts
<1>16. Heard(k + 1)'
  BY <1>14, <1>15 DEF Heard
<1>17. ended' \/ (Remembered(k + 1)' /\ AtFirstByte(k + 1)')
  <2>1. (k + 1) + 1 = k + 2
    BY <1>2
  <2> QED
    BY <1>9, <1>11, <1>12, <1>14, <1>15, <2>1 DEF Remembered, AtFirstByte
<1>18. Standing(k + 1)'
  BY <1>16, <1>17 DEF Standing
<1> QED
  BY <1>7, <1>18

LEMMA OtherStands ==
    ASSUME TypeOK, NEW k \in 0..Trusted, Standing(k),
           Receive \/ CloseElsewhere \/ LeaveLoop \/ UNCHANGED vars
    PROVE  Standing(k)'
<1>1. [Next]_vars
  BY DEF Next, ThreadStep
<1>2. /\ UNCHANGED <<step, fin, opcode, msgKeys, msgLength, msgContent, fragmentedOpcode,
                     fragmentedPayload, calls, out>>
      /\ ended' = TRUE \/ ended' = ended
  BY DEF Receive, CloseElsewhere, LeaveLoop, vars, headerVars, fragmentVars
<1>3. Rest' = Rest
  <2>1. CASE Receive
    BY <2>1, RestKept
  <2>2. CASE CloseElsewhere \/ LeaveLoop \/ UNCHANGED vars
    BY <2>2 DEF CloseElsewhere, LeaveLoop, vars, Rest
  <2> QED
    BY <2>1, <2>2
<1>4. /\ frames' = frames /\ Trusted' = Trusted /\ Meaning(k)' = Meaning(k)
      /\ FramesFrom(k + 1)' = FramesFrom(k + 1) /\ FramesFrom(k + 2)' = FramesFrom(k + 2)
  BY <1>1, Unmoved
<1>5. Heard(k)'
  BY <1>2, <1>4 DEF Standing, Heard
<1>6. CASE ended
  <2>1. ended'
    BY <1>2, <1>6
  <2> QED
    BY <1>5, <2>1 DEF Standing
<1>7. CASE ~ended
  <2>1. Remembered(k) /\ (AtFirstByte(k) \/ Within(k))
    BY <1>7 DEF Standing
  <2>2. Remembered(k)'
    BY <1>2, <1>4, <2>1 DEF Remembered
  <2>3. CASE AtFirstByte(k)
    <3>1. AtFirstByte(k)'
      BY <1>2, <1>3, <1>4, <2>3 DEF AtFirstByte
    <3> QED
      BY <1>5, <2>2, <3>1 DEF Standing
  <2>4. CASE Within(k)
    <3>1. PICK f : f = frames[k + 1]
      OBVIOUS
    <3>2. PICK w : w = FramesFrom(k + 2)
      OBVIOUS
    <3>3. k < Trusted /\ InFrame(f, w)
      BY <2>4, <3>1, <3>2 DEF Within
    <3>4. /\ AtLength(f, w) => AtLength(f, w)'
          /\ AtOctets(f, w) => AtOctets(f, w)'
          /\ AtMask(f, w) => AtMask(f, w)'
          /\ AtContent(f, w) => AtContent(f, w)'
      BY <1>2, <1>3 DEF AtLength, AtOctets, AtMask, AtContent
    <3>5. InFrame(f, w)'
      BY <1>2, <3>3, <3>4 DEF InFrame
    <3>6. Standing(k)'
      BY ZenonT(60), <1>1, <1>2, <1>7, <3>1, <3>2, <3>3, <3>5, StandingWithin
    <3> QED
      BY <3>6
  <2> QED
    BY <2>1, <2>3, <2>4
<1> QED
  BY <1>6, <1>7

LEMMA PlaceStep ==
    ASSUME IInv, [Next]_vars
    PROVE  IInv'
<1>1. TypeOK /\ PlaceInv
  BY DEF IInv
<1>2. TypeOK'
  BY <1>1, NextTyped
<1>3. PlaceInv'
  <2>1. CASE Lost
    BY <1>1, <2>1, LostForGood DEF PlaceInv
  <2>2. CASE ~Lost
    <3>1. PICK k \in 0..Trusted : Standing(k)
      BY <1>1, <2>2 DEF PlaceInv
    <3>2. \E j \in 0..Trusted : Standing(j)'
      <4>1. CASE FirstByte \/ LengthByte \/ ExtendedLength \/ Mask \/ ContentGoesOn
        BY <1>1, <2>2, <3>1, <4>1, HeaderStands
      <4>2. CASE \/ ProtocolError \/ WholeMessage \/ FirstFragment \/ NextFragment
                 \/ PingPong \/ CloseFrame \/ UnknownOpcode
        BY <1>1, <2>2, <3>1, <4>2, FrameStands
      <4>3. CASE Receive \/ CloseElsewhere \/ LeaveLoop \/ UNCHANGED vars
        BY <1>1, <3>1, <4>3, OtherStands
      <4> QED
        BY <4>1, <4>2, <4>3 DEF Next, ThreadStep
    <3>3. Trusted' = Trusted
      BY Unmoved
    <3> QED
      BY <3>2, <3>3 DEF PlaceInv
  <2> QED
    BY <2>1, <2>2
<1> QED
  BY <1>2, <1>3 DEF IInv

LEMMA PlaceInit == Init => IInv
<1> SUFFICES ASSUME Init
             PROVE  IInv
  OBVIOUS
<1>1. TypeOK /\ frames \in Streams
  BY InitTyped DEF Init
<1>2. Len(frames) \in Nat /\ Trusted \in Nat
  BY <1>1, TrustedIs
<1>3. Meaning(0) = Start
  BY <1>2, MeaningDefined DEF Meaning
<1>4. Heard(0) /\ Remembered(0)
  BY <1>3 DEF Init, Heard, Remembered, Start
<1>5. AtFirstByte(0)
  <2>1. net = FramesFrom(1) /\ bufferRecv = <<>> /\ step = "FIRSTBYTE" /\ 0 + 1 = 1
    BY DEF Init, WireAll, FramesFrom
  <2>2. net \in Seq(Bytes)
    BY <1>1 DEF TypeOK
  <2>3. Rest = net
    BY <2>1, <2>2, EmptyJoin DEF Rest
  <2> QED
    BY <2>1, <2>3 DEF AtFirstByte
<1>6. Standing(0) /\ 0 \in 0..Trusted
  BY <1>2, <1>4, <1>5 DEF Standing
<1> QED
  BY <1>1, <1>6 DEF IInv, PlaceInv

\* The decoder knows where it stands.
THEOREM FramePlace == Spec => []IInv
<1>1. Init => IInv
  BY PlaceInit
<1>2. IInv /\ [Next]_vars => IInv'
  BY PlaceStep
<1> QED
  BY <1>1, <1>2, PTL DEF Spec

(***************************************************************************)
(* The theorems                                                            *)
(***************************************************************************)
LEMMA HeardIsPromised ==
    ASSUME TypeOK, NEW k \in 0..Trusted, Heard(k)
    PROVE  IsPrefix(calls, Promised.calls) /\ IsPrefix(out, Promised.out)
<1>1. frames \in Streams /\ Trusted \in 0..Len(frames)
  BY TrustedIs DEF TypeOK
<1>2. Grows(Meaning(k), Promised)
  BY ZenonT(60), <1>1, MeaningGrows DEF Meaning, Promised
<1> QED
  BY <1>2 DEF Heard, Grows

\* The variables of receivingThread() have their types, and a step has as many
\* bytes as its part of the frame.
THEOREM FrameTypes == Spec => []TypeOK
<1>1. IInv => TypeOK
  BY DEF IInv
<1> QED
  BY <1>1, FramePlace, PTL

\* Whatever frames a client sends and however recv() cuts them, the callbacks
\* are those of RFC 6455, up to the first frame that is misread.
THEOREM FramesDelivered == Spec => []Delivered
<1>1. IInv => Delivered
  <2> SUFFICES ASSUME IInv
               PROVE  Delivered
    OBVIOUS
  <2>1. CASE Lost
    BY <2>1 DEF Lost, Delivered, Agrees
  <2>2. CASE ~Lost
    <3>1. PICK k \in 0..Trusted : Standing(k)
      BY <2>2 DEF IInv, PlaceInv
    <3>2. IsPrefix(calls, Promised.calls)
      BY <3>1, HeardIsPromised DEF IInv, Standing
    <3> QED
      BY <3>2 DEF Delivered, Agrees
  <2> QED
    BY <2>1, <2>2
<1> QED
  BY <1>1, FramePlace, PTL

\* What sendMessage() gives the client back is a sequence of frames, those of the
\* echoes, pongs and the close frame, in order.
THEOREM AnswersDecode == Spec => []AnswersWellFormed
<1>1. IInv => AnswersWellFormed
  <2> SUFFICES ASSUME IInv
               PROVE  AnswersWellFormed
    OBVIOUS
  <2>1. CASE Lost
    BY <2>1 DEF Lost, AnswersWellFormed, Agrees
  <2>2. CASE ~Lost
    <3>1. PICK k \in 0..Trusted : Standing(k)
      BY <2>2 DEF IInv, PlaceInv
    <3>2. IsPrefix(out, Promised.out)
      BY <3>1, HeardIsPromised DEF IInv, Standing
    <3> QED
      BY <3>2 DEF AnswersWellFormed, Agrees
  <2> QED
    BY <2>1, <2>2
<1> QED
  BY <1>1, FramePlace, PTL

\* Between two frames the decoder has left no byte of the one before it, and
\* remembers of the messages what the frames so far amount to.
THEOREM FramesOneByOne == Spec => []FrameByFrame
<1>1. IInv => FrameByFrame
  <2> SUFFICES ASSUME IInv, step = "FIRSTBYTE", bufferRecv = <<>>, ~ended
               PROVE  \/ \E k \in 0..Trusted :
                           /\ net = WireFrom(frames)[k + 1]
                           /\ calls = Meaning(k).calls
                           /\ fragmentedOpcode = Meaning(k).pending
                           /\ fragmentedPayload = Meaning(k).payload /\ ~Meaning(k).over
                      \/ Faults # {} /\ IsPrefix(Promised.calls, calls)
    BY DEF FrameByFrame
  <2>1. CASE Lost
    BY <2>1 DEF Lost
  <2>2. CASE ~Lost
    <3>1. PICK k \in 0..Trusted : Standing(k)
      BY <2>2 DEF IInv, PlaceInv
    <3>2. Heard(k) /\ Remembered(k) /\ AtFirstByte(k)
      BY <3>1 DEF Standing, Within, InFrame, AtLength, AtOctets, AtMask, AtContent
    <3>3. Rest = net
      <4>1. net \in Seq(Bytes)
        BY DEF IInv, TypeOK
      <4> QED
        BY <4>1, EmptyJoin DEF Rest
    <3> QED
      BY <3>2, <3>3 DEF Heard, Remembered, AtFirstByte, FramesFrom
  <2> QED
    BY <2>1, <2>2
<1> QED
  BY <1>1, FramePlace, PTL

=============================================================================
