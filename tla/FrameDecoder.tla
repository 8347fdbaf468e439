---------------------------- MODULE FrameDecoder ----------------------------
(***************************************************************************)
(* WebSocketClient::receivingThread() as a decoder: the bytes of a client  *)
(* in, callbacks of the endpoint out; and sendMessage(), which encodes the *)
(* answers.  (Without compression; that several threads close the client   *)
(* is the subject of WebSocketEndpoint, here `closing' is just set.)       *)
(*                                                                         *)
(* A byte is a number below 256.  The client sends a list of frames, each  *)
(* with what RFC 6455 gives it: opcode, FIN, mask key, form of its length. *)
(***************************************************************************)
EXTENDS Naturals, Sequences, SequencesExt

CONSTANTS
    Streams,     \* the lists of frames a client may send
    BUFSIZE,     \* what is read of a content at once
    MallocMax,   \* the longest content that malloc() grants
    Null

Bytes == 0..255
Continuation == 0
Text == 1
Binary == 2
Close == 8
Ping == 9
Pong == 10
Control == {Close, Ping, Pong}

\* The length field of a frame: 7 bits; 16 bits after 126; 64 bits after 127.
\* A "huge" frame announces more than there can be.
Forms == {"7", "16", "64", "huge"}
InTwo(n) == n < 65536
Two(n) == <<n \div 256, n % 256>>
Eight(n) ==
    LET a == n \div 256   b == a \div 256   c == b \div 256   d == c \div 256
        e == d \div 256   f == e \div 256   g == f \div 256
    IN  <<g, f % 256, e % 256, d % 256, c % 256, b % 256, a % 256, n % 256>>
LengthBytes(form, n, maskBit) ==
    CASE form = "7"    -> <<maskBit + n>>
      [] form = "16"   -> <<maskBit + 126>> \o Two(n)
      [] form = "64"   -> <<maskBit + 127>> \o Eight(n)
      [] form = "huge" -> <<maskBit + 127, 1, 0, 0, 0, 0, 0, 0, 0>>

\* The bit of x with the weight w, and the exclusive or of two octets.
Bit(x, w) == (x \div w) % 2
XorByte(a, b) ==
    LET bit(w) == (Bit(a, w) + Bit(b, w)) % 2
    IN  bit(1) + 2 * bit(2) + 4 * bit(4) + 8 * bit(8)
            + 16 * bit(16) + 32 * bit(32) + 64 * bit(64) + 128 * bit(128)
\* Octet n (from 0) of a content is masked with octet n % 4 of the key.
Masked(content, key, from) ==
    [n \in 1..Len(content) |-> XorByte(content[n], key[((from + n - 1) % 4) + 1])]

Wire(f) ==
    <<(IF f.fin THEN 128 ELSE 0) + f.opcode>>
        \o LengthBytes(f.form, Len(f.content), IF f.key = Null THEN 0 ELSE 128)
        \o (IF f.key = Null THEN f.content ELSE f.key \o Masked(f.content, f.key, 0))
\* The bytes of frame k of s and of all that follow it.
WireFrom(s) ==
    LET from[k \in 1..(Len(s) + 1)] ==
          IF k > Len(s) THEN <<>> ELSE Wire(s[k]) \o from[k + 1]
    IN  from
WireAll(s) == WireFrom(s)[1]

Frame ==
    [opcode : 0..15, fin : BOOLEAN, form : Forms, key : Seq(Bytes) \cup {Null}, content : Seq(Bytes)]

\* (A length fits the octets that its form has.)
ASSUME FrameAssumption ==
    /\ BUFSIZE \in Nat /\ BUFSIZE >= 8 /\ MallocMax \in Nat /\ Null \notin Seq(Bytes)
    /\ \A s \in Streams :
         /\ s \in Seq(Frame)
         /\ \A k \in 1..Len(s) :
              /\ Len(s[k].content) <= MallocMax /\ Eight(Len(s[k].content)) \in Seq(Bytes)
              /\ s[k].form = "7" => Len(s[k].content) < 126
              /\ s[k].form = "16" => InTwo(Len(s[k].content))
              /\ s[k].key # Null => Len(s[k].key) = 4

VARIABLES
    frames,       \* what the client sends
    accepts,      \* what onPingCtrlFrame() and onCloseCtrlFrame() return
    net,          \* the bytes not yet received
    bufferRecv,   \* those received for this step
    step,         \* the MsgDecodSteps
    readLength,   \* how many bytes the step, or the rest of the content, has
    fin, opcode, msgKeys, msgLength,
    msgContent,   \* what is unmasked of the content, or Null
    fragmented,   \* whether a fragmented message is pending
    fragmentedOpcode, fragmentedPayload,
    closing,      \* some thread closes the client
    ended,        \* the receiving thread has returned
    calls,        \* history: the callbacks, and closeRecv()
    out           \* history: the bytes of the answers

headerVars == <<fin, opcode, msgKeys, msgLength>>
fragmentVars == <<fragmented, fragmentedOpcode, fragmentedPayload>>
vars == <<frames, accepts, net, bufferRecv, step, readLength, headerVars, msgContent,
          fragmentVars, closing, ended, calls, out>>

Steps == {"FIRSTBYTE", "LENGTH", "MASK", "CONTENT"}
Huge == MallocMax + 1

Lesser(m, n) == IF m <= n THEN m ELSE n
Length == Lesser(readLength, BUFSIZE)

Events ==
    {"onTextMessage", "onBinaryMessage", "onPingCtrlFrame", "onPongCtrlFrame", "onCloseCtrlFrame",
     "closeRecv"} \X Seq(Bytes)

\* What a step knows of the frame.
StepOK ==
    CASE step = "FIRSTBYTE" -> readLength = 1 /\ msgLength = 0 /\ msgContent = Null
      [] step = "LENGTH" ->
           <<msgLength, readLength>> \in {<<0, 1>>, <<126, 2>>, <<127, 8>>} /\ msgContent = Null
      [] step = "MASK" -> readLength = 4 /\ msgContent \in {Null, <<>>}
      [] step = "CONTENT" -> msgContent # Null => readLength + Len(msgContent) = msgLength

TypeOK ==
    /\ frames \in Streams /\ accepts \in [{Ping, Close} -> BOOLEAN]
    /\ net \in Seq(Bytes) /\ bufferRecv \in Seq(Bytes) /\ Len(bufferRecv) <= Length
    /\ step \in Steps /\ readLength \in Nat /\ msgLength \in Nat
    /\ StepOK /\ (msgContent # Null => msgLength <= MallocMax)
    /\ fin \in BOOLEAN /\ opcode \in 0..15 /\ msgKeys \in Seq(Bytes) /\ Len(msgKeys) = 4
    /\ msgContent \in Seq(Bytes) \cup {Null}
    /\ fragmented \in BOOLEAN /\ fragmentedPayload \in Seq(Bytes)
    /\ IF fragmented THEN fragmentedOpcode \in {Text, Binary}
                     ELSE fragmentedOpcode = 0 /\ fragmentedPayload = <<>>
    /\ closing \in BOOLEAN /\ ended \in BOOLEAN
    /\ calls \in Seq(Events) /\ out \in Seq(Nat)

NoKeys == <<0, 0, 0, 0>>

Init ==
    /\ frames \in Streams
    /\ accepts \in [{Ping, Close} -> BOOLEAN]
    /\ net = WireAll(frames)
    /\ bufferRecv = <<>>
    /\ step = "FIRSTBYTE" /\ readLength = 1
    /\ fin = FALSE /\ opcode = 0 /\ msgKeys = NoKeys /\ msgLength = 0
    /\ msgContent = Null
    /\ fragmented = FALSE /\ fragmentedOpcode = 0 /\ fragmentedPayload = <<>>
    /\ closing = FALSE /\ ended = FALSE
    /\ calls = <<>> /\ out = <<>>

\* recv() until the step has its bytes.
Receive ==
    /\ ~ended /\ ~closing /\ Len(bufferRecv) < Length
    /\ \E n \in 1..Lesser(Length - Len(bufferRecv), Len(net)) :
         /\ bufferRecv' = bufferRecv \o SubSeq(net, 1, n)
         /\ net' = SubSeq(net, n + 1, Len(net))
    /\ UNCHANGED <<frames, accepts, step, readLength, headerVars, msgContent, fragmentVars,
                   closing, ended, calls, out>>

\* A step has its bytes; those of the next are then read afresh.
Decode(s) ==
    /\ ~ended /\ ~closing /\ step = s /\ Len(bufferRecv) = Length
    /\ bufferRecv' = <<>>
    /\ UNCHANGED <<frames, accepts, net>>

Goto(s, n) == step' = s /\ readLength' = n
Call(name, content) == calls' = Append(calls, <<name, content>>)

\* closeRecv(), and the thread returns.
CloseRecv ==
    /\ closing' = TRUE /\ ended' = TRUE
    /\ UNCHANGED <<step, readLength, headerVars, msgContent, fragmentVars>>

FirstByte ==
    /\ Decode("FIRSTBYTE")
    /\ fin' = (bufferRecv[1] >= 128)
    /\ opcode' = bufferRecv[1] % 16
    /\ Goto("LENGTH", 1)
    /\ UNCHANGED <<msgKeys, msgLength, msgContent, fragmentVars, closing, ended, calls, out>>

\* The end of case LENGTH: malloc(), and the mask comes next.
Allocate(n) ==
    /\ msgLength' = n
    /\ msgContent' = IF n > MallocMax THEN Null ELSE <<>>
    /\ Goto("MASK", 4)

\* The second byte of a frame.
LengthByte ==
    /\ Decode("LENGTH") /\ msgLength = 0
    /\ LET n == bufferRecv[1] % 128 IN
       IF bufferRecv[1] < 128
       THEN Call("closeRecv", <<>>) /\ CloseRecv
       ELSE /\ IF n = 0
               THEN msgContent' = Null /\ Goto("CONTENT", 0) /\ UNCHANGED msgLength
               ELSE IF n < 126
               THEN Allocate(n)
               ELSE /\ msgLength' = n
                    /\ Goto("LENGTH", IF n = 126 THEN 2 ELSE 8)
                    /\ UNCHANGED msgContent
            /\ UNCHANGED <<fin, opcode, msgKeys, fragmentVars, closing, ended, calls>>
    /\ UNCHANGED out

\* ntohs(), ntohll(), as far as malloc() is concerned.
Value(s) ==
    LET first[k \in 0..Len(s)] ==
          IF k = 0 THEN 0 ELSE Lesser(Huge, 256 * first[k - 1] + s[k])
    IN  first[Len(s)]

\* Mutant: the bytes of the length in the other order.
ExtendedLengthBug ==
    /\ Decode("LENGTH") /\ msgLength # 0
    /\ Allocate(IF msgLength = 126 THEN Lesser(Huge, 256 * bufferRecv[2] + bufferRecv[1])
                ELSE Value(bufferRecv))
    /\ UNCHANGED <<fin, opcode, msgKeys, fragmentVars, closing, ended, calls, out>>

\* The longer forms.  The second `if' is no `else': a 16-bit length of 127 is
\* read again as one of 64 bits, from a buffer that holds 0, 127 and old bytes.
ExtendedLength ==
    /\ Decode("LENGTH") /\ msgLength # 0
    /\ Allocate(IF msgLength = 126 /\ Value(bufferRecv) = 127 THEN Huge ELSE Value(bufferRecv))
    /\ UNCHANGED <<fin, opcode, msgKeys, fragmentVars, closing, ended, calls, out>>

Mask ==
    /\ Decode("MASK")
    /\ msgKeys' = bufferRecv
    /\ Goto("CONTENT", msgLength)
    /\ UNCHANGED <<fin, opcode, msgLength, msgContent, fragmentVars, closing, ended, calls, out>>

-----------------------------------------------------------------------------
(* case CONTENT                                                            *)

\* Mutant: the key starts again with each buffer.
ContentBug ==
    IF msgContent = Null THEN Null
    ELSE msgContent \o Masked(bufferRecv, msgKeys, 0)

\* The content with what was received.
Content ==
    IF msgContent = Null THEN Null
    ELSE msgContent \o Masked(bufferRecv, msgKeys, Len(msgContent))

Payload == IF Content = Null THEN <<>> ELSE Content
Complete == Len(Payload) = msgLength

\* More of it than a buffer; or the content has no memory, and what comes is
\* never complete.
ContentGoesOn ==
    /\ Decode("CONTENT") /\ ~Complete
    /\ msgContent' = Content
    /\ readLength' = IF readLength > BUFSIZE /\ msgLength # Huge
                     THEN readLength - BUFSIZE ELSE readLength
    /\ UNCHANGED <<step, headerVars, fragmentVars, closing, ended, calls, out>>

InvalidControl == opcode \in Control /\ (~fin \/ msgLength > 125)

\* What ends the connection: a control frame that is fragmented or too long, a
\* new message within a fragmented one, a continuation of none.
ProtocolError ==
    /\ Decode("CONTENT") /\ Complete
    /\ \/ InvalidControl
       \/ opcode \in {Text, Binary} /\ fragmented
       \/ opcode = Continuation /\ ~fragmented
    /\ Call("closeRecv", <<>>)
    /\ CloseRecv
    /\ UNCHANGED out

\* The frame is done with: back to FIRSTBYTE.
NextFrame ==
    /\ fin' = FALSE /\ opcode' = 0 /\ msgKeys' = NoKeys /\ msgLength' = 0
    /\ msgContent' = Null
    /\ Goto("FIRSTBYTE", 1)
    /\ UNCHANGED <<closing, ended>>

Name(op) == IF op = Text THEN "onTextMessage" ELSE "onBinaryMessage"

\* Mutant: a length of 126 in seven bits.
SendMessageBug(op, content) ==
    <<128 + op>>
        \o (CASE Len(content) <= 126 -> <<Len(content)>>
              [] Len(content) >= 127 /\ InTwo(Len(content)) -> <<126>> \o Two(Len(content))
              [] OTHER -> <<127>> \o Eight(Len(content)))
        \o content

\* sendMessage(): the header, by the length, and the content.
SendMessage(op, content) ==
    <<128 + op>>
        \o (CASE Len(content) < 126 -> <<Len(content)>>
              [] Len(content) >= 126 /\ InTwo(Len(content)) -> <<126>> \o Two(Len(content))
              [] OTHER -> <<127>> \o Eight(Len(content)))
        \o content

\* A message of one frame; the application sends it back.
WholeMessage ==
    /\ Decode("CONTENT") /\ Complete
    /\ opcode \in {Text, Binary} /\ ~fragmented /\ fin
    /\ Call(Name(opcode), Payload)
    /\ out' = out \o SendMessage(opcode, Payload)
    /\ NextFrame
    /\ UNCHANGED fragmentVars

FirstFragment ==
    /\ Decode("CONTENT") /\ Complete
    /\ opcode \in {Text, Binary} /\ ~fragmented /\ ~fin
    /\ fragmented' = TRUE /\ fragmentedOpcode' = opcode /\ fragmentedPayload' = Payload
    /\ NextFrame
    /\ UNCHANGED <<calls, out>>

\* Mutant: the last fragment is not part of the message.
NextFragmentBug ==
    /\ Decode("CONTENT") /\ Complete
    /\ opcode = Continuation /\ fragmented
    /\ IF fin
       THEN /\ Call(Name(fragmentedOpcode), fragmentedPayload)
            /\ out' = out \o SendMessage(fragmentedOpcode, fragmentedPayload)
            /\ fragmented' = FALSE /\ fragmentedOpcode' = 0 /\ fragmentedPayload' = <<>>
       ELSE /\ fragmentedPayload' = fragmentedPayload \o Payload
            /\ UNCHANGED <<fragmented, fragmentedOpcode, calls, out>>
    /\ NextFrame

NextFragment ==
    /\ Decode("CONTENT") /\ Complete
    /\ opcode = Continuation /\ fragmented
    /\ LET message == fragmentedPayload \o Payload IN
       IF fin
       THEN /\ Call(Name(fragmentedOpcode), message)
            /\ out' = out \o SendMessage(fragmentedOpcode, message)
            /\ fragmented' = FALSE /\ fragmentedOpcode' = 0 /\ fragmentedPayload' = <<>>
       ELSE /\ fragmentedPayload' = message
            /\ UNCHANGED <<fragmented, fragmentedOpcode, calls, out>>
    /\ NextFrame

PingPong ==
    /\ Decode("CONTENT") /\ Complete
    /\ opcode \in {Ping, Pong} /\ ~InvalidControl
    /\ Call(IF opcode = Ping THEN "onPingCtrlFrame" ELSE "onPongCtrlFrame", Payload)
    /\ out' = IF opcode = Ping /\ accepts[Ping] THEN out \o SendMessage(Pong, Payload) ELSE out
    /\ NextFrame
    /\ UNCHANGED fragmentVars

CloseFrame ==
    /\ Decode("CONTENT") /\ Complete
    /\ opcode = Close /\ ~InvalidControl
    /\ IF accepts[Close]
       THEN /\ calls' = calls \o << <<"onCloseCtrlFrame", Payload>>, <<"closeRecv", << >> >> >>
            /\ out' = out \o SendMessage(Close, Payload)
            /\ CloseRecv
       ELSE /\ Call("onCloseCtrlFrame", Payload)
            /\ NextFrame
            /\ UNCHANGED <<fragmentVars, out>>

UnknownOpcode ==
    /\ Decode("CONTENT") /\ Complete
    /\ opcode \notin {Continuation, Text, Binary} \cup Control
    /\ NextFrame
    /\ UNCHANGED <<fragmentVars, calls, out>>

-----------------------------------------------------------------------------

\* Another thread closes the client; the receiving thread leaves its loop.
CloseElsewhere ==
    /\ ~closing /\ closing' = TRUE
    /\ UNCHANGED <<frames, accepts, net, bufferRecv, step, readLength, headerVars, msgContent,
                   fragmentVars, ended, calls, out>>

LeaveLoop ==
    /\ ~ended /\ closing /\ ended' = TRUE
    /\ UNCHANGED <<frames, accepts, net, bufferRecv, step, readLength, headerVars, msgContent,
                   fragmentVars, closing, calls, out>>

ThreadStep ==
    \/ Receive \/ FirstByte \/ LengthByte \/ ExtendedLength \/ Mask
    \/ ContentGoesOn \/ ProtocolError \/ WholeMessage \/ FirstFragment \/ NextFragment
    \/ PingPong \/ CloseFrame \/ UnknownOpcode \/ LeaveLoop

Next == ThreadStep \/ CloseElsewhere

Spec == Init /\ [][Next]_vars

\* The thread goes on as long as there are bytes.
FairSpec == Spec /\ WF_vars(ThreadStep)

-----------------------------------------------------------------------------
(* What RFC 6455 makes of the frames, one whole frame after the other      *)

Answer(op, content) ==
    Wire([fin |-> TRUE, opcode |-> op, key |-> Null, content |-> content,
          form |-> CASE Len(content) <= 125 -> "7"
                     [] Len(content) >= 126 /\ InTwo(Len(content)) -> "16"
                     [] OTHER -> "64"])

Start == [calls |-> <<>>, out |-> <<>>, pending |-> 0, payload |-> <<>>, over |-> FALSE]

Called(s, name, content) == [s EXCEPT !.calls = Append(@, <<name, content>>)]
Answered(s, op, content) == [s EXCEPT !.out = @ \o Answer(op, content)]
Failed(s) == [Called(s, "closeRecv", <<>>) EXCEPT !.over = TRUE]
Pending(s, op, payload) == [s EXCEPT !.pending = op, !.payload = payload]
Message(s, op, content) == Pending(Answered(Called(s, Name(op), content), op, content), 0, <<>>)

Illegal(s, f) ==
    \/ f.key = Null
    \/ f.opcode \in Control /\ (~f.fin \/ Len(f.content) > 125)
    \/ f.opcode \in {Text, Binary} /\ s.pending # 0
    \/ f.opcode = Continuation /\ s.pending = 0

\* What a frame that is legal does; `willing' is what the callbacks of control
\* frames return.
Taken(willing, s, f) ==
    CASE f.opcode \in {Text, Binary} /\ f.fin -> Message(s, f.opcode, f.content)
      [] f.opcode \in {Text, Binary} /\ ~f.fin -> Pending(s, f.opcode, f.content)
      [] f.opcode = Continuation /\ f.fin -> Message(s, s.pending, s.payload \o f.content)
      [] f.opcode = Continuation /\ ~f.fin -> Pending(s, s.pending, s.payload \o f.content)
      [] f.opcode = Ping ->
           LET t == Called(s, "onPingCtrlFrame", f.content)
           IN  IF willing[Ping] THEN Answered(t, Pong, f.content) ELSE t
      [] f.opcode = Pong -> Called(s, "onPongCtrlFrame", f.content)
      [] f.opcode = Close ->
           LET t == Called(s, "onCloseCtrlFrame", f.content)
           IN  IF willing[Close] THEN Failed(Answered(t, Close, f.content)) ELSE t
      [] OTHER -> s

After(willing, s, f) ==
    CASE s.over -> s
      [] ~s.over /\ Illegal(s, f) -> Failed(s)
      [] OTHER -> Taken(willing, s, f)

\* What the first k frames of s amount to.
MeaningOf(willing, s) ==
    LET after[k \in 0..Len(s)] ==
          IF k = 0 THEN Start ELSE After(willing, after[k - 1], s[k])
    IN  after
Meaning(k) == MeaningOf(accepts, frames)[k]

\* The frames that the decoder does not follow: an empty one in its short form,
\* whose mask key it takes for the next frame; a 16-bit length of 127; a
\* length there is no memory for.
Misread(f) ==
    /\ f.key # Null
    /\ \/ f.form = "7" /\ f.content = <<>>
       \/ f.form = "16" /\ Len(f.content) = 127
       \/ f.form = "huge"
Faults == {k \in 1..Len(frames) : Misread(frames[k])}
Trusted == IF Faults = {} THEN Len(frames) ELSE Min(Faults) - 1
Promised == Meaning(Trusted)

Agrees(history, promised) ==
    \/ IsPrefix(history, promised)
    \/ Faults # {} /\ IsPrefix(promised, history)

-----------------------------------------------------------------------------
(* Properties                                                              *)

\* However recv() cuts the stream and whatever its frames are, the callbacks
\* are those of RFC 6455, in order, with the contents the client sent before
\* it masked and fragmented them, and closeRecv() comes where the protocol is
\* broken and nowhere else; up to the first frame that is misread.
Delivered == Agrees(calls, Promised.calls)

\* What the client gets back, decoded by the same rules, is what the
\* application sent: echoes, pongs and the close frame.
AnswersWellFormed == Agrees(out, Promised.out)

\* Whenever the decoder looks for a first byte, it stands between two frames,
\* and what it remembers is what the frames before amount to: no byte of a
\* frame is left for the next, and no state of a message for the next.
FrameByFrame ==
    step = "FIRSTBYTE" /\ bufferRecv = <<>> /\ ~ended =>
        \/ \E k \in 0..Trusted :
             /\ net = WireFrom(frames)[k + 1]
             /\ LET m == Meaning(k) IN
                /\ calls = m.calls /\ fragmentedOpcode = m.pending
                /\ fragmentedPayload = m.payload /\ ~m.over
        \/ Faults # {} /\ IsPrefix(Promised.calls, calls)

\* All the messages arrive, unless another thread closes the client: the
\* decoder never waits for bytes that no frame has.
MessagesArrive ==
    <>(\/ calls = Promised.calls
       \/ Faults # {} /\ IsPrefix(Promised.calls, calls)
       \/ closing /\ ~Contains(calls, <<"closeRecv", <<>>>>))
=============================================================================
