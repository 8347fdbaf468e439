--------------------------- MODULE MCFrameDecoder ---------------------------
(* FrameDecoder on small instances: what the client sends.                 *)
EXTENDS FrameDecoder

Key == <<165, 60, 129, 7>>
Octets(n) == [k \in 1..n |-> (37 * k) % 256]
Sent(f, op, form, n) ==
    [fin |-> f, opcode |-> op, form |-> form, content |-> Octets(n), key |-> Key]
Unmasked(f) == [f EXCEPT !.key = Null]

\* A fragmented message with a ping in it, every form of the length, an unknown
\* opcode, a close frame and one more; what breaks the protocol; what the
\* decoder misreads.
SomeStreams == {
    <<Sent(FALSE, Text, "7", 5), Sent(TRUE, Ping, "7", 3), Sent(FALSE, Continuation, "7", 1),
      Sent(TRUE, Continuation, "7", 6), Sent(TRUE, Close, "7", 2), Sent(TRUE, Text, "7", 1)>>,
    <<Sent(TRUE, Binary, "16", 126), Sent(TRUE, 3, "64", 60), Sent(FALSE, Binary, "16", 0),
      Sent(TRUE, Continuation, "7", 125), Sent(TRUE, Pong, "7", 125)>>,
    <<Sent(FALSE, Text, "7", 2), Sent(TRUE, Binary, "7", 2), Sent(TRUE, Text, "7", 1)>>,
    <<Sent(TRUE, Text, "7", 2), Sent(TRUE, Continuation, "7", 2)>>,
    <<Sent(TRUE, Text, "64", 2), Sent(FALSE, Ping, "7", 2), Sent(TRUE, Text, "7", 1)>>,
    <<Sent(TRUE, Ping, "16", 126), Sent(TRUE, Text, "7", 1)>>,
    <<Sent(TRUE, Text, "7", 1), Unmasked(Sent(TRUE, Text, "7", 4)), Sent(TRUE, Text, "7", 1)>>,
    <<Sent(TRUE, Text, "7", 1), Sent(TRUE, Text, "7", 0), Sent(TRUE, Text, "7", 2)>>,
    <<Sent(TRUE, Text, "7", 1), Sent(TRUE, Text, "16", 127), Sent(TRUE, Text, "7", 2)>>,
    <<Sent(TRUE, Text, "7", 1), Sent(TRUE, Text, "huge", 90), Sent(TRUE, Text, "7", 2)>> }
=============================================================================
