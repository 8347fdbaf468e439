-------------------------- MODULE MCMultipartParser --------------------------
(* MultipartParser on small instances: the forms two clients send.         *)
EXTENDS MultipartParser, TLC

CONSTANTS p1, p2

SomeBytes == {"-", "b", "\"", "cr", "lf", "x", "y", "ta", "fa", "fb", "bad", "stale"}
Dashes == <<"-", "-", "b">>
QuotedName == <<"-", "-", "\"", "b", "\"">>

Kind(name, file, closed) == [name |-> name, file |-> file, closed |-> closed]
HeaderTexts == [ta |-> Kind("a", FALSE, TRUE), fa |-> Kind("a", TRUE, TRUE),
                fb |-> Kind("b", TRUE, TRUE), bad |-> Kind("b", TRUE, FALSE)]

Part(header, content) == [header |-> header, content |-> content]
Form(type, parts, epilogue) == [type |-> type, parts |-> parts, epilogue |-> epilogue]

\* What looks like the start of a boundary in a content; a content longer than
\* the collector; no content; a name used twice; headers that are refused.
EveryForm == {
    Form("bare", <<Part("ta", <<"-", "-", "cr", "lf", "-", "-", "cr">>),
                   Part("fb", <<"x", "y", "cr", "lf", "x", "y", "x", "y", "x", "y">>)>>, <<>>),
    Form("bare", <<Part("fa", <<"x">>), Part("ta", <<>>), Part("fa", <<"y", "cr">>)>>, CRLF \o CRLF),
    Form("bare", <<Part("fb", <<"x", "lf">>), Part("bad", <<"y">>)>>, <<>>),
    Form("quoted", <<Part("ta", <<"x">>)>>, <<>>),
    Form("none", <<>>, <<>>) }

\* The second client competes for the temporary files.
SomeForms == p1 :> EveryForm @@ p2 :> {Form("bare", <<Part("fb", <<"x">>)>>, <<>>)}
=============================================================================
