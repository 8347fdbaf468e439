--------------------------- MODULE MCRequestLoop ---------------------------
(* RequestLoop on small instances: what two clients send.                *)
EXTENDS RequestLoop, TLC

CONSTANTS w1, k1, k2, f1

Req(kind, header, body, keepAlive) ==
    [kind |-> kind, header |-> header, body |-> body, keepAlive |-> keepAlive]

\* A page, then a body in parts, then one more; a body that nobody reads, which
\* makes a line that is too long, then an upgrade.
Scripts ==
    k1 :> <<Req("page", 0, 0, TRUE), Req("page", 1, 3, FALSE), Req("page", 0, 0, TRUE)>> @@
    k2 :> <<Req("plaintext", 0, 3, TRUE), Req("upgrade", 1, 0, TRUE)>>
=============================================================================
