---------------------------- MODULE MCPageAnswer ----------------------------
(* PageAnswer on small instances.                                          *)
EXTENDS PageAnswer, TLC

CONSTANTS w1, a, b, p1, p2, p3

PageAt == p1 :> a @@ p2 :> b @@ p3 :> a

Does(set, length, zipped, forward, found) ==
    [set |-> set, length |-> length, zipped |-> zipped, forward |-> forward, found |-> found]

\* A page that does all a page may do, one that answers or refuses, one that
\* replaces the first.
PageOutcomes ==
    p1 :> { Does("data", 1, FALSE, NoUrl, TRUE), Does("data", 2, FALSE, NoUrl, TRUE),
            Does("data", 2, TRUE, NoUrl, TRUE), Does("data", 0, FALSE, NoUrl, TRUE),
            Does("null", 0, FALSE, NoUrl, TRUE), Does("unset", 0, FALSE, b, TRUE),
            Does("data", 1, FALSE, b, TRUE), Does("data", 1, FALSE, NoUrl, FALSE) }
    @@ p2 :> { Does("data", 2, FALSE, NoUrl, TRUE), Does("unset", 0, FALSE, NoUrl, FALSE) }
    @@ p3 :> { Does("data", 1, FALSE, NoUrl, TRUE) }

\* Pages of the program stand in for files, and pages of the server for both.
InOrder == <<"local", "dynamic", "precompiled">>
Compiled == a :> "none" @@ b :> "zipped"
=============================================================================
