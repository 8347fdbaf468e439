--------------------------- MODULE MCAccessControl ---------------------------
(***************************************************************************)
(* An instance of AccessControl: networks of every form, some refused, and *)
(* addresses of 3 and 4 bits that they do and do not hold.                *)
(***************************************************************************)
EXTENDS AccessControl, TLC

CONSTANTS w1, w2, a, good, bad, k1, k2, k3

Widths == [v \in {4, 6} |-> IF v = 4 THEN 3 ELSE 4]

Address(version, ones) ==
    [version |-> version, bits |-> [j \in 0..(Widths[version] - 1) |-> IF j \in ones THEN 1 ELSE 0]]

Peers ==
    {Address(4, ones) : ones \in {{0, 1, 2}, {0, 1}, {0, 2}}}
        \cup {Address(6, ones) : ones \in {0..3, 0..2, {0, 1}}}

\* A network around the address of ones.
Text(version, form, length, ones) ==
    [version |-> version, form |-> form, length |-> length,
     bits |-> [j \in 0..(Widths[version] - 1) |-> 1],
     dotted |-> [j \in 0..2 |-> IF j \in ones THEN 1 ELSE 0]]

Networks ==
    << Text(4, "dotted", 0, {0, 1}), Text(4, "dotted", 0, {1}), Text(6, "length", 3, {}),
       Text(6, "dotted", 0, {0}), Text(4, "bare", 0, {}), Text(4, "length", 5, {}) >>

Expirations == [k \in Tokens |-> IF k = k1 THEN 1 ELSE 2]
Scopes == {<<k1, a>>, <<k3, a>>}
Symmetry == Permutations(Workers)
=============================================================================
