-------------------------- MODULE OrderedBroadcast --------------------------
(***************************************************************************)
(* What an endpoint promises to its clients: a broadcast reaches, at one   *)
(* moment, all who are members then; a client receives what was broadcast  *)
(* to it in that order and without a gap, from the moment it joins until   *)
(* its connection ends.  Answers to a client's own frames may come at any  *)
(* place between the broadcasts.  WebSocketEndpoint implements it.         *)
(***************************************************************************)
EXTENDS Naturals, Sequences

CONSTANTS Clients, Broadcasts, Answers

VARIABLES
    phase,      \* "outside", "member", "leaving", "closing" or "gone"
    sent,       \* the broadcasts made
    pending,    \* what a client is to receive
    received    \* the broadcasts it has received

vars == <<phase, sent, pending, received>>

Init ==
    /\ phase = [c \in Clients |-> "outside"]
    /\ sent = {}
    /\ pending = [c \in Clients |-> <<>>]
    /\ received = [c \in Clients |-> <<>>]

Join(c) ==
    /\ phase[c] = "outside"
    /\ phase' = [phase EXCEPT ![c] = "member"]
    /\ UNCHANGED <<sent, pending, received>>

Broadcast(m) ==
    /\ m \notin sent
    /\ sent' = sent \cup {m}
    /\ pending' = [c \in Clients |-> IF phase[c] = "member" THEN Append(pending[c], m) ELSE pending[c]]
    /\ UNCHANGED <<phase, received>>

\* The second conjunct follows from the third: it spares TLC the search.
Answer(c) ==
    /\ phase[c] \in {"outside", "member", "leaving"}
    /\ Len(pending'[c]) > Len(pending[c])
    /\ \E a \in Answers : \E i \in 0..Len(pending[c]) :
         pending' = [pending EXCEPT ![c] = SubSeq(@, 1, i) \o <<a>> \o SubSeq(@, i + 1, Len(@))]
    /\ UNCHANGED <<phase, sent, received>>

Receive(c) ==
    /\ pending[c] # <<>>
    /\ LET m == Head(pending[c]) IN
         received' = IF m \in Answers THEN received ELSE [received EXCEPT ![c] = Append(@, m)]
    /\ pending' = [pending EXCEPT ![c] = Tail(@)]
    /\ UNCHANGED <<phase, sent>>

\* The clients cs are removed from the endpoint, and what was broadcast to them
\* is still on its way.
Leave(cs) ==
    /\ cs # {} /\ \A c \in cs : phase[c] = "member"
    /\ phase' = [c \in Clients |-> IF c \in cs THEN "leaving" ELSE phase[c]]
    /\ UNCHANGED <<sent, pending, received>>

\* The connection ends: of what is pending, at most what is being sent arrives.
EndConnection(c) ==
    /\ phase[c] \in {"outside", "member", "leaving"}
    /\ phase' = [phase EXCEPT ![c] = "closing"]
    /\ \E n \in {0, 1} :
         n <= Len(pending[c]) /\ pending' = [pending EXCEPT ![c] = SubSeq(@, 1, n)]
    /\ UNCHANGED <<sent, received>>

\* What is being sent fails.
Lose(c) ==
    /\ phase[c] = "closing" /\ pending[c] # <<>>
    /\ pending' = [pending EXCEPT ![c] = <<>>]
    /\ UNCHANGED <<phase, sent, received>>

Vanish(c) ==
    /\ phase[c] \in {"outside", "closing"} /\ pending[c] = <<>>
    /\ phase' = [phase EXCEPT ![c] = "gone"]
    /\ UNCHANGED <<sent, pending, received>>

Next ==
    \/ \E c \in Clients : \/ Join(c) \/ Answer(c) \/ Receive(c)
                          \/ EndConnection(c) \/ Lose(c) \/ Vanish(c)
    \/ \E m \in Broadcasts : Broadcast(m)
    \/ \E cs \in SUBSET Clients : Leave(cs)

Spec == Init /\ [][Next]_vars
=============================================================================
