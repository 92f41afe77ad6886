------------------------------- MODULE Gossip -------------------------------
(***************************************************************************)
(* What a network of ratnet nodes promises, without outboxes, polls or     *)
(* cursors: a message enters at its origin, a node learns it from a        *)
(* neighbour that knew it, and learns it once, until it forgets everything *)
(* it knew; only on learning a message may it give it to its application.  *)
(***************************************************************************)
EXTENDS Naturals

CONSTANTS Nodes, Msgs, Origin,
          Neighbours(_)     \* the nodes a node exchanges messages with

VARIABLES
    known,      \* node -> messages it remembers
    ever,       \* node -> messages it sent or learned, ever
    given       \* node -> message -> times given to the application
vars == <<known, ever, given>>

Init ==
    /\ known = [n \in Nodes |-> {}]
    /\ ever = [n \in Nodes |-> {}]
    /\ given = [n \in Nodes |-> [m \in Msgs |-> 0]]

Inject(m) ==
    /\ ever' = [ever EXCEPT ![Origin[m]] = @ \cup {m}]
    /\ UNCHANGED <<known, given>>

Learn(n, m) ==
    /\ m \notin known[n]
    /\ \E k \in Neighbours(n) : m \in ever[k]
    /\ known' = [known EXCEPT ![n] = @ \cup {m}]
    /\ ever' = [ever EXCEPT ![n] = @ \cup {m}]
    /\ \/ UNCHANGED given
       \/ given' = [given EXCEPT ![n][m] = @ + 1]

Forget(n) ==
    /\ known' = [known EXCEPT ![n] = {}]
    /\ given' = [given EXCEPT ![n] = [m \in Msgs |-> 0]]
    /\ UNCHANGED ever

Next ==
    \/ \E m \in Msgs : Inject(m)
    \/ \E n \in Nodes, m \in Msgs : Learn(n, m)
    \/ \E n \in Nodes : Forget(n)

Spec == Init /\ [][Next]_vars
=============================================================================
