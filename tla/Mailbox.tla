------------------------------ MODULE Mailbox ------------------------------
(***************************************************************************)
(* What an outbox promises to the nodes that poll it, whichever way it is  *)
(* stored: messages are kept in the order they were posted; every reader   *)
(* goes through them in that order and is handed the live ones it wants,   *)
(* and none of those is passed over that was posted in its turn; only      *)
(* messages that are too old, or that an older one overtook, disappear.    *)
(***************************************************************************)
EXTENDS Naturals, Sequences

CONSTANTS Messages, Readers,
          Wants(_, _),  \* Wants(r, m): reader r asked for the channel of m
          StampOf(_)    \* StampOf(m): when m was stamped

VARIABLES
    log,    \* every message posted, in order
    live,   \* the messages still kept
    old,    \* the messages that may be dropped
    pos,    \* reader -> how much of the log it has been through
    got     \* reader -> the messages it was handed
vars == <<log, live, old, pos, got>>

Posted == {log[i] : i \in DOMAIN log}

\* Every message before i was stamped before it.
InTurn(i) == \A j \in 1 .. i - 1 : StampOf(log[j]) < StampOf(log[i])

\* A message after i was stamped before it.
Overtaken(i) == \E j \in DOMAIN log : i < j /\ StampOf(log[j]) < StampOf(log[i])

Init ==
    /\ log = << >>
    /\ live = {}
    /\ old = {}
    /\ pos = [r \in Readers |-> 0]
    /\ got = [r \in Readers |-> {}]

Post(m) ==
    /\ m \notin Posted
    /\ log' = Append(log, m)
    /\ live' = live \cup {m}
    /\ \E S \in SUBSET {m} : old' = old \cup S
    /\ UNCHANGED <<pos, got>>

\* The messages among the positions I that reader r is to be handed.
For(r, I) == {log[i] : i \in {j \in I : log[j] \in live /\ Wants(r, log[j])}}

\* Of those out of turn or overtaken it may be handed any, at any time.
Fetch(r) ==
    \E k \in pos[r] .. Len(log) :
        /\ pos' = [pos EXCEPT ![r] = k]
        /\ \E S \in SUBSET For(r, {i \in DOMAIN log : ~InTurn(i) \/ Overtaken(i)}) :
             got' = [got EXCEPT ![r] = @ \cup S
                                         \cup For(r, {i \in pos[r] + 1 .. k : InTurn(i)})]
        /\ UNCHANGED <<log, live, old>>

Age ==
    /\ \E S \in SUBSET Posted : old' = old \cup S
    /\ UNCHANGED <<log, live, pos, got>>

Expire ==
    /\ \E S \in SUBSET (live \cap (old \cup {log[i] : i \in {j \in DOMAIN log : Overtaken(j)}})) :
         live' = live \ S
    /\ UNCHANGED <<log, old, pos, got>>

Next ==
    \/ \E m \in Messages : Post(m)
    \/ \E r \in Readers : Fetch(r)
    \/ Age
    \/ Expire

Spec == Init /\ [][Next]_vars
=============================================================================
