------------------------------- MODULE MCFlood -------------------------------
\* Small networks for TLC: nodes a, b, c; b is the server.
EXTENDS Flood, TLC

CONSTANTS a, b, c, m1, m2, ch, ch2, priv

Pair == {<<a, b>>}
Star == {<<a, b>>, <<c, b>>}

\* m1: on channel ch, from b or c; m2: private, from a to b or across b to c.
MCChan == (m1 :> ch) @@ (m2 :> priv)
PairOrigin == (m1 :> b) @@ (m2 :> a)
PairDest   == (m1 :> b) @@ (m2 :> b)
StarOrigin == (m1 :> c) @@ (m2 :> a)
StarDest   == (m1 :> c) @@ (m2 :> c)

EveryKey == [n \in Nodes |-> Channels]
KeysButB == [n \in Nodes |-> IF n = b THEN {} ELSE Channels]

\* NewDefaultRouter
DefaultFlags ==
    [CheckContent |-> TRUE, CheckChannels |-> TRUE,
     ForwardConsumedContent |-> FALSE, ForwardConsumedChannels |-> TRUE,
     ForwardUnknownContent |-> TRUE, ForwardUnknownChannels |-> TRUE]
Default == [n \in Nodes |-> DefaultFlags]

Unpatched == [n \in Nodes |-> [x \in Chans |-> <<x>>]]
\* b passes on what comes on ch to both ch and ch2.
PatchedB  == [Unpatched EXCEPT ![b][ch] = <<ch, ch2>>]
==============================================================================
