----------------------------- MODULE MCSessions -----------------------------
\* Small instances of Sessions for TLC.
EXTENDS Sessions

Str(s) == [type |-> "string", value |-> [v |-> s]]

\* A public call, an admin call, and one that serialize cannot write whole.
MCCalls ==
    {[action |-> "Dropoff", args |-> <<[type |-> "bundle",
                                        value |-> [Data |-> "d", Time |-> "t"]]>>],
     [action |-> "AddPeer", args |-> <<Str("p"), Str("true"), Str("u"),
                                       [type |-> "nil", value |-> << >>]>>],
     [action |-> "GetPeers", args |-> <<[type |-> "bool", value |-> [v |-> TRUE]]>>]}
=============================================================================
