-------------------------------- MODULE Rpc --------------------------------
(***************************************************************************)
(* A remote call on its way: how api/remoting.go writes a call and reads   *)
(* it back, and what nodes/rpc.go makes of the call it has read.           *)
(*                                                                         *)
(* A value is [type, value], value a record of its fields; on the wire it  *)
(* is a type and the sequence of its fields.  An array of records is       *)
(* written like the records, one after the other behind their number.      *)
(***************************************************************************)
EXTENDS Integers, Sequences, SequencesExt

\* The fields of a value in the order in which serialize writes them.
Layout ==
    [nil |-> << >>, int64 |-> <<"v">>, uint64 |-> <<"v">>, string |-> <<"v">>,
     bytes |-> <<"v">>, bytesbytes |-> <<"v">>, pubkey |-> <<"v">>,
     contact |-> <<"Name", "Pubkey">>, channel |-> <<"Name", "Pubkey">>,
     profile |-> <<"Name", "Pubkey", "Enabled">>,
     peer |-> <<"Name", "Group", "URI", "Enabled">>,
     bundle |-> <<"Data", "Time">>]

\* ... and in which deserialize takes them.
ReadLayout == Layout

Supported(v) == v.type \in DOMAIN Layout

\* A value has the fields of its type; those of a type that is not written do not matter.
IsValue(v) ==
    Supported(v) =>
        v = [type |-> v.type, value |-> [f \in ToSet(Layout[v.type]) |-> v.value[f]]]

Write(v) ==
    LET order == Layout[v.type]
    IN  [type |-> v.type, parts |-> [i \in DOMAIN order |-> v.value[order[i]]]]

Read(w) ==
    LET order == ReadLayout[w.type]
    IN  [type |-> w.type,
         value |-> [f \in ToSet(order) |-> w.parts[CHOOSE i \in DOMAIN order : order[i] = f]]]

(***************************************************************************)
(* The arguments are an array: their number, and then one after the other, *)
(* in a buffer of their own.  A value of a type that serialize does not    *)
(* know is counted and not written.                                        *)
(***************************************************************************)
Written(args) ==
    LET buf[n \in 0 .. Len(args)] ==
          IF n = 0 THEN << >>
          ELSE IF Supported(args[n]) THEN Append(buf[n - 1], Write(args[n])) ELSE buf[n - 1]
    IN  buf[Len(args)]

Encode(call) ==
    [action |-> call.action, count |-> Len(call.args), blob |-> Written(call.args)]

\* A call is an action and a sequence of values.
IsCall(call) ==
    /\ call = [action |-> call.action, args |-> call.args]
    /\ Len(call.args) \in Nat /\ call.args = [i \in 1 .. Len(call.args) |-> call.args[i]]
    /\ \A i \in 1 .. Len(call.args) : IsValue(call.args[i])

Undecodable == [action |-> "undecodable", args |-> << >>]

\* Mutant: the values that are there are the arguments.
Decode_AnyNumber(m) ==
    [action |-> m.action, args |-> [i \in DOMAIN m.blob |-> Read(m.blob[i])]]

\* The end of the buffer before the last argument is an error.
Decode(m) ==
    IF Len(m.blob) < m.count THEN Undecodable
    ELSE [action |-> m.action, args |-> [i \in 1 .. m.count |-> Read(m.blob[i])]]

-----------------------------------------------------------------------------
PublicActions == {"ID", "Pickup", "Dropoff"}

\* The types of the arguments that a call must have.
Signature ==
    [ID |-> << >>, Pickup |-> <<"pubkey", "int64">>, Dropoff |-> <<"bundle">>,
     CID |-> << >>, GetContacts |-> << >>, GetChannels |-> << >>,
     GetProfiles |-> << >>, GetPeers |-> << >>,
     GetContact |-> <<"string">>, DeleteContact |-> <<"string">>,
     GetChannel |-> <<"string">>, DeleteChannel |-> <<"string">>,
     GetProfile |-> <<"string">>, DeleteProfile |-> <<"string">>,
     LoadProfile |-> <<"string">>,
     GetPeer |-> <<"string">>, DeletePeer |-> <<"string">>,
     AddContact |-> <<"string", "string">>, AddChannel |-> <<"string", "string">>,
     AddProfile |-> <<"string", "string">>,
     AddPeer |-> <<"string", "string", "string">>,
     Send |-> <<"string", "bytes">>, SendChannel |-> <<"string", "bytes">>]

\* ... and what it may have besides: channel names, a group, a public key.
MayFollow(action, i, t) ==
    CASE action = "Pickup"               -> t = "string"
      [] action = "GetPeers"             -> i = 1 /\ t = "string"
      [] action = "AddPeer"              -> i = 4 => t \in {"string", "nil"}
      [] action \in {"Send", "SendChannel"} -> i = 3 => t = "pubkey"
      [] OTHER                           -> TRUE

\* strconv.ParseBool, for the flag that is passed as a string.
FlagOk(call) ==
    call.action \in {"AddProfile", "AddPeer"} =>
        call.args[2].value.v \in {"1", "t", "T", "true", "True", "TRUE",
                                  "0", "f", "F", "false", "False", "FALSE"}

Accepts(call) ==
    LET needs == Signature[call.action]
    IN  /\ Len(call.args) >= Len(needs)
        /\ \A i \in DOMAIN call.args :
             IF i <= Len(needs) THEN call.args[i].type = needs[i]
             ELSE MayFollow(call.action, i, call.args[i].type)
        /\ FlagOk(call)

\* AdminRPC passes what it does not know on to PublicRPC.
Performed(call, admin) ==
    /\ call.action \in (IF admin THEN DOMAIN Signature ELSE PublicActions)
    /\ Accepts(call)
=============================================================================
