------------------------------ MODULE KeyStore ------------------------------
(***************************************************************************)
(* What a node knows: contacts, channels, profiles, peers and its own      *)
(* keys, in the four kinds of node.  The maps of nodes/ram and nodes/fs    *)
(* are changed under the node's mutex.  nodes/db and nodes/qldb keep       *)
(* tables, without primary keys, and a cache of the channel keys; a call   *)
(* of theirs is a sequence of statements, and the calls of several callers *)
(* interleave between the statements.  The router asks the tables whether  *)
(* it knows a channel and then decrypts with the cache.                    *)
(*                                                                         *)
(* One statement or transaction is one step.  The maps of the cache are    *)
(* not locked either: a run of the program that the Go runtime ends for    *)
(* that reason is a Restart here.                                          *)
(***************************************************************************)
EXTENDS Integers, FiniteSets, SequencesExt

CONSTANTS
    Callers, Names, ChannelKeys,
    Bad,            \* a string that is no key
    None,
    Groups, NoGroup,  \* the peer groups; NoGroup is ""
    MaxOps          \* bound of the model: calls made of the node

ASSUME KeyStoreAssumption ==
    /\ Bad \notin ChannelKeys /\ None \notin ChannelKeys \cup {Bad}
    /\ NoGroup \in Groups
    /\ MaxOps \in Nat

VARIABLES
    kind,           \* "ram", "fs", "db" or "ql"
    contacts, channels,  \* name -> key or None
    channelKeys,    \* the cache (in ram and fs, the channels themselves)
    profiles,       \* name -> the keys of the rows of the name, oldest first
    peers,          \* name -> the groups of the rows of the name, oldest first
    contentKey, routingKey,
    calls,          \* caller -> the call between two statements, or Idle
    up,             \* FALSE after a nil pointer was followed
    keysMade, ops,
    fresh           \* history: the last AddChannel to end had reloaded the
                    \* cache, and no other AddChannel ran at the same time
vars == <<kind, contacts, channels, channelKeys, profiles, peers, contentKey,
          routingKey, calls, up, keysMade, ops, fresh>>

IsSql == kind \in {"db", "ql"}
Idle  == [op |-> "idle"]
Cloned == 0         \* contentKey.Clone() without GenerateKey()

\* A query for one row takes the oldest.
FirstKey(rows) == IF rows = << >> THEN None ELSE Head(rows)

Readable(rows) == \A n \in Names : rows[n] # Bad

\* A database may come from an earlier life of the node.
Init ==
    /\ kind \in {"ram", "fs", "db", "ql"}
    /\ contacts = [n \in Names |-> None]
    /\ channels \in [Names -> {None} \cup (IF IsSql THEN ChannelKeys ELSE {})]
    /\ channelKeys = channels
    /\ profiles = [n \in Names |-> << >>] /\ peers = profiles
    /\ contentKey = 1 /\ routingKey = 2
    /\ calls = [c \in Callers |-> Idle]
    /\ up = TRUE
    /\ keysMade = 2 /\ ops = 0
    /\ fresh = TRUE

Call == up /\ ops < MaxOps /\ ops' = ops + 1
ownKeys == <<contentKey, routingKey, keysMade>>

\* The table config, written when the database was made and not again.
config == [content |-> 1, routing |-> 2]

-----------------------------------------------------------------------------
\* dbAddContact and qlAddContact do not look at the key.
AddContact(n, k) ==
    /\ Call
    /\ IsSql \/ k # Bad
    /\ contacts' = [contacts EXCEPT ![n] = k]
    /\ UNCHANGED <<kind, channels, channelKeys, profiles, peers, ownKeys, calls, up, fresh>>

DeleteContact(n) ==
    /\ Call
    /\ contacts' = [contacts EXCEPT ![n] = None]
    /\ UNCHANGED <<kind, channels, channelKeys, profiles, peers, ownKeys, calls, up, fresh>>

-----------------------------------------------------------------------------
(***************************************************************************)
(* Channels.  qlAddChannel does not look at the key either.  After the     *)
(* transaction refreshChannels reads all rows, and if one of them is not a *)
(* key, none of them gets into the cache; otherwise they are assigned one  *)
(* by one, and names that are gone stay.                                   *)
(***************************************************************************)
Adding(c) == calls[c].op = "AddChannel"

SetChannel(n, k) ==
    /\ channels' = [channels EXCEPT ![n] = k]
    /\ channelKeys' = IF IsSql THEN channelKeys ELSE [channelKeys EXCEPT ![n] = k]

\* Every call that is between two statements learns that the name changed.
Noticed(op, n, cs) ==
    [c \in Callers |-> IF cs[c].op = op /\ cs[c].name = n
                         THEN [cs[c] EXCEPT !.changed = TRUE] ELSE cs[c]]

AddChannel(c, n, k) ==
    /\ Call /\ calls[c] = Idle
    /\ kind = "ql" \/ k # Bad
    /\ SetChannel(n, k)
    /\ IF IsSql
         THEN calls' = [d \in Callers |->
                IF d = c THEN [op |-> "AddChannel", saw |-> << >>,
                               alone |-> \A e \in Callers : ~Adding(e)]
                ELSE IF Adding(d) THEN [calls[d] EXCEPT !.alone = FALSE] ELSE calls[d]]
         ELSE UNCHANGED calls
    /\ UNCHANGED <<kind, contacts, profiles, peers, ownKeys, up, fresh>>

\* dbGetChannelsPriv and qlGetChannelsPriv.
RefreshRead(c) ==
    /\ up /\ Adding(c) /\ calls[c].saw = << >>
    /\ IF Readable(channels)
         THEN calls' = [calls EXCEPT ![c].saw = channels] /\ UNCHANGED fresh
         ELSE calls' = [calls EXCEPT ![c] = Idle] /\ fresh' = FALSE
    /\ UNCHANGED <<kind, contacts, channels, channelKeys, profiles, peers, ownKeys, up, ops>>

\* Mutant: a key that is in the cache stays.
Refreshed_NewOnly(rows) ==
    [n \in Names |-> IF channelKeys[n] # None THEN channelKeys[n] ELSE rows[n]]
\* Mutant: the cache is emptied of what was read before.
Refreshed_Last(rows) ==
    [n \in Names |-> IF rows[n] # channelKeys[n] THEN rows[n] ELSE None]

Refreshed(rows) == [n \in Names |-> IF rows[n] = None THEN channelKeys[n] ELSE rows[n]]

RefreshWrite(c) ==
    /\ up /\ Adding(c) /\ calls[c].saw # << >>
    /\ channelKeys' = Refreshed(calls[c].saw)
    /\ fresh' = calls[c].alone
    /\ calls' = [calls EXCEPT ![c] = Idle]
    /\ UNCHANGED <<kind, contacts, channels, profiles, peers, ownKeys, up, ops>>

DeleteChannel(n) ==
    /\ Call
    /\ SetChannel(n, None)
    /\ calls' = Noticed("Route", n, calls)
    /\ UNCHANGED <<kind, contacts, profiles, peers, ownKeys, up, fresh>>

\* The router has a message for a channel it has not seen before and asks
\* GetChannel; if it knows the channel, Handle comes next.
Route(c, n) ==
    /\ Call /\ calls[c] = Idle
    /\ channels[n] \in ChannelKeys
    /\ calls' = [calls EXCEPT ![c] = [op |-> "Route", name |-> n, changed |-> FALSE]]
    /\ UNCHANGED <<kind, contacts, channels, channelKeys, profiles, peers, ownKeys, up, fresh>>

\* If Handle does not find the key, Route returns its error: the message is
\* neither handled nor forwarded, and is not looked at when it comes again.
Swallows(c) == calls[c].op = "Route" /\ channelKeys[calls[c].name] = None

RouteHandle(c) ==
    /\ up /\ calls[c].op = "Route"
    /\ calls' = [calls EXCEPT ![c] = Idle]
    /\ UNCHANGED <<kind, contacts, channels, channelKeys, profiles, peers, ownKeys, up, ops, fresh>>

-----------------------------------------------------------------------------
(***************************************************************************)
(* Profiles: select the row, then insert or update.  dbAddProfile writes   *)
(* back the row it read, qlAddProfile only the flag.  The maps get a clone *)
(* of the content key for a profile they had already.                      *)
(***************************************************************************)
AddProfile(c, n) ==
    /\ Call /\ calls[c] = Idle
    /\ IF IsSql
         THEN /\ calls' = [calls EXCEPT ![c] =
                   [op |-> "AddProfile", name |-> n, saw |-> FirstKey(profiles[n]),
                    changed |-> FALSE]]
              /\ UNCHANGED <<profiles, keysMade>>
         ELSE /\ keysMade' = keysMade + 1
              /\ profiles' = [profiles EXCEPT ![n] =
                   <<IF profiles[n] = << >> THEN keysMade + 1 ELSE Cloned>>]
              /\ UNCHANGED calls
    /\ UNCHANGED <<kind, contacts, channels, channelKeys, peers, contentKey, routingKey,
                   up, fresh>>

\* Mutant: an update makes a new key, too.
Updated_NewKey(rows, saw) == [i \in DOMAIN rows |-> keysMade + 1]

Updated(rows, saw) == IF kind = "db" THEN [i \in DOMAIN rows |-> saw] ELSE rows

\* Whoever else is adding the profile learns that its key is not what it read.
WriteProfile(c) ==
    LET n == calls[c].name
        ended == [calls EXCEPT ![c] = Idle]
    IN  /\ up /\ calls[c].op = "AddProfile"
        /\ keysMade' = keysMade + 1
        /\ profiles' = [profiles EXCEPT ![n] =
              IF calls[c].saw = None THEN Append(profiles[n], keysMade + 1)
              ELSE Updated(profiles[n], calls[c].saw)]
        /\ calls' = IF FirstKey(profiles'[n]) = FirstKey(profiles[n]) THEN ended
                    ELSE Noticed("AddProfile", n, ended)
        /\ UNCHANGED <<kind, contacts, channels, channelKeys, peers, contentKey, routingKey,
                       up, ops, fresh>>

DeleteProfile(n) ==
    /\ Call
    /\ profiles' = [profiles EXCEPT ![n] = << >>]
    /\ calls' = Noticed("AddProfile", n, calls)
    /\ UNCHANGED <<kind, contacts, channels, channelKeys, peers, ownKeys, up, fresh>>

\* The profile's key becomes the content key.  The maps' LoadProfile looks for
\* the name among the channels before it takes the profile.
LoadProfile(n) ==
    /\ Call
    /\ LET k == FirstKey(profiles[n])
           known == IF IsSql THEN k # None ELSE channels[n] # None
       IN  /\ contentKey' = IF known /\ k # None THEN k ELSE contentKey
           /\ up' = ~(known /\ k = None)
    /\ UNCHANGED <<kind, contacts, channels, channelKeys, profiles, peers, routingKey,
                   calls, keysMade, fresh>>

-----------------------------------------------------------------------------
(***************************************************************************)
(* Peers: the same two statements.  qlAddPeer looks for the name in the    *)
(* group, but its update changes every row of the name.                    *)
(***************************************************************************)
AddPeer(c, n, g) ==
    /\ Call /\ calls[c] = Idle
    /\ IF IsSql
         THEN /\ calls' = [calls EXCEPT ![c] =
                   [op |-> "AddPeer", name |-> n, group |-> g,
                    saw |-> Contains(peers[n], g)]]
              /\ UNCHANGED peers
         ELSE /\ peers' = [peers EXCEPT ![n] = <<g>>]
              /\ UNCHANGED calls
    /\ UNCHANGED <<kind, contacts, channels, channelKeys, profiles, ownKeys, up, fresh>>

WritePeer(c) ==
    /\ up /\ calls[c].op = "AddPeer"
    /\ peers' = [peers EXCEPT ![calls[c].name] =
          IF ~calls[c].saw THEN Append(@, calls[c].group)
          ELSE IF kind = "ql" THEN [i \in DOMAIN @ |-> calls[c].group] ELSE @]
    /\ calls' = [calls EXCEPT ![c] = Idle]
    /\ UNCHANGED <<kind, contacts, channels, channelKeys, profiles, ownKeys, up, ops, fresh>>

DeletePeer(n) ==
    /\ Call
    /\ peers' = [peers EXCEPT ![n] = << >>]
    /\ UNCHANGED <<kind, contacts, channels, channelKeys, profiles, ownKeys, calls, up, fresh>>

-----------------------------------------------------------------------------
\* The process ends and BootstrapDB opens the database again.  nodes/db reads
\* the routing key from the result set of the content key.
Restart ==
    /\ IsSql /\ ops < MaxOps /\ ops' = ops + 1
    /\ calls' = [c \in Callers |-> Idle]
    /\ contentKey' = config.content
    /\ routingKey' = IF kind = "db" THEN config.content ELSE config.routing
    /\ channelKeys' = IF Readable(channels) THEN channels ELSE [n \in Names |-> None]
    /\ fresh' = Readable(channels)
    /\ UNCHANGED <<kind, contacts, channels, profiles, peers, up, keysMade>>

\* Stop and Start of a node whose maps live on: nodes/fs makes new keys whenever it
\* is started, nodes/ram only if it has none.
StartAgain ==
    /\ ~IsSql /\ Call
    /\ contentKey' = IF kind = "fs" THEN keysMade + 1 ELSE contentKey
    /\ routingKey' = IF kind = "fs" THEN keysMade + 2 ELSE routingKey
    /\ keysMade' = IF kind = "fs" THEN keysMade + 2 ELSE keysMade
    /\ UNCHANGED <<kind, contacts, channels, channelKeys, profiles, peers, calls, up, fresh>>

Next ==
    \/ \E n \in Names : \/ \E k \in ChannelKeys \cup {Bad} : AddContact(n, k)
                        \/ DeleteContact(n) \/ DeleteChannel(n) \/ DeleteProfile(n)
                        \/ LoadProfile(n) \/ DeletePeer(n)
    \/ \E c \in Callers, n \in Names :
         \/ \E k \in ChannelKeys \cup {Bad} : AddChannel(c, n, k)
         \/ Route(c, n)
         \/ AddProfile(c, n)
         \/ \E g \in Groups : AddPeer(c, n, g)
    \/ \E c \in Callers : \/ RefreshRead(c) \/ RefreshWrite(c) \/ RouteHandle(c)
                          \/ WriteProfile(c) \/ WritePeer(c)
    \/ Restart \/ StartAgain

Spec == Init /\ [][Next]_vars

-----------------------------------------------------------------------------
(***************************************************************************)
(* Properties.                                                             *)
(***************************************************************************)
TypeOK ==
    /\ kind \in {"ram", "fs", "db", "ql"}
    /\ contacts \in [Names -> ChannelKeys \cup {Bad, None}]
    /\ channels \in [Names -> ChannelKeys \cup {Bad, None}]
    /\ channelKeys \in [Names -> ChannelKeys \cup {None}]
    /\ profiles \in [Names -> Seq(0 .. keysMade)]
    /\ peers \in [Names -> Seq(Groups)]
    /\ {contentKey, routingKey} \subseteq 0 .. keysMade
    /\ {calls[c].op : c \in Callers} \subseteq {"idle", "AddChannel", "Route", "AddProfile", "AddPeer"}
    /\ up \in BOOLEAN /\ fresh \in BOOLEAN /\ ops \in 0 .. MaxOps

\* The cache holds the key of every channel in the table, once AddChannel has
\* ended, unless two AddChannels overlapped (the one that read first may write
\* last) or a row that is not a key kept the cache from being reloaded.
CacheCoherent ==
    fresh /\ (\A c \in Callers : ~Adding(c)) =>
        \A n \in Names : channels[n] # None => channelKeys[n] = channels[n]

\* A message for a channel the node knows is swallowed only if the channel was
\* deleted, or is still being added, between the two questions of the router, or
\* the cache was not reloaded.
RouteLosesOnlyOnChange ==
    [][ \A c \in Callers : RouteHandle(c) /\ Swallows(c) =>
          calls[c].changed \/ ~fresh \/ \E d \in Callers : Adding(d) ]_vars

\* The tables have no primary keys, but of one profile, or one peer in a group,
\* there are never more rows than callers that may add it at once, however often
\* it is added.  (QL's peers: see PeersBounded.)
Count(rows, g) == Len(SelectSeq(rows, LAMBDA r : r = g))

RowsBounded ==
    LET bound == IF IsSql THEN Cardinality(Callers) ELSE 1
    IN  \A n \in Names :
          /\ Len(profiles[n]) <= bound
          /\ kind \in {"ram", "fs"} => Len(peers[n]) <= 1
          /\ kind = "db" => \A g \in Groups : Count(peers[n], g) <= bound

\* Adding a profile again does not change the key it has in the database, except
\* that nodes/db writes back a key it read before the profile was deleted, or
\* before another call wrote back such a key.
ProfileKeyKept ==
    [][ \A n \in Names :
          LET was == FirstKey(profiles[n])  is == FirstKey(profiles'[n])
          IN  IsSql /\ was # None /\ is # None /\ was # is =>
                \E c \in Callers : kind = "db" /\ WriteProfile(c) /\ calls[c].changed ]_vars

\* AddPeer leaves at most one row per caller in a group.  (Fails: QL's update
\* moves the rows that the peer has in other groups.)
PeersBounded ==
    \A n \in Names, g \in Groups : Count(peers[n], g) <= Cardinality(Callers)

\* A node keeps its identity when it is restarted.  (Fails: nodes/db reads the
\* content key for the routing key, and nodes/fs makes new keys.)
IdentityKept ==
    [][ /\ Restart => contentKey' = config.content /\ routingKey' = config.routing
        /\ StartAgain => UNCHANGED <<contentKey, routingKey>> ]_vars

\* LoadProfile loads a profile the node has.  (Fails in nodes/ram and nodes/fs.)
ProfileLoads ==
    [][ \A n \in Names : LoadProfile(n) /\ FirstKey(profiles[n]) # None =>
          contentKey' = FirstKey(profiles[n]) ]_vars
=============================================================================
