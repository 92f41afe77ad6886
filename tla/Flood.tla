------------------------------- MODULE Flood -------------------------------
(***************************************************************************)
(* A network of ratnet nodes with the default router.                     *)
(*                                                                         *)
(* Nothing is addressed to a neighbour.  Each node keeps an outbox; a      *)
(* polling client exchanges outboxes with each of its servers              *)
(* (policy.PollServer: pick up local, pick up remote, drop off remote,     *)
(* drop off local), remembering in a PeerInfo how far it has read either   *)
(* outbox; and every message dropped off is routed (router.Route): dropped *)
(* if its nonce was seen, handed to the application if the node holds its  *)
(* key, appended to the node's own outbox if it is to be forwarded.        *)
(*                                                                         *)
(* The calls of a PollServer run interleave with sends, with the runs of   *)
(* other clients, with failing connections and with restarts of either     *)
(* node.  What the modules RecentBuffer and RamOutbox establish is used    *)
(* here as follows: the loop-detection cache is a set (its window is       *)
(* longer than any run), a timestamp is taken and appended in one step, no *)
(* two are equal, and a flush removes old messages only.                   *)
(***************************************************************************)
EXTENDS Integers, Sequences, FiniteSets

CONSTANTS
    Nodes,
    Links,      \* <<client, server>>: the client's poll policy has that peer
    Msgs,       \* a message is named by its nonce
    Channels,
    Private,    \* the empty channel name, of a message to a content key
    Origin,     \* message -> the node whose application sends it
    Chan,       \* message -> the channel it is encrypted for, or Private
    Dest,       \* message -> whose content key it is encrypted for, if Private
    Keys,       \* node -> the channels it has the key of
    Router,     \* node -> the flags of its router
    To,         \* node -> channel -> where its patches send it (itself: unpatched)
    NewKeys,    \* a restarted node may have a new routing key
    OutMayFill, \* the application may leave the Out channel full
    MaxFails, MaxRestarts, MaxFlushes   \* bounds of the model

Chans == Channels \cup {Private}

Flags == [CheckContent : BOOLEAN, CheckChannels : BOOLEAN,
          ForwardConsumedContent : BOOLEAN, ForwardConsumedChannels : BOOLEAN,
          ForwardUnknownContent : BOOLEAN, ForwardUnknownChannels : BOOLEAN]

ASSUME FloodAssumption ==
    /\ Links \subseteq Nodes \X Nodes
    /\ Private \notin Channels
    /\ Origin \in [Msgs -> Nodes] /\ Dest \in [Msgs -> Nodes]
    /\ Chan \in [Msgs -> Chans]
    /\ Keys \in [Nodes -> SUBSET Channels]
    /\ Router \in [Nodes -> Flags]
    /\ To \in [Nodes -> [Chans -> Seq(Chans)]]
    /\ NewKeys \in BOOLEAN /\ OutMayFill \in BOOLEAN
    /\ MaxFails \in Nat /\ MaxRestarts \in Nat /\ MaxFlushes \in Nat

VARIABLES
    outbox,         \* node -> records [nonce, chan, ts]
    clock,          \* node -> the timestamp of its last append
    seen,           \* node -> nonces its router remembers
    key,            \* node -> the number of its routing key
    \* PeerInfo of a link, kept by the client:
    routingPub,     \* the server's routing key, or NoKey
    lastPollLocal,  \* how far the client's outbox was delivered
    lastPollRemote, \* how far the server's outbox was read
    sentBefore,     \* TotalBytesTX > 0
    \* The PollServer run on a link, if any:
    phase,          \* what it does next
    toRemote, toRemoteTime, \* picked up locally: records, and the time with them
    toLocal, toLocalTime,   \* picked up remotely and not routed yet
    inbox,          \* link -> records its Dropoff calls still have to route
    faults, restarts, flushes,
    \* History, read by the properties only:
    sent,           \* messages the applications sent
    handled,        \* node -> <<nonce, channel>> routed and not dropped, ever
    dropped,        \* node -> <<nonce, channel>> dropped as seen, ever
    delivered       \* node -> message -> times put on Out since the last start

nodeVars == <<outbox, clock, seen, key>>
peerVars == <<routingPub, lastPollLocal, lastPollRemote, sentBefore>>
runVars  == <<phase, toRemote, toRemoteTime, toLocal, toLocalTime>>
bounds   == <<faults, restarts, flushes>>
history  == <<sent, handled, dropped, delivered>>
vars     == <<nodeVars, peerVars, runVars, inbox, bounds, history>>

NoKey  == 0
Recs   == [nonce : Msgs, chan : Chans, ts : Nat]
Phases == {"idle", "pickup", "dropoff", "reply", "local"}

Init ==
    /\ outbox = [n \in Nodes |-> {}]
    /\ clock = [n \in Nodes |-> 0]
    /\ seen = [n \in Nodes |-> {}]
    /\ key = [n \in Nodes |-> 1]
    /\ routingPub = [l \in Links |-> NoKey]
    /\ lastPollLocal = [l \in Links |-> 0]
    /\ lastPollRemote = [l \in Links |-> 0]
    /\ sentBefore = [l \in Links |-> FALSE]
    /\ phase = [l \in Links |-> "idle"]
    /\ toRemote = [l \in Links |-> {}]
    /\ toRemoteTime = [l \in Links |-> 0]
    /\ toLocal = [l \in Links |-> {}]
    /\ toLocalTime = [l \in Links |-> 0]
    /\ inbox = [l \in Links |-> {}]
    /\ faults = 0 /\ restarts = 0 /\ flushes = 0
    /\ sent = {}
    /\ handled = [n \in Nodes |-> {}]
    /\ dropped = [n \in Nodes |-> {}]
    /\ delivered = [n \in Nodes |-> [m \in Msgs |-> 0]]

-----------------------------------------------------------------------------
(***************************************************************************)
(* The outbox: appending, and reading after a time.                        *)
(***************************************************************************)
\* One record per channel of the sequence cs, stamped in turn.
Stamped(n, m, cs) ==
    {[nonce |-> m, chan |-> cs[i], ts |-> clock[n] + i] : i \in DOMAIN cs}

Enqueue(n, m, cs) ==
    /\ outbox' = [outbox EXCEPT ![n] = @ \cup Stamped(n, m, cs)]
    /\ clock' = [clock EXCEPT ![n] = @ + Len(cs)]

\* A Pickup returns the records after a time up to some record: the transport's
\* byte limit cuts the queue anywhere.
Until(n, since, t) == {r \in outbox[n] : since < r.ts /\ r.ts <= t}

After(n, since) == {r \in outbox[n] : since < r.ts}

PickupTimes(n, since) ==
    IF After(n, since) = {} THEN {since} ELSE {r.ts : r \in After(n, since)}

Oldest(r, S) == r \in S /\ \A q \in S : r.ts <= q.ts

-----------------------------------------------------------------------------
(***************************************************************************)
(* Routing of one record, which Dropoff does for each in turn.             *)
(***************************************************************************)
\* Handle decrypts the record: the router asked for it, and the node holds the
\* key the content was encrypted for (a patch changes the name, not the key).
Consumes(n, r) ==
    /\ r.chan = Chan[r.nonce]
    /\ IF r.chan = Private
         THEN Router[n].CheckContent /\ Dest[r.nonce] = n
         ELSE Router[n].CheckChannels /\ r.chan \in Keys[n]

\* Mutant: what the node cannot read, it does not pass on.
Forwards_ConsumedOnly(n, r) ==
    Consumes(n, r) /\ IF r.chan = Private THEN Router[n].ForwardConsumedContent
                                          ELSE Router[n].ForwardConsumedChannels

Forwards(n, r) ==
    IF r.chan = Private
      THEN IF Consumes(n, r) THEN Router[n].ForwardConsumedContent
                             ELSE Router[n].ForwardUnknownContent
      ELSE IF Consumes(n, r) THEN Router[n].ForwardConsumedChannels
                             ELSE Router[n].ForwardUnknownChannels

\* Mutant: no loop detection.
Seen_Never(n, r) == FALSE

Seen(n, r) == r.nonce \in seen[n]

RouteFresh(n, r) ==
    /\ ~Seen(n, r)
    /\ seen' = [seen EXCEPT ![n] = @ \cup {r.nonce}]
    /\ Enqueue(n, r.nonce, IF Forwards(n, r) THEN To[n][r.chan] ELSE << >>)
    /\ handled' = [handled EXCEPT ![n] = @ \cup {<<r.nonce, r.chan>>}]
    \* Out is written without blocking: if it is full the message is gone.
    /\ \/ /\ Consumes(n, r)
          /\ delivered' = [delivered EXCEPT ![n][r.nonce] = @ + 1]
       \/ /\ ~Consumes(n, r) \/ OutMayFill
          /\ UNCHANGED delivered
    /\ UNCHANGED dropped

RouteSeen(n, r) ==
    /\ Seen(n, r)
    /\ dropped' = [dropped EXCEPT ![n] = @ \cup {<<r.nonce, r.chan>>}]
    /\ UNCHANGED <<outbox, clock, seen, handled, delivered>>

Route(n, r) == RouteFresh(n, r) \/ RouteSeen(n, r)

-----------------------------------------------------------------------------
(***************************************************************************)
(* One PollServer run on the link l = <<client, server>>.  The peer table  *)
(* is locked for the whole run, so a client has one run at a time.         *)
(***************************************************************************)
Client(l) == l[1]
Server(l) == l[2]

EndRun(l) ==
    /\ phase' = [phase EXCEPT ![l] = "idle"]
    /\ toRemote' = [toRemote EXCEPT ![l] = {}]
    /\ toRemoteTime' = [toRemoteTime EXCEPT ![l] = 0]
    /\ toLocal' = [toLocal EXCEPT ![l] = {}]
    /\ toLocalTime' = [toLocalTime EXCEPT ![l] = 0]

\* The routing key is asked for once and cached; then the client's own outbox
\* is read.
PollServer(l) ==
    /\ \A k \in Links : Client(k) = Client(l) => phase[k] = "idle"
    /\ routingPub' = [routingPub EXCEPT ![l] = IF @ = NoKey THEN key[Server(l)] ELSE @]
    /\ \E t \in PickupTimes(Client(l), lastPollLocal[l]) :
         /\ toRemote' = [toRemote EXCEPT ![l] = Until(Client(l), lastPollLocal[l], t)]
         /\ toRemoteTime' = [toRemoteTime EXCEPT ![l] = t]
    /\ phase' = [phase EXCEPT ![l] = "pickup"]
    /\ UNCHANGED <<nodeVars, lastPollLocal, lastPollRemote, sentBefore,
                   toLocal, toLocalTime, inbox, bounds, history>>

\* The server's Pickup; the reply holds records and the time of the last one.
PickupRemote(l) ==
    /\ phase[l] = "pickup"
    /\ \E t \in PickupTimes(Server(l), lastPollRemote[l]) :
         /\ toLocal' = [toLocal EXCEPT ![l] = Until(Server(l), lastPollRemote[l], t)]
         /\ toLocalTime' = [toLocalTime EXCEPT ![l] = t]
    /\ phase' = [phase EXCEPT ![l] = IF toRemote[l] = {} THEN "local" ELSE "dropoff"]
    /\ UNCHANGED <<nodeVars, peerVars, toRemote, toRemoteTime, inbox, bounds, history>>

\* The server's Dropoff gets the bundle, if it can decrypt it ...
DropoffRemote(l) ==
    /\ phase[l] = "dropoff" /\ routingPub[l] = key[Server(l)]
    /\ inbox' = [inbox EXCEPT ![l] = @ \cup toRemote[l]]
    /\ phase' = [phase EXCEPT ![l] = "reply"]
    /\ UNCHANGED <<nodeVars, peerVars, toRemote, toRemoteTime, toLocal, toLocalTime,
                   bounds, history>>

\* ... and otherwise the luggage tag check fails and the run ends.
DropoffRefused(l) ==
    /\ phase[l] = "dropoff" /\ routingPub[l] # key[Server(l)]
    /\ EndRun(l)
    /\ UNCHANGED <<nodeVars, peerVars, inbox, bounds, history>>

\* The server routes the next record of a bundle, its client waiting or gone.
RouteRemote(l) ==
    \E r \in inbox[l] :
        /\ Oldest(r, inbox[l])
        /\ inbox' = [inbox EXCEPT ![l] = @ \ {r}]
        /\ Route(Server(l), r)
        /\ UNCHANGED <<key, peerVars, runVars, bounds, sent>>

\* Mutant: the cursor moves before the server is done.
ReplyRemote_Early(l) ==
    /\ phase[l] = "reply"
    /\ lastPollLocal' = [lastPollLocal EXCEPT ![l] =
                           IF sentBefore[l] THEN toRemoteTime[l] ELSE @]
    /\ sentBefore' = [sentBefore EXCEPT ![l] = TRUE]
    /\ phase' = [phase EXCEPT ![l] = "local"]
    /\ UNCHANGED <<nodeVars, routingPub, lastPollRemote, toRemote, toRemoteTime,
                   toLocal, toLocalTime, inbox, bounds, history>>

\* The reply to Dropoff: the records are routed.  The first ones ever sent are
\* not taken into account and are sent again.
ReplyRemote(l) ==
    /\ phase[l] = "reply" /\ toRemote[l] \cap inbox[l] = {}
    /\ lastPollLocal' = [lastPollLocal EXCEPT ![l] =
                           IF sentBefore[l] THEN toRemoteTime[l] ELSE @]
    /\ sentBefore' = [sentBefore EXCEPT ![l] = TRUE]
    /\ phase' = [phase EXCEPT ![l] = "local"]
    /\ UNCHANGED <<nodeVars, routingPub, lastPollRemote, toRemote, toRemoteTime,
                   toLocal, toLocalTime, inbox, bounds, history>>

\* The client routes the next record it picked up.
DropoffLocal(l) ==
    \E r \in toLocal[l] :
        /\ phase[l] = "local" /\ Oldest(r, toLocal[l])
        /\ toLocal' = [toLocal EXCEPT ![l] = @ \ {r}]
        /\ Route(Client(l), r)
        /\ UNCHANGED <<key, peerVars, phase, toRemote, toRemoteTime, toLocalTime, inbox,
                       bounds, sent>>

EndPoll(l) ==
    /\ phase[l] = "local" /\ toLocal[l] = {}
    /\ lastPollRemote' = [lastPollRemote EXCEPT ![l] = toLocalTime[l]]
    /\ EndRun(l)
    /\ UNCHANGED <<nodeVars, routingPub, lastPollLocal, sentBefore, inbox, bounds, history>>

\* Mutant: the cursor moves although the call failed.
Fail_Advances(l) ==
    /\ phase[l] \in {"pickup", "dropoff", "reply"}
    /\ faults < MaxFails
    /\ faults' = faults + 1
    /\ lastPollLocal' = [lastPollLocal EXCEPT ![l] = toRemoteTime[l]]
    /\ EndRun(l)
    /\ UNCHANGED <<nodeVars, routingPub, lastPollRemote, sentBefore, inbox,
                   restarts, flushes, history>>

\* A remote call fails, before the server got it or after it acted on it: the
\* run ends there, and what was picked up is forgotten.
Fail(l) ==
    /\ phase[l] \in {"pickup", "dropoff", "reply"}
    /\ faults < MaxFails
    /\ faults' = faults + 1
    /\ EndRun(l)
    /\ UNCHANGED <<nodeVars, peerVars, inbox, restarts, flushes, history>>

-----------------------------------------------------------------------------
(***************************************************************************)
(* What a node does by itself.                                             *)
(***************************************************************************)
SendMsg(m) ==
    /\ m \notin sent
    /\ sent' = sent \cup {m}
    /\ Enqueue(Origin[m], m, <<Chan[m]>>)
    /\ UNCHANGED <<seen, key, peerVars, runVars, inbox, bounds, handled, dropped, delivered>>

\* Some of the records older than some time are gone.
FlushOutbox(n) ==
    /\ flushes < MaxFlushes
    /\ flushes' = flushes + 1
    /\ \E t \in {r.ts : r \in outbox[n]} :
         \E S \in SUBSET {r \in outbox[n] : r.ts <= t} :
           outbox' = [outbox EXCEPT ![n] = @ \ S]
    /\ UNCHANGED <<clock, seen, key, peerVars, runVars, inbox, faults, restarts, history>>

\* A crash and a new start of an in-memory node: it keeps nothing but the
\* clock.  A run that waits for its reply ends; the others find out later.
Restart(n) ==
    LET own    == {l \in Links : Client(l) = n}
        served == {l \in Links : Server(l) = n}
        gone   == own \cup {l \in served : phase[l] = "reply"}
        Reset(f, S, v) == [l \in Links |-> IF l \in S THEN v ELSE f[l]]
    IN  /\ restarts < MaxRestarts
        /\ restarts' = restarts + 1
        /\ outbox' = [outbox EXCEPT ![n] = {}]
        /\ seen' = [seen EXCEPT ![n] = {}]
        /\ \/ UNCHANGED key
           \/ NewKeys /\ key' = [key EXCEPT ![n] = @ + 1]
        /\ routingPub' = Reset(routingPub, own, NoKey)
        /\ lastPollLocal' = Reset(lastPollLocal, own, 0)
        /\ lastPollRemote' = Reset(lastPollRemote, own, 0)
        /\ sentBefore' = Reset(sentBefore, own, FALSE)
        /\ phase' = Reset(phase, gone, "idle")
        /\ toRemote' = Reset(toRemote, gone, {})
        /\ toRemoteTime' = Reset(toRemoteTime, gone, 0)
        /\ toLocal' = Reset(toLocal, gone, {})
        /\ toLocalTime' = Reset(toLocalTime, gone, 0)
        /\ inbox' = Reset(inbox, served, {})
        /\ delivered' = [delivered EXCEPT ![n] = [m \in Msgs |-> 0]]
        /\ UNCHANGED <<clock, faults, flushes, sent, handled, dropped>>

Step(l) ==
    \/ PollServer(l) \/ PickupRemote(l)
    \/ DropoffRemote(l) \/ DropoffRefused(l) \/ RouteRemote(l) \/ ReplyRemote(l)
    \/ DropoffLocal(l) \/ EndPoll(l)

Next ==
    \/ \E l \in Links : Step(l) \/ Fail(l)
    \/ \E m \in Msgs : SendMsg(m)
    \/ \E n \in Nodes : FlushOutbox(n) \/ Restart(n)

Spec == Init /\ [][Next]_vars

\* The poll loop goes round its peers for ever, so each gets its turn although
\* another run of the same client keeps disabling it; a run and a Dropoff in
\* progress go on.
FairSpec ==
    /\ Spec
    /\ \A l \in Links :
         /\ SF_vars(PollServer(l))
         /\ WF_vars(PickupRemote(l))
         /\ WF_vars(DropoffRemote(l) \/ DropoffRefused(l))
         /\ WF_vars(RouteRemote(l)) /\ WF_vars(ReplyRemote(l))
         /\ WF_vars(DropoffLocal(l)) /\ WF_vars(EndPoll(l))

-----------------------------------------------------------------------------
(***************************************************************************)
(* Properties.                                                             *)
(***************************************************************************)
\* Every variable of the nodes, the peer tables and the runs of PollServer
\* keeps its type (type invariant).
TypeOK ==
    /\ outbox \in [Nodes -> SUBSET Recs]
    /\ clock \in [Nodes -> Nat]
    /\ seen \in [Nodes -> SUBSET Msgs]
    /\ key \in [Nodes -> Nat \ {NoKey}]
    /\ routingPub \in [Links -> Nat]
    /\ lastPollLocal \in [Links -> Nat] /\ lastPollRemote \in [Links -> Nat]
    /\ sentBefore \in [Links -> BOOLEAN]
    /\ phase \in [Links -> Phases]
    /\ toRemote \in [Links -> SUBSET Recs] /\ toRemoteTime \in [Links -> Nat]
    /\ toLocal \in [Links -> SUBSET Recs] /\ toLocalTime \in [Links -> Nat]
    /\ inbox \in [Links -> SUBSET Recs]
    /\ faults \in Nat /\ restarts \in Nat /\ flushes \in Nat
    /\ sent \subseteq Msgs
    /\ handled \in [Nodes -> SUBSET (Msgs \X Chans)]
    /\ dropped \in [Nodes -> SUBSET (Msgs \X Chans)]
    /\ delivered \in [Nodes -> [Msgs -> Nat]]

Routed(n) == handled[n] \cup dropped[n]

\* LastPollLocal never passes over a record: whatever PollServer was through in
\* the client's outbox was routed by the server, however its runs ended.
LocalCursorSound ==
    \A l \in Links : \A r \in outbox[Client(l)] :
        r.ts <= lastPollLocal[l] => <<r.nonce, r.chan>> \in Routed(Server(l))

\* LastPollRemote never passes over a record: whatever PollServer was through
\* in the server's outbox is known to the client's router since its start.
RemoteCursorSound ==
    \A l \in Links : \A r \in outbox[Server(l)] :
        r.ts <= lastPollRemote[l] => r.nonce \in seen[Client(l)]

\* Both cursors of a link are sound.
CursorsSound == LocalCursorSound /\ RemoteCursorSound

\* Loop detection in Route stops storms: however often a message comes round, a
\* node without patches keeps one copy of it to pass on, and its originator,
\* whose SendMsg does not mark it as seen, two.
NoStorm ==
    \A n \in Nodes, m \in Msgs :
        Cardinality({r \in outbox[n] : r.nonce = m}) <= IF Origin[m] = n THEN 2 ELSE 1

\* Between two starts Handle gives a message to the application at most once,
\* although PollServer sends its first bundle, and those cut off, again.
AtMostOnce == \A n \in Nodes, m \in Msgs : delivered[n][m] <= 1

\* What Route drops as seen on some channel, it has handled on that channel.  (Fails
\* where a patch sends copies of a message on two channels under one nonce.)
CopiesHandled == \A n \in Nodes : dropped[n] \subseteq handled[n]

\* A cursor of a PeerInfo goes back only when the peer table is lost.
CursorsAdvance ==
    [][ \A l \in Links :
          \/ /\ lastPollLocal[l] <= lastPollLocal'[l]
             /\ lastPollRemote[l] <= lastPollRemote'[l]
          \/ routingPub'[l] = NoKey ]_vars

\* A message that stays in the outbox of one end of a link is routed by the
\* other end in the end, in spite of failed calls, flushes and restarts, as long as
\* the client does not keep a key that the server no longer has: PollServer tries
\* again from the same cursor.
InOutbox(n, m) == \E r \in outbox[n] : r.nonce = m
RoutedBy(n, m) == \E c \in Chans : <<m, c>> \in Routed(n)
KeyIsOld(l)    == routingPub[l] \notin {NoKey, key[Server(l)]}
Exchanged ==
    \A l \in Links : \A m \in Msgs :
        /\ <>[](InOutbox(Client(l), m) /\ ~KeyIsOld(l)) => <>RoutedBy(Server(l), m)
        /\ <>[](InOutbox(Server(l), m) /\ ~KeyIsOld(l)) => <>RoutedBy(Client(l), m)

\* The same whatever key the client keeps.  (Fails: the key of a server is asked
\* for once, and every later Dropoff is refused.)
ExchangedWithOldKeys ==
    \A l \in Links : \A m \in Msgs :
        /\ <>[]InOutbox(Client(l), m) => <>RoutedBy(Server(l), m)
        /\ <>[]InOutbox(Server(l), m) => <>RoutedBy(Client(l), m)

\* While no node restarts or flushes, every message reaches every node that
\* has a key for it, across nodes that do not (ForwardUnknown).
HasKey(n, m) == IF Chan[m] = Private THEN Dest[m] = n ELSE Chan[m] \in Keys[n]
Spread ==
    \A m \in Msgs : \A n \in Nodes :
        HasKey(n, m) /\ m \in sent ~> n = Origin[m] \/ <<m, Chan[m]>> \in handled[n]

\* The network implements the abstract gossip: no message appears that no
\* neighbour had, and none is given to an application twice.
KnownEver(n) == {m \in Msgs : \E c \in Chans : <<m, c>> \in handled[n]}
                  \cup {m \in sent : Origin[m] = n}
Neighbours(n) == {k \in Nodes : <<n, k>> \in Links \/ <<k, n>> \in Links}
Abstract == INSTANCE Gossip WITH
              known <- seen,
              ever  <- [n \in Nodes |-> KnownEver(n)],
              given <- delivered
GossipSpec == Abstract!Spec
=============================================================================
