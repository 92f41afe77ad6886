----------------------------- MODULE FloodProofs -----------------------------
(***************************************************************************)
(* Theorems about Flood for every set of nodes, links and messages, every  *)
(* router configuration and every bound on faults: types; the cursors are  *)
(* sound and only advance; a message is given to an application once; the  *)
(* network implements the abstract Gossip; and where no node has patches   *)
(* messages do not multiply.  And about PollPolicy, which calls            *)
(* PollServer, for every list of groups, number of goroutines, retries and *)
(* rounds between flushes.                                                 *)
(***************************************************************************)
EXTENDS Flood, PollPolicy, FiniteSetTheorems, TLAPS

-----------------------------------------------------------------------------
(***************************************************************************)
(* Types.                                                                  *)
(***************************************************************************)
\* The records Enqueue adds are records, stamped after the clock and not after
\* the new clock.
LEMMA StampedType ==
    ASSUME TypeOK, NEW n \in Nodes, NEW m \in Msgs, NEW cs \in Seq(Chans)
    PROVE  /\ Stamped(n, m, cs) \in SUBSET Recs
           /\ \A r \in Stamped(n, m, cs) :
                r.nonce = m /\ clock[n] < r.ts /\ r.ts <= clock[n] + Len(cs)
           /\ clock[n] + Len(cs) \in Nat /\ clock[n] <= clock[n] + Len(cs)
<1>1. clock[n] \in Nat /\ Len(cs) \in Nat /\ DOMAIN cs = 1 .. Len(cs)
  BY DEF TypeOK
<1>2. \A i \in DOMAIN cs : cs[i] \in Chans
  OBVIOUS
<1> QED
  BY <1>1, <1>2 DEF Stamped, Recs

\* The channels a record is forwarded to are a sequence of channels.
LEMMA ForwardSeq ==
    ASSUME NEW n \in Nodes, NEW r \in Recs
    PROVE  (IF Forwards(n, r) THEN To[n][r.chan] ELSE << >>) \in Seq(Chans)
<1>1. r.chan \in Chans
  BY DEF Recs
<1>2. To[n][r.chan] \in Seq(Chans)
  BY <1>1, FloodAssumption
<1> QED
  BY <1>2

\* Routing a record keeps the types of what Route changes.
LEMMA RouteType ==
    ASSUME TypeOK, NEW n \in Nodes, NEW r \in Recs, Route(n, r)
    PROVE  /\ outbox' \in [Nodes -> SUBSET Recs]
           /\ clock' \in [Nodes -> Nat]
           /\ seen' \in [Nodes -> SUBSET Msgs]
           /\ handled' \in [Nodes -> SUBSET (Msgs \X Chans)]
           /\ dropped' \in [Nodes -> SUBSET (Msgs \X Chans)]
           /\ delivered' \in [Nodes -> [Msgs -> Nat]]
<1> DEFINE cs == IF Forwards(n, r) THEN To[n][r.chan] ELSE << >>
<1>1. r.nonce \in Msgs /\ r.chan \in Chans
  BY DEF Recs
<1>2. cs \in Seq(Chans)
  BY ForwardSeq
<1> HIDE DEF cs
<1>3. CASE RouteFresh(n, r)
  <2>1. outbox' = [outbox EXCEPT ![n] = @ \cup Stamped(n, r.nonce, cs)]
    BY <1>3 DEF RouteFresh, Enqueue, cs
  <2>2. clock' = [clock EXCEPT ![n] = @ + Len(cs)]
    BY <1>3 DEF RouteFresh, Enqueue, cs
  <2>3. Stamped(n, r.nonce, cs) \in SUBSET Recs /\ clock[n] + Len(cs) \in Nat
    BY <1>1, <1>2, StampedType
  <2>4. outbox' \in [Nodes -> SUBSET Recs]
    BY <2>1, <2>3 DEF TypeOK
  <2>5. clock' \in [Nodes -> Nat]
    BY <2>2, <2>3 DEF TypeOK
  <2>6. seen' \in [Nodes -> SUBSET Msgs]
    BY <1>1, <1>3 DEF RouteFresh, TypeOK
  <2>7. handled' \in [Nodes -> SUBSET (Msgs \X Chans)]
    BY <1>1, <1>3 DEF RouteFresh, TypeOK
  <2>8. dropped' \in [Nodes -> SUBSET (Msgs \X Chans)]
    BY <1>3 DEF RouteFresh, TypeOK
  <2>9. delivered' \in [Nodes -> [Msgs -> Nat]]
    <3>1. CASE delivered' = [delivered EXCEPT ![n][r.nonce] = @ + 1]
      <4>1. delivered[n] \in [Msgs -> Nat]
        BY DEF TypeOK
      <4>2. [delivered[n] EXCEPT ![r.nonce] = @ + 1] \in [Msgs -> Nat]
        BY <1>1, <4>1
      <4> QED BY <3>1, <4>2 DEF TypeOK
    <3>2. CASE UNCHANGED delivered
      BY <3>2 DEF TypeOK
    <3> QED BY <1>3, <3>1, <3>2 DEF RouteFresh
  <2> QED BY <2>4, <2>5, <2>6, <2>7, <2>8, <2>9
<1>4. CASE RouteSeen(n, r)
  BY <1>1, <1>4 DEF RouteSeen, TypeOK
<1> QED
  BY <1>3, <1>4 DEF Route

\* A batch picked up is a set of records, and its time a time.
LEMMA PickupType ==
    ASSUME TypeOK, NEW n \in Nodes, NEW since \in Nat, NEW t \in PickupTimes(n, since)
    PROVE  /\ t \in Nat
           /\ Until(n, since, t) \in SUBSET Recs
           /\ since <= t
<1>1. outbox[n] \in SUBSET Recs
  BY DEF TypeOK
<1>2. After(n, since) \in SUBSET Recs /\ \A r \in After(n, since) : since < r.ts /\ r.ts \in Nat
  BY <1>1 DEF After, Recs
<1> QED
  BY <1>1, <1>2 DEF PickupTimes, Until

\* The initial network is typed.
LEMMA InitType == Init => TypeOK
  BY FloodAssumption DEF Init, TypeOK, NoKey, Phases

\* Every step keeps the types.
LEMMA NextType == TypeOK /\ [Next]_vars => TypeOK'
<1> SUFFICES ASSUME TypeOK, [Next]_vars PROVE TypeOK'
  OBVIOUS
<1> USE FloodAssumption
<1>l. \A l \in Links : Client(l) \in Nodes /\ Server(l) \in Nodes
  BY DEF Client, Server
<1>1. ASSUME NEW l \in Links, PollServer(l)
      PROVE  TypeOK'
  <2>1. PICK t \in PickupTimes(Client(l), lastPollLocal[l]) :
           /\ toRemote' = [toRemote EXCEPT ![l] = Until(Client(l), lastPollLocal[l], t)]
           /\ toRemoteTime' = [toRemoteTime EXCEPT ![l] = t]
    BY <1>1 DEF PollServer
  <2>2. t \in Nat /\ Until(Client(l), lastPollLocal[l], t) \in SUBSET Recs
    BY <1>l, PickupType DEF TypeOK
  <2>3. routingPub' \in [Links -> Nat]
    BY <1>l, <1>1 DEF PollServer, TypeOK, NoKey
  <2>4. phase' \in [Links -> Phases]
    BY <1>1 DEF PollServer, TypeOK, Phases
  <2> QED BY <1>1, <2>1, <2>2, <2>3, <2>4 DEF PollServer, TypeOK, nodeVars, bounds, history
<1>2. ASSUME NEW l \in Links, PickupRemote(l)
      PROVE  TypeOK'
  <2>1. PICK t \in PickupTimes(Server(l), lastPollRemote[l]) :
           /\ toLocal' = [toLocal EXCEPT ![l] = Until(Server(l), lastPollRemote[l], t)]
           /\ toLocalTime' = [toLocalTime EXCEPT ![l] = t]
    BY <1>2 DEF PickupRemote
  <2>2. t \in Nat /\ Until(Server(l), lastPollRemote[l], t) \in SUBSET Recs
    BY <1>l, PickupType DEF TypeOK
  <2>3. phase' \in [Links -> Phases]
    BY <1>2 DEF PickupRemote, TypeOK, Phases
  <2> QED BY <1>2, <2>1, <2>2, <2>3 DEF PickupRemote, TypeOK, nodeVars, peerVars, bounds, history
<1>3. ASSUME NEW l \in Links, DropoffRemote(l)
      PROVE  TypeOK'
  <2>1. phase' \in [Links -> Phases] /\ inbox' \in [Links -> SUBSET Recs]
    BY <1>3 DEF DropoffRemote, TypeOK, Phases
  <2> QED BY <1>3, <2>1 DEF DropoffRemote, TypeOK, nodeVars, peerVars, bounds, history
<1>4. ASSUME NEW l \in Links, EndRun(l)
      PROVE  /\ phase' \in [Links -> Phases]
             /\ toRemote' \in [Links -> SUBSET Recs] /\ toRemoteTime' \in [Links -> Nat]
             /\ toLocal' \in [Links -> SUBSET Recs] /\ toLocalTime' \in [Links -> Nat]
  BY <1>4 DEF EndRun, TypeOK, Phases
<1>5. ASSUME NEW l \in Links, DropoffRefused(l)
      PROVE  TypeOK'
  <2>1. EndRun(l)
    BY <1>5 DEF DropoffRefused
  <2> QED BY <1>4, <1>5, <2>1 DEF DropoffRefused, TypeOK, nodeVars, peerVars, bounds, history
<1>6. ASSUME NEW l \in Links, RouteRemote(l)
      PROVE  TypeOK'
  <2>1. PICK r \in inbox[l] :
          /\ inbox' = [inbox EXCEPT ![l] = @ \ {r}]
          /\ Route(Server(l), r)
          /\ UNCHANGED <<key, peerVars, runVars, bounds, sent>>
    BY <1>6 DEF RouteRemote
  <2>2. r \in Recs
    BY DEF TypeOK
  <2>3. inbox' \in [Links -> SUBSET Recs]
    BY <2>1 DEF TypeOK
  <2> QED BY <1>l, <2>1, <2>2, <2>3, RouteType DEF TypeOK, peerVars, runVars, bounds
<1>7. ASSUME NEW l \in Links, ReplyRemote(l)
      PROVE  TypeOK'
  <2>1. phase' \in [Links -> Phases]
    BY <1>7 DEF ReplyRemote, TypeOK, Phases
  <2>2. lastPollLocal' \in [Links -> Nat] /\ sentBefore' \in [Links -> BOOLEAN]
    BY <1>7 DEF ReplyRemote, TypeOK
  <2> QED BY <1>7, <2>1, <2>2 DEF ReplyRemote, TypeOK, nodeVars, bounds, history
<1>8. ASSUME NEW l \in Links, DropoffLocal(l)
      PROVE  TypeOK'
  <2>1. PICK r \in toLocal[l] :
          /\ toLocal' = [toLocal EXCEPT ![l] = @ \ {r}]
          /\ Route(Client(l), r)
          /\ UNCHANGED <<key, peerVars, phase, toRemote, toRemoteTime, toLocalTime, inbox,
                         bounds, sent>>
    BY <1>8 DEF DropoffLocal
  <2>2. r \in Recs
    BY DEF TypeOK
  <2>3. toLocal' \in [Links -> SUBSET Recs]
    BY <2>1 DEF TypeOK
  <2> QED BY <1>l, <2>1, <2>2, <2>3, RouteType DEF TypeOK, peerVars, bounds
<1>9. ASSUME NEW l \in Links, EndPoll(l)
      PROVE  TypeOK'
  <2>1. EndRun(l)
    BY <1>9 DEF EndPoll
  <2>2. lastPollRemote' \in [Links -> Nat]
    BY <1>9 DEF EndPoll, TypeOK
  <2> QED BY <1>4, <1>9, <2>1, <2>2 DEF EndPoll, TypeOK, nodeVars, bounds, history
<1>10. ASSUME NEW l \in Links, Fail(l)
       PROVE  TypeOK'
  <2>1. EndRun(l)
    BY <1>10 DEF Fail
  <2>2. faults' \in Nat
    BY <1>10 DEF Fail, TypeOK
  <2>3. UNCHANGED <<nodeVars, peerVars, inbox, restarts, flushes, history>>
    BY <1>10 DEF Fail
  <2> QED BY <1>4, <2>1, <2>2, <2>3 DEF TypeOK, nodeVars, peerVars, history
<1>11. ASSUME NEW m \in Msgs, SendMsg(m)
       PROVE  TypeOK'
  <2>1. Origin[m] \in Nodes /\ <<Chan[m]>> \in Seq(Chans)
    OBVIOUS
  <2>2. /\ Stamped(Origin[m], m, <<Chan[m]>>) \in SUBSET Recs
        /\ clock[Origin[m]] + Len(<<Chan[m]>>) \in Nat
    BY <2>1, StampedType
  <2>3. outbox' \in [Nodes -> SUBSET Recs] /\ clock' \in [Nodes -> Nat]
    BY <1>11, <2>1, <2>2 DEF SendMsg, Enqueue, TypeOK
  <2>4. sent' \subseteq Msgs
    BY <1>11 DEF SendMsg, TypeOK
  <2> QED BY <1>11, <2>3, <2>4 DEF SendMsg, TypeOK, peerVars, runVars, bounds
<1>12. ASSUME NEW n \in Nodes, FlushOutbox(n)
       PROVE  TypeOK'
  <2>1. PICK S : outbox' = [outbox EXCEPT ![n] = @ \ S]
    BY <1>12 DEF FlushOutbox
  <2>2. outbox' \in [Nodes -> SUBSET Recs]
    BY <2>1 DEF TypeOK
  <2>3. flushes' \in Nat
    BY <1>12 DEF FlushOutbox, TypeOK
  <2>4. UNCHANGED <<clock, seen, key, peerVars, runVars, inbox, faults, restarts, history>>
    BY <1>12 DEF FlushOutbox
  <2> QED BY <2>2, <2>3, <2>4 DEF TypeOK, peerVars, runVars, history
<1>13. ASSUME NEW n \in Nodes, Restart(n)
       PROVE  TypeOK'
  <2>1. /\ outbox' \in [Nodes -> SUBSET Recs] /\ seen' \in [Nodes -> SUBSET Msgs]
        /\ delivered' \in [Nodes -> [Msgs -> Nat]]
    BY <1>13 DEF Restart, TypeOK
  <2>2. key' \in [Nodes -> Nat \ {NoKey}]
    <3>1. key' = key \/ key' = [key EXCEPT ![n] = @ + 1]
      BY <1>13 DEF Restart
    <3> QED BY <3>1 DEF TypeOK, NoKey
  <2>3. /\ routingPub' \in [Links -> Nat]
        /\ lastPollLocal' \in [Links -> Nat] /\ lastPollRemote' \in [Links -> Nat]
        /\ sentBefore' \in [Links -> BOOLEAN]
    BY <1>13 DEF Restart, TypeOK, NoKey
  <2>4. /\ phase' \in [Links -> Phases]
        /\ toRemote' \in [Links -> SUBSET Recs] /\ toRemoteTime' \in [Links -> Nat]
        /\ toLocal' \in [Links -> SUBSET Recs] /\ toLocalTime' \in [Links -> Nat]
        /\ inbox' \in [Links -> SUBSET Recs]
    BY <1>13 DEF Restart, TypeOK, Phases
  <2>5. restarts' \in Nat
    BY <1>13 DEF Restart, TypeOK
  <2> QED BY <1>13, <2>1, <2>2, <2>3, <2>4, <2>5 DEF Restart, TypeOK
<1>14. CASE UNCHANGED vars
  BY <1>14 DEF vars, nodeVars, peerVars, runVars, bounds, history, TypeOK
<1> QED
  BY <1>1, <1>2, <1>3, <1>5, <1>6, <1>7, <1>8, <1>9, <1>10, <1>11, <1>12, <1>13, <1>14
     DEF Next, Step

\* Every variable keeps its type: nodes, peer tables and runs of PollServer.
THEOREM NetworkTyped == Spec => []TypeOK
  BY InitType, NextType, PTL DEF Spec

-----------------------------------------------------------------------------
(***************************************************************************)
(* The cursors.  The invariant says where a record that a cursor is about  *)
(* to pass over can be: in the bundle of the run, in the server's inbox,   *)
(* or routed.                                                              *)
(***************************************************************************)
\* Records are stamped between 1 and the clock, and every cursor and every time
\* in a run comes from the clock of the outbox it is about.
ClockInv ==
    /\ \A n \in Nodes : \A r \in outbox[n] : 0 < r.ts /\ r.ts <= clock[n]
    /\ \A l \in Links :
         /\ lastPollLocal[l] <= clock[Client(l)]
         /\ toRemoteTime[l] <= clock[Client(l)]
         /\ lastPollRemote[l] <= clock[Server(l)]
         /\ toLocalTime[l] <= clock[Server(l)]

\* A run carries every record of the client's outbox up to its time ...
ToRemoteInv ==
    \A l \in Links : phase[l] \in {"pickup", "dropoff", "reply"} =>
        \A r \in outbox[Client(l)] :
            lastPollLocal[l] < r.ts /\ r.ts <= toRemoteTime[l] => r \in toRemote[l]

\* ... until, in the Dropoff, each of them waits in the inbox or was routed.
InboxInv ==
    \A l \in Links : phase[l] = "reply" =>
        \A r \in toRemote[l] :
            r \in inbox[l] \/ <<r.nonce, r.chan>> \in Routed(Server(l))

\* A run carries every record of the server's outbox up to its time, or the
\* client has routed it.
ToLocalInv ==
    \A l \in Links : phase[l] \in {"dropoff", "reply", "local"} =>
        \A r \in outbox[Server(l)] :
            lastPollRemote[l] < r.ts /\ r.ts <= toLocalTime[l]
                => r \in toLocal[l] \/ r.nonce \in seen[Client(l)]

CursorInv ==
    /\ TypeOK
    /\ ClockInv /\ ToRemoteInv /\ InboxInv /\ ToLocalInv
    /\ LocalCursorSound /\ RemoteCursorSound

\* Steps that only add records with new stamps, or lose records, and forget
\* nothing of what was routed.
Grows ==
    \A n \in Nodes :
        /\ \A r \in outbox'[n] : r \in outbox[n] \/ (clock[n] < r.ts /\ r.ts <= clock'[n])
        /\ clock[n] <= clock'[n]
        /\ Routed(n) \subseteq Routed(n)'
        /\ seen[n] \subseteq seen'[n]

LEMMA LinkEnds == \A l \in Links : Client(l) \in Nodes /\ Server(l) \in Nodes
  BY FloodAssumption DEF Client, Server

\* Enqueue adds records with new stamps.
LEMMA EnqueueGrows ==
    ASSUME TypeOK, NEW n \in Nodes, NEW m \in Msgs, NEW cs \in Seq(Chans),
           Enqueue(n, m, cs)
    PROVE  \A k \in Nodes :
             /\ \A r \in outbox'[k] : r \in outbox[k] \/ (clock[k] < r.ts /\ r.ts <= clock'[k])
             /\ clock[k] <= clock'[k]
<1> SUFFICES ASSUME NEW k \in Nodes
             PROVE  /\ \A r \in outbox'[k] :
                         r \in outbox[k] \/ (clock[k] < r.ts /\ r.ts <= clock'[k])
                    /\ clock[k] <= clock'[k]
  OBVIOUS
<1>1. /\ \A r \in Stamped(n, m, cs) : clock[n] < r.ts /\ r.ts <= clock[n] + Len(cs)
      /\ clock[n] <= clock[n] + Len(cs)
  BY StampedType
<1>2. CASE k = n
  <2>1. outbox'[k] = outbox[k] \cup Stamped(n, m, cs) /\ clock'[k] = clock[k] + Len(cs)
    BY <1>2 DEF Enqueue, TypeOK
  <2> QED BY <1>1, <1>2, <2>1
<1>3. CASE k # n
  <2>1. outbox'[k] = outbox[k] /\ clock'[k] = clock[k]
    BY <1>3 DEF Enqueue, TypeOK
  <2>2. clock[k] \in Nat
    BY DEF TypeOK
  <2> QED BY <2>1, <2>2
<1> QED BY <1>2, <1>3

\* Routing a record marks it as routed and seen.
LEMMA RouteGrows ==
    ASSUME TypeOK, NEW n \in Nodes, NEW r \in Recs, Route(n, r)
    PROVE  /\ Grows
           /\ <<r.nonce, r.chan>> \in Routed(n)'
           /\ r.nonce \in seen'[n]
<1> DEFINE cs == IF Forwards(n, r) THEN To[n][r.chan] ELSE << >>
<1>1. r.nonce \in Msgs /\ r.chan \in Chans
  BY DEF Recs
<1>2. cs \in Seq(Chans)
  BY ForwardSeq
<1> HIDE DEF cs
<1>3. CASE RouteFresh(n, r)
  <2>1. Enqueue(n, r.nonce, cs)
    BY <1>3 DEF RouteFresh, cs
  <2>2. /\ \A k \in Nodes : seen[k] \subseteq seen'[k] /\ Routed(k) \subseteq Routed(k)'
        /\ r.nonce \in seen'[n]
        /\ <<r.nonce, r.chan>> \in handled'[n]
    BY <1>3 DEF RouteFresh, Routed, TypeOK
  <2> QED BY <1>1, <1>2, <2>1, <2>2, EnqueueGrows DEF Grows, Routed
<1>4. CASE RouteSeen(n, r)
  <2>1. /\ \A k \in Nodes : Routed(k) \subseteq Routed(k)'
        /\ <<r.nonce, r.chan>> \in dropped'[n]
    BY <1>4 DEF RouteSeen, Routed, TypeOK
  <2>2. UNCHANGED <<outbox, clock, seen>> /\ r.nonce \in seen[n]
    BY <1>4 DEF RouteSeen, Seen
  <2>3. \A k \in Nodes : clock[k] \in Nat
    BY DEF TypeOK
  <2> QED BY <2>1, <2>2, <2>3 DEF Grows, Routed
<1> QED BY <1>3, <1>4 DEF Route

\* A step that grows the outboxes, routes some of what waits and leaves the
\* cursors and the runs alone keeps the invariant.
LEMMA QuietStep ==
    ASSUME CursorInv, TypeOK', Grows,
           UNCHANGED <<lastPollLocal, lastPollRemote, phase, toRemote, toRemoteTime, toLocalTime>>,
           \A l \in Links : \A r \in inbox[l] :
               r \in inbox'[l] \/ <<r.nonce, r.chan>> \in Routed(Server(l))',
           \A l \in Links : \A r \in toLocal[l] :
               r \in toLocal'[l] \/ r.nonce \in seen'[Client(l)]
    PROVE  CursorInv'
<1> USE LinkEnds
<1>1. /\ \A n \in Nodes : clock[n] \in Nat /\ clock'[n] \in Nat
      /\ \A n \in Nodes : \A r \in outbox'[n] : r.ts \in Nat
      /\ \A l \in Links : /\ lastPollLocal[l] \in Nat /\ lastPollRemote[l] \in Nat
                          /\ toRemoteTime[l] \in Nat /\ toLocalTime[l] \in Nat
  BY DEF CursorInv, TypeOK, Recs
<1>2. ClockInv'
  BY <1>1 DEF CursorInv, ClockInv, Grows
<1>3. LocalCursorSound'
  <2> SUFFICES ASSUME NEW l \in Links, NEW r \in outbox'[Client(l)], r.ts <= lastPollLocal[l]
               PROVE  <<r.nonce, r.chan>> \in Routed(Server(l))'
    BY DEF LocalCursorSound
  <2>1. r \in outbox[Client(l)]
    BY <1>1 DEF CursorInv, ClockInv, Grows
  <2> QED BY <2>1 DEF CursorInv, LocalCursorSound, Grows
<1>4. RemoteCursorSound'
  <2> SUFFICES ASSUME NEW l \in Links, NEW r \in outbox'[Server(l)], r.ts <= lastPollRemote[l]
               PROVE  r.nonce \in seen'[Client(l)]
    BY DEF RemoteCursorSound
  <2>1. r \in outbox[Server(l)]
    BY <1>1 DEF CursorInv, ClockInv, Grows
  <2> QED BY <2>1 DEF CursorInv, RemoteCursorSound, Grows
<1>5. ToRemoteInv'
  <2> SUFFICES ASSUME NEW l \in Links, phase[l] \in {"pickup", "dropoff", "reply"},
                      NEW r \in outbox'[Client(l)],
                      lastPollLocal[l] < r.ts, r.ts <= toRemoteTime[l]
               PROVE  r \in toRemote[l]
    BY DEF ToRemoteInv
  <2>1. r \in outbox[Client(l)]
    BY <1>1 DEF CursorInv, ClockInv, Grows
  <2> QED BY <2>1 DEF CursorInv, ToRemoteInv
<1>6. InboxInv'
  <2> SUFFICES ASSUME NEW l \in Links, phase[l] = "reply", NEW r \in toRemote[l]
               PROVE  r \in inbox'[l] \/ <<r.nonce, r.chan>> \in Routed(Server(l))'
    BY DEF InboxInv
  <2> QED BY DEF CursorInv, InboxInv, Grows
<1>7. ToLocalInv'
  <2> SUFFICES ASSUME NEW l \in Links, phase[l] \in {"dropoff", "reply", "local"},
                      NEW r \in outbox'[Server(l)],
                      lastPollRemote[l] < r.ts, r.ts <= toLocalTime[l]
               PROVE  r \in toLocal'[l] \/ r.nonce \in seen'[Client(l)]
    BY DEF ToLocalInv
  <2>1. r \in outbox[Server(l)]
    BY <1>1 DEF CursorInv, ClockInv, Grows
  <2> QED BY <2>1 DEF CursorInv, ToLocalInv, Grows
<1> QED BY <1>2, <1>3, <1>4, <1>5, <1>6, <1>7 DEF CursorInv

\* A step of a run on the link l, which leaves the nodes and the other runs
\* alone, keeps the invariant if l's part of it holds afterwards.
LEMMA RunStep ==
    ASSUME CursorInv, TypeOK', NEW l \in Links,
           UNCHANGED <<outbox, clock, seen, handled, dropped>>,
           \A k \in Links \ {l} :
             /\ lastPollLocal'[k] = lastPollLocal[k] /\ lastPollRemote'[k] = lastPollRemote[k]
             /\ phase'[k] = phase[k] /\ inbox'[k] = inbox[k]
             /\ toRemote'[k] = toRemote[k] /\ toRemoteTime'[k] = toRemoteTime[k]
             /\ toLocal'[k] = toLocal[k] /\ toLocalTime'[k] = toLocalTime[k],
           /\ lastPollLocal'[l] <= clock[Client(l)] /\ toRemoteTime'[l] <= clock[Client(l)]
           /\ lastPollRemote'[l] <= clock[Server(l)] /\ toLocalTime'[l] <= clock[Server(l)],
           phase'[l] \in {"pickup", "dropoff", "reply"} =>
             \A r \in outbox[Client(l)] :
               lastPollLocal'[l] < r.ts /\ r.ts <= toRemoteTime'[l] => r \in toRemote'[l],
           phase'[l] = "reply" =>
             \A r \in toRemote'[l] :
               r \in inbox'[l] \/ <<r.nonce, r.chan>> \in Routed(Server(l)),
           phase'[l] \in {"dropoff", "reply", "local"} =>
             \A r \in outbox[Server(l)] :
               lastPollRemote'[l] < r.ts /\ r.ts <= toLocalTime'[l]
                 => r \in toLocal'[l] \/ r.nonce \in seen[Client(l)],
           \A r \in outbox[Client(l)] :
             r.ts <= lastPollLocal'[l] => <<r.nonce, r.chan>> \in Routed(Server(l)),
           \A r \in outbox[Server(l)] :
             r.ts <= lastPollRemote'[l] => r.nonce \in seen[Client(l)]
    PROVE  CursorInv'
<1>1. \A n \in Nodes : Routed(n)' = Routed(n)
  BY DEF Routed
<1>2. ClockInv'
  BY DEF CursorInv, ClockInv
<1>3. ToRemoteInv'
  BY DEF CursorInv, ToRemoteInv
<1>4. InboxInv'
  BY <1>1, LinkEnds DEF CursorInv, InboxInv
<1>5. ToLocalInv'
  BY DEF CursorInv, ToLocalInv
<1>6. LocalCursorSound'
  BY <1>1, LinkEnds DEF CursorInv, LocalCursorSound
<1>7. RemoteCursorSound'
  BY DEF CursorInv, RemoteCursorSound
<1> QED BY <1>2, <1>3, <1>4, <1>5, <1>6, <1>7 DEF CursorInv

\* The time of a batch is not after the clock, and the batch is all there is up
\* to it.
LEMMA PickupBatch ==
    ASSUME TypeOK, ClockInv, NEW n \in Nodes, NEW since \in Nat, since <= clock[n],
           NEW t \in PickupTimes(n, since)
    PROVE  /\ t \in Nat /\ t <= clock[n]
           /\ \A r \in outbox[n] : since < r.ts /\ r.ts <= t => r \in Until(n, since, t)
<1>1. t \in Nat
  BY PickupType
<1>2. t = since \/ \E r \in outbox[n] : t = r.ts
  BY DEF PickupTimes, After
<1>3. t <= clock[n]
  BY <1>2 DEF ClockInv
<1> QED BY <1>1, <1>3 DEF Until

\* Ending a run keeps the invariant: its times go back to 0 and nothing else
\* depends on them.
LEMMA EndRunStep ==
    ASSUME CursorInv, TypeOK', NEW l \in Links, EndRun(l),
           UNCHANGED <<outbox, clock, seen, handled, dropped, inbox, lastPollLocal>>,
           \A k \in Links \ {l} : lastPollRemote'[k] = lastPollRemote[k],
           lastPollRemote'[l] <= clock[Server(l)],
           \A r \in outbox[Server(l)] :
             r.ts <= lastPollRemote'[l] => r.nonce \in seen[Client(l)]
    PROVE  CursorInv'
<1>1. /\ phase'[l] = "idle" /\ toRemoteTime'[l] = 0 /\ toLocalTime'[l] = 0
      /\ \A k \in Links \ {l} :
           /\ phase'[k] = phase[k]
           /\ toRemote'[k] = toRemote[k] /\ toRemoteTime'[k] = toRemoteTime[k]
           /\ toLocal'[k] = toLocal[k] /\ toLocalTime'[k] = toLocalTime[k]
  BY DEF EndRun, CursorInv, TypeOK
<1>2. clock[Client(l)] \in Nat /\ clock[Server(l)] \in Nat /\ lastPollLocal[l] <= clock[Client(l)]
  BY LinkEnds DEF CursorInv, TypeOK, ClockInv
<1>3. 0 <= clock[Client(l)] /\ 0 <= clock[Server(l)]
  BY <1>2
<1>4. \A r \in outbox[Client(l)] :
         r.ts <= lastPollLocal[l] => <<r.nonce, r.chan>> \in Routed(Server(l))
  BY DEF CursorInv, LocalCursorSound
<1> QED BY <1>1, <1>2, <1>3, <1>4, RunStep

\* What CursorInv says of the numbers of one link.
LEMMA LinkNumbers ==
    ASSUME CursorInv, NEW l \in Links
    PROVE  /\ clock[Client(l)] \in Nat /\ clock[Server(l)] \in Nat
           /\ lastPollLocal[l] \in Nat /\ lastPollRemote[l] \in Nat
           /\ toRemoteTime[l] \in Nat /\ toLocalTime[l] \in Nat
           /\ lastPollLocal[l] <= clock[Client(l)] /\ toRemoteTime[l] <= clock[Client(l)]
           /\ lastPollRemote[l] <= clock[Server(l)] /\ toLocalTime[l] <= clock[Server(l)]
           /\ \A r \in outbox[Client(l)] : r.ts \in Nat
           /\ \A r \in outbox[Server(l)] : r.ts \in Nat
  BY LinkEnds DEF CursorInv, TypeOK, ClockInv, Recs

\* The local pickup starts a run with all there is up to its time.
LEMMA PollServerStep ==
    ASSUME CursorInv, TypeOK', NEW l \in Links, PollServer(l)
    PROVE  CursorInv'
<1>1. PICK t \in PickupTimes(Client(l), lastPollLocal[l]) :
        /\ toRemote' = [toRemote EXCEPT ![l] = Until(Client(l), lastPollLocal[l], t)]
        /\ toRemoteTime' = [toRemoteTime EXCEPT ![l] = t]
  BY DEF PollServer
<1>2. /\ t <= clock[Client(l)]
      /\ \A r \in outbox[Client(l)] :
           lastPollLocal[l] < r.ts /\ r.ts <= t => r \in Until(Client(l), lastPollLocal[l], t)
  BY LinkNumbers, LinkEnds, PickupBatch DEF CursorInv
<1>3. /\ phase'[l] = "pickup"
      /\ toRemote'[l] = Until(Client(l), lastPollLocal[l], t) /\ toRemoteTime'[l] = t
      /\ \A k \in Links \ {l} :
           phase'[k] = phase[k] /\ toRemote'[k] = toRemote[k] /\ toRemoteTime'[k] = toRemoteTime[k]
  BY <1>1 DEF PollServer, CursorInv, TypeOK
<1>4. UNCHANGED <<outbox, clock, seen, handled, dropped, lastPollLocal, lastPollRemote, inbox,
                  toLocal, toLocalTime>>
  BY DEF PollServer, nodeVars, history
<1>5. /\ \A r \in outbox[Client(l)] :
           r.ts <= lastPollLocal[l] => <<r.nonce, r.chan>> \in Routed(Server(l))
      /\ \A r \in outbox[Server(l)] : r.ts <= lastPollRemote[l] => r.nonce \in seen[Client(l)]
  BY DEF CursorInv, LocalCursorSound, RemoteCursorSound
<1> QED BY <1>2, <1>3, <1>4, <1>5, LinkNumbers, RunStep

\* The remote pickup adds all there is up to its time.
LEMMA PickupRemoteStep ==
    ASSUME CursorInv, TypeOK', NEW l \in Links, PickupRemote(l)
    PROVE  CursorInv'
<1>1. PICK t \in PickupTimes(Server(l), lastPollRemote[l]) :
        /\ toLocal' = [toLocal EXCEPT ![l] = Until(Server(l), lastPollRemote[l], t)]
        /\ toLocalTime' = [toLocalTime EXCEPT ![l] = t]
  BY DEF PickupRemote
<1>2. /\ t <= clock[Server(l)]
      /\ \A r \in outbox[Server(l)] :
           lastPollRemote[l] < r.ts /\ r.ts <= t => r \in Until(Server(l), lastPollRemote[l], t)
  BY LinkNumbers, LinkEnds, PickupBatch DEF CursorInv
<1>3. /\ phase[l] = "pickup" /\ phase'[l] \in {"dropoff", "local"}
      /\ toLocal'[l] = Until(Server(l), lastPollRemote[l], t) /\ toLocalTime'[l] = t
      /\ \A k \in Links \ {l} :
           phase'[k] = phase[k] /\ toLocal'[k] = toLocal[k] /\ toLocalTime'[k] = toLocalTime[k]
  BY <1>1 DEF PickupRemote, CursorInv, TypeOK
<1>4. UNCHANGED <<outbox, clock, seen, handled, dropped, lastPollLocal, lastPollRemote, inbox,
                  toRemote, toRemoteTime>>
  BY DEF PickupRemote, nodeVars, peerVars, history
<1>5. /\ \A r \in outbox[Client(l)] :
           r.ts <= lastPollLocal[l] => <<r.nonce, r.chan>> \in Routed(Server(l))
      /\ \A r \in outbox[Server(l)] : r.ts <= lastPollRemote[l] => r.nonce \in seen[Client(l)]
      /\ \A r \in outbox[Client(l)] :
           lastPollLocal[l] < r.ts /\ r.ts <= toRemoteTime[l] => r \in toRemote[l]
  BY <1>3 DEF CursorInv, LocalCursorSound, RemoteCursorSound, ToRemoteInv
<1> QED BY <1>2, <1>3, <1>4, <1>5, LinkNumbers, RunStep

\* The server takes the whole bundle into its inbox.
LEMMA DropoffRemoteStep ==
    ASSUME CursorInv, TypeOK', NEW l \in Links, DropoffRemote(l)
    PROVE  CursorInv'
<1>1. /\ phase[l] = "dropoff" /\ phase'[l] = "reply"
      /\ inbox'[l] = inbox[l] \cup toRemote[l]
      /\ \A k \in Links \ {l} : phase'[k] = phase[k] /\ inbox'[k] = inbox[k]
  BY DEF DropoffRemote, CursorInv, TypeOK
<1>2. UNCHANGED <<outbox, clock, seen, handled, dropped, lastPollLocal, lastPollRemote,
                  toRemote, toRemoteTime, toLocal, toLocalTime>>
  BY DEF DropoffRemote, nodeVars, peerVars, history
<1>3. /\ \A r \in outbox[Client(l)] :
           r.ts <= lastPollLocal[l] => <<r.nonce, r.chan>> \in Routed(Server(l))
      /\ \A r \in outbox[Server(l)] : r.ts <= lastPollRemote[l] => r.nonce \in seen[Client(l)]
      /\ \A r \in outbox[Client(l)] :
           lastPollLocal[l] < r.ts /\ r.ts <= toRemoteTime[l] => r \in toRemote[l]
      /\ \A r \in outbox[Server(l)] :
           lastPollRemote[l] < r.ts /\ r.ts <= toLocalTime[l]
             => r \in toLocal[l] \/ r.nonce \in seen[Client(l)]
  BY <1>1 DEF CursorInv, LocalCursorSound, RemoteCursorSound, ToRemoteInv, ToLocalInv
<1> QED BY <1>1, <1>2, <1>3, LinkNumbers, RunStep

\* When the reply comes the bundle is routed, so the cursor may move.
LEMMA ReplyRemoteStep ==
    ASSUME CursorInv, TypeOK', NEW l \in Links, ReplyRemote(l)
    PROVE  CursorInv'
<1>1. /\ phase[l] = "reply" /\ toRemote[l] \cap inbox[l] = {} /\ phase'[l] = "local"
      /\ lastPollLocal'[l] \in {lastPollLocal[l], toRemoteTime[l]}
      /\ \A k \in Links \ {l} : phase'[k] = phase[k] /\ lastPollLocal'[k] = lastPollLocal[k]
  BY DEF ReplyRemote, CursorInv, TypeOK
<1>2. UNCHANGED <<outbox, clock, seen, handled, dropped, lastPollRemote, inbox,
                  toRemote, toRemoteTime, toLocal, toLocalTime>>
  BY DEF ReplyRemote, nodeVars, history
<1>3. ASSUME NEW r \in outbox[Client(l)], r.ts <= lastPollLocal'[l]
      PROVE  <<r.nonce, r.chan>> \in Routed(Server(l))
  <2>1. CASE r.ts <= lastPollLocal[l]
    BY <2>1 DEF CursorInv, LocalCursorSound
  <2>2. CASE lastPollLocal[l] < r.ts /\ r.ts <= toRemoteTime[l]
    <3>1. r \in toRemote[l]
      BY <1>1, <2>2 DEF CursorInv, ToRemoteInv
    <3>2. r \in inbox[l] \/ <<r.nonce, r.chan>> \in Routed(Server(l))
      BY <1>1, <3>1 DEF CursorInv, InboxInv
    <3> QED BY <1>1, <3>1, <3>2
  <2> QED BY <1>1, <1>3, <2>1, <2>2, LinkNumbers
<1>4. /\ \A r \in outbox[Server(l)] : r.ts <= lastPollRemote[l] => r.nonce \in seen[Client(l)]
      /\ \A r \in outbox[Server(l)] :
           lastPollRemote[l] < r.ts /\ r.ts <= toLocalTime[l]
             => r \in toLocal[l] \/ r.nonce \in seen[Client(l)]
  BY <1>1 DEF CursorInv, RemoteCursorSound, ToLocalInv
<1>5. lastPollLocal'[l] <= clock[Client(l)]
  BY <1>1, LinkNumbers
<1> QED BY <1>1, <1>2, <1>3, <1>4, <1>5, LinkNumbers, RunStep

\* When the client has routed its bundle, the other cursor may move.
LEMMA EndPollStep ==
    ASSUME CursorInv, TypeOK', NEW l \in Links, EndPoll(l)
    PROVE  CursorInv'
<1>1. /\ phase[l] = "local" /\ toLocal[l] = {} /\ EndRun(l)
      /\ lastPollRemote'[l] = toLocalTime[l]
      /\ \A k \in Links \ {l} : lastPollRemote'[k] = lastPollRemote[k]
      /\ UNCHANGED <<outbox, clock, seen, handled, dropped, inbox, lastPollLocal>>
  BY DEF EndPoll, CursorInv, TypeOK, nodeVars, history
<1>2. ASSUME NEW r \in outbox[Server(l)], r.ts <= toLocalTime[l]
      PROVE  r.nonce \in seen[Client(l)]
  <2>1. CASE r.ts <= lastPollRemote[l]
    BY <2>1 DEF CursorInv, RemoteCursorSound
  <2>2. CASE lastPollRemote[l] < r.ts
    BY <1>1, <1>2, <2>2 DEF CursorInv, ToLocalInv
  <2> QED BY <2>1, <2>2, LinkNumbers
<1> QED BY <1>1, <1>2, LinkNumbers, EndRunStep

\* A run that fails or is refused moves no cursor.
LEMMA AbortStep ==
    ASSUME CursorInv, TypeOK', NEW l \in Links, Fail(l) \/ DropoffRefused(l)
    PROVE  CursorInv'
<1>1. /\ EndRun(l)
      /\ UNCHANGED <<outbox, clock, seen, handled, dropped, inbox, lastPollLocal, lastPollRemote>>
  BY DEF Fail, DropoffRefused, nodeVars, peerVars, history
<1>2. \A r \in outbox[Server(l)] : r.ts <= lastPollRemote[l] => r.nonce \in seen[Client(l)]
  BY DEF CursorInv, RemoteCursorSound
<1> QED BY <1>1, <1>2, LinkNumbers, EndRunStep

\* A restart empties the outbox that the cursors of others are about, and takes
\* the node's own cursors and runs with it.
LEMMA RestartStep ==
    ASSUME CursorInv, TypeOK', NEW n \in Nodes, Restart(n)
    PROVE  CursorInv'
<1> USE LinkEnds
<1>1. /\ outbox'[n] = {} /\ seen'[n] = {}
      /\ \A k \in Nodes \ {n} : outbox'[k] = outbox[k] /\ seen'[k] = seen[k]
      /\ UNCHANGED <<clock, handled, dropped>>
  BY DEF Restart, CursorInv, TypeOK
<1>2. \A k \in Nodes : Routed(k)' = Routed(k)
  BY <1>1 DEF Routed
<1>3. \A l \in Links : Client(l) = n =>
        /\ lastPollLocal'[l] = 0 /\ lastPollRemote'[l] = 0 /\ phase'[l] = "idle"
        /\ toRemoteTime'[l] = 0 /\ toLocalTime'[l] = 0
  BY DEF Restart
<1>4. \A l \in Links : Client(l) # n =>
        /\ lastPollLocal'[l] = lastPollLocal[l] /\ lastPollRemote'[l] = lastPollRemote[l]
        /\ \/ phase'[l] = "idle" /\ toRemoteTime'[l] = 0 /\ toLocalTime'[l] = 0
           \/ /\ phase'[l] = phase[l]
              /\ toRemote'[l] = toRemote[l] /\ toRemoteTime'[l] = toRemoteTime[l]
              /\ toLocal'[l] = toLocal[l] /\ toLocalTime'[l] = toLocalTime[l]
              /\ Server(l) = n => phase[l] # "reply"
              /\ Server(l) # n => inbox'[l] = inbox[l]
  BY DEF Restart
<1>5. \A l \in Links : 0 <= clock[Client(l)] /\ 0 <= clock[Server(l)]
  BY LinkNumbers
<1>6. ClockInv'
  <2>1. \A k \in Nodes : \A r \in outbox'[k] : 0 < r.ts /\ r.ts <= clock'[k]
    BY <1>1 DEF CursorInv, ClockInv
  <2>2. ASSUME NEW l \in Links
        PROVE  /\ lastPollLocal'[l] <= clock'[Client(l)]
               /\ toRemoteTime'[l] <= clock'[Client(l)]
               /\ lastPollRemote'[l] <= clock'[Server(l)]
               /\ toLocalTime'[l] <= clock'[Server(l)]
    BY <1>1, <1>3, <1>4, <1>5 DEF CursorInv, ClockInv
  <2> QED BY <2>1, <2>2 DEF ClockInv
<1>7. ToRemoteInv'
  BY <1>1, <1>3, <1>4 DEF CursorInv, ToRemoteInv
<1>8. InboxInv'
  BY <1>2, <1>3, <1>4 DEF CursorInv, InboxInv
<1>9. ToLocalInv'
  BY <1>1, <1>3, <1>4 DEF CursorInv, ToLocalInv
<1>10. LocalCursorSound'
  BY <1>1, <1>2, <1>3, <1>4 DEF CursorInv, LocalCursorSound
<1>11. RemoteCursorSound'
  <2> SUFFICES ASSUME NEW l \in Links, NEW r \in outbox'[Server(l)], r.ts <= lastPollRemote'[l]
               PROVE  r.nonce \in seen'[Client(l)]
    BY DEF RemoteCursorSound
  <2>1. Server(l) # n /\ r \in outbox[Server(l)] /\ 0 < r.ts /\ r.ts \in Nat
    BY <1>1, LinkNumbers DEF CursorInv, ClockInv
  <2>2. Client(l) # n
    BY <1>3, <2>1
  <2> QED BY <1>1, <1>4, <2>1, <2>2 DEF CursorInv, RemoteCursorSound
<1> QED BY <1>6, <1>7, <1>8, <1>9, <1>10, <1>11 DEF CursorInv

\* Nothing is in an outbox or under way initially.
LEMMA InitCursor == Init => CursorInv
<1> SUFFICES ASSUME Init PROVE CursorInv
  OBVIOUS
<1>1. TypeOK
  BY InitType
<1>2. /\ \A n \in Nodes : outbox[n] = {} /\ clock[n] = 0
      /\ \A l \in Links : /\ phase[l] = "idle" /\ lastPollLocal[l] = 0 /\ lastPollRemote[l] = 0
                          /\ toRemoteTime[l] = 0 /\ toLocalTime[l] = 0
  BY DEF Init
<1> QED BY <1>1, <1>2, LinkEnds
        DEF CursorInv, ClockInv, ToRemoteInv, InboxInv, ToLocalInv,
            LocalCursorSound, RemoteCursorSound

\* Routing the next record of a bundle, at either end, keeps the invariant.
LEMMA RouteStep ==
    ASSUME CursorInv, TypeOK', NEW l \in Links, RouteRemote(l) \/ DropoffLocal(l)
    PROVE  CursorInv'
<1>1. CASE RouteRemote(l)
  <2>1. PICK r \in inbox[l] :
          /\ inbox' = [inbox EXCEPT ![l] = @ \ {r}]
          /\ Route(Server(l), r)
          /\ UNCHANGED <<key, peerVars, runVars, bounds, sent>>
    BY <1>1 DEF RouteRemote
  <2>2. Grows /\ <<r.nonce, r.chan>> \in Routed(Server(l))'
    BY <2>1, LinkEnds, RouteGrows DEF CursorInv, TypeOK
  <2>3. \A k \in Links : \A q \in inbox[k] :
          q \in inbox'[k] \/ <<q.nonce, q.chan>> \in Routed(Server(k))'
    BY <2>1, <2>2 DEF CursorInv, TypeOK
  <2>4. UNCHANGED <<lastPollLocal, lastPollRemote, phase, toRemote, toRemoteTime,
                    toLocal, toLocalTime>>
    BY <2>1 DEF peerVars, runVars
  <2> QED BY <2>2, <2>3, <2>4, QuietStep
<1>2. CASE DropoffLocal(l)
  <2>1. PICK r \in toLocal[l] :
          /\ toLocal' = [toLocal EXCEPT ![l] = @ \ {r}]
          /\ Route(Client(l), r)
          /\ UNCHANGED <<key, peerVars, phase, toRemote, toRemoteTime, toLocalTime, inbox,
                         bounds, sent>>
    BY <1>2 DEF DropoffLocal
  <2>2. Grows /\ r.nonce \in seen'[Client(l)]
    BY <2>1, LinkEnds, RouteGrows DEF CursorInv, TypeOK
  <2>3. \A k \in Links : \A q \in toLocal[k] : q \in toLocal'[k] \/ q.nonce \in seen'[Client(k)]
    BY <2>1, <2>2 DEF CursorInv, TypeOK
  <2>4. UNCHANGED <<lastPollLocal, lastPollRemote, phase, toRemote, toRemoteTime,
                    toLocalTime, inbox>>
    BY <2>1 DEF peerVars
  <2> QED BY <2>2, <2>3, <2>4, QuietStep
<1> QED BY <1>1, <1>2

\* So do a send, a flush and a step that changes nothing.
LEMMA OwnStep ==
    ASSUME CursorInv, TypeOK',
           \/ \E m \in Msgs : SendMsg(m)
           \/ \E n \in Nodes : FlushOutbox(n)
           \/ UNCHANGED vars
    PROVE  CursorInv'
<1>c. \A n \in Nodes : clock[n] \in Nat
  BY DEF CursorInv, TypeOK
<1>1. ASSUME NEW m \in Msgs, SendMsg(m)
      PROVE  CursorInv'
  <2>1. /\ Enqueue(Origin[m], m, <<Chan[m]>>)
        /\ UNCHANGED <<seen, handled, dropped, lastPollLocal, lastPollRemote, inbox,
                       phase, toRemote, toRemoteTime, toLocal, toLocalTime>>
    BY <1>1 DEF SendMsg, peerVars, runVars
  <2>2. Origin[m] \in Nodes /\ <<Chan[m]>> \in Seq(Chans)
    BY FloodAssumption
  <2>3. Grows
    BY <2>1, <2>2, EnqueueGrows DEF Grows, Routed, CursorInv
  <2> QED BY <2>1, <2>3, QuietStep
<1>2. ASSUME NEW n \in Nodes, FlushOutbox(n)
      PROVE  CursorInv'
  <2>1. /\ \E S : outbox' = [outbox EXCEPT ![n] = @ \ S]
        /\ UNCHANGED <<clock, seen, handled, dropped, lastPollLocal, lastPollRemote, inbox,
                       phase, toRemote, toRemoteTime, toLocal, toLocalTime>>
    BY <1>2 DEF FlushOutbox, peerVars, runVars, history
  <2>2. \A k \in Nodes : \A r \in outbox'[k] : r \in outbox[k]
    BY <2>1 DEF CursorInv, TypeOK
  <2>3. Grows
    BY <1>c, <2>1, <2>2 DEF Grows, Routed
  <2> QED BY <2>1, <2>3, QuietStep
<1>3. CASE UNCHANGED vars
  <2>1. UNCHANGED <<outbox, clock, seen, handled, dropped, lastPollLocal, lastPollRemote, inbox,
                    phase, toRemote, toRemoteTime, toLocal, toLocalTime>>
    BY <1>3 DEF vars, nodeVars, peerVars, runVars, history
  <2>2. Grows
    BY <1>c, <2>1 DEF Grows, Routed
  <2> QED BY <2>1, <2>2, QuietStep
<1> QED BY <1>1, <1>2, <1>3

LEMMA NextCursor == CursorInv /\ [Next]_vars => CursorInv'
<1> SUFFICES ASSUME CursorInv, [Next]_vars PROVE CursorInv'
  OBVIOUS
<1>1. TypeOK'
  BY NextType DEF CursorInv
<1>2. ASSUME NEW l \in Links, Step(l) \/ Fail(l)
      PROVE  CursorInv'
  BY <1>1, <1>2, PollServerStep, PickupRemoteStep, DropoffRemoteStep, RouteStep,
     ReplyRemoteStep, EndPollStep, AbortStep DEF Step
<1>3. ASSUME NEW n \in Nodes, Restart(n)
      PROVE  CursorInv'
  BY <1>1, <1>3, RestartStep
<1>4. ASSUME \/ \E m \in Msgs : SendMsg(m)
             \/ \E n \in Nodes : FlushOutbox(n)
             \/ UNCHANGED vars
      PROVE  CursorInv'
  BY <1>1, <1>4, OwnStep
<1> QED BY <1>2, <1>3, <1>4 DEF Next

\* The invariant of the cursors holds of every network.
THEOREM CursorInvariant == Spec => []CursorInv
  BY InitCursor, NextCursor, PTL DEF Spec

\* LastPollLocal never passes over a record that the server did not route, and
\* LastPollRemote never over one that the client has not seen, whatever calls
\* failed and whichever node restarted.
THEOREM CursorsAreSound == Spec => []CursorsSound
<1>1. CursorInv => CursorsSound
  BY DEF CursorInv, CursorsSound
<1> QED BY <1>1, CursorInvariant, PTL

-----------------------------------------------------------------------------
(***************************************************************************)
(* What a step can do to the routers.                                      *)
(***************************************************************************)
RouterVars == <<seen, handled, dropped, delivered>>

\* A step routes a record that came over a link, restarts a node, sends a
\* message, or leaves the routers and what was sent alone.
LEMMA StepKinds ==
    ASSUME [Next]_vars
    PROVE  \/ \E l \in Links : RouteRemote(l) \/ DropoffLocal(l)
           \/ \E n \in Nodes : Restart(n)
           \/ \E m \in Msgs : SendMsg(m)
           \/ UNCHANGED <<RouterVars, sent>>
<1> USE DEF RouterVars, nodeVars, history
<1>1. ASSUME NEW l \in Links, Step(l)
      PROVE  RouteRemote(l) \/ DropoffLocal(l) \/ UNCHANGED <<RouterVars, sent>>
  BY <1>1 DEF Step, PollServer, PickupRemote, DropoffRemote, DropoffRefused, ReplyRemote, EndPoll
<1>2. ASSUME NEW l \in Links, Fail(l)
      PROVE  UNCHANGED <<RouterVars, sent>>
  BY <1>2 DEF Fail
<1>3. ASSUME NEW n \in Nodes, FlushOutbox(n)
      PROVE  UNCHANGED <<RouterVars, sent>>
  BY <1>3 DEF FlushOutbox
<1>4. CASE UNCHANGED vars
  BY <1>4 DEF vars
<1> QED BY <1>1, <1>2, <1>3, <1>4 DEF Next

\* The record that a link's end routes next is a record.
LEMMA RoutedRecord ==
    ASSUME TypeOK, NEW l \in Links, RouteRemote(l) \/ DropoffLocal(l)
    PROVE  /\ sent' = sent
           /\ \/ \E r \in inbox[l] : r \in Recs /\ Route(Server(l), r)
              \/ \E r \in toLocal[l] : r \in Recs /\ Route(Client(l), r)
  BY DEF RouteRemote, DropoffLocal, TypeOK

-----------------------------------------------------------------------------
(***************************************************************************)
(* A message is delivered once between two starts: what was delivered is   *)
(* remembered by the router.                                               *)
(***************************************************************************)
DeliveryInv ==
    /\ TypeOK
    /\ AtMostOnce
    /\ \A n \in Nodes, m \in Msgs : m \notin seen[n] => delivered[n][m] = 0

\* Routing a record keeps the invariant: a fresh one was not delivered yet.
LEMMA RouteDelivers ==
    ASSUME DeliveryInv, TypeOK', NEW n \in Nodes, NEW r \in Recs, Route(n, r)
    PROVE  DeliveryInv'
<1>1. r.nonce \in Msgs
  BY DEF Recs
<1>2. CASE RouteFresh(n, r)
  <2> SUFFICES ASSUME NEW k \in Nodes, NEW m \in Msgs
               PROVE  /\ delivered'[k][m] <= 1
                      /\ m \notin seen'[k] => delivered'[k][m] = 0
    BY DEF DeliveryInv, AtMostOnce
  <2>1. /\ delivered[k][m] \in Nat /\ delivered[k][m] <= 1
        /\ m \notin seen[k] => delivered[k][m] = 0
    BY DEF DeliveryInv, AtMostOnce, TypeOK
  <2>2. r.nonce \notin seen[n] /\ seen' = [seen EXCEPT ![n] = @ \cup {r.nonce}]
    BY <1>2 DEF RouteFresh, Seen
  <2>3. /\ delivered \in [Nodes -> [Msgs -> Nat]]
        /\ \/ delivered' = [delivered EXCEPT ![n][r.nonce] = @ + 1]
           \/ delivered' = delivered
    BY <1>2 DEF RouteFresh, DeliveryInv, TypeOK
  <2>4. CASE k = n /\ m = r.nonce
    <3>1. m \in seen'[k] /\ delivered[k][m] = 0
      BY <2>1, <2>2, <2>4 DEF DeliveryInv, TypeOK
    <3>2. delivered'[k][m] = delivered[k][m] \/ delivered'[k][m] = delivered[k][m] + 1
      BY <1>1, <2>4, <2>3
    <3> QED BY <3>1, <3>2
  <2>5. CASE ~(k = n /\ m = r.nonce)
    <3>1. delivered'[k][m] = delivered[k][m]
      BY <1>1, <2>5, <2>3
    <3>2. m \in seen[k] => m \in seen'[k]
      BY <2>2 DEF DeliveryInv, TypeOK
    <3> QED BY <2>1, <3>1, <3>2
  <2> QED BY <2>4, <2>5
<1>3. CASE RouteSeen(n, r)
  BY <1>3 DEF RouteSeen, DeliveryInv, AtMostOnce
<1> QED BY <1>2, <1>3 DEF Route

LEMMA NextDelivery == DeliveryInv /\ [Next]_vars => DeliveryInv'
<1> SUFFICES ASSUME DeliveryInv, [Next]_vars PROVE DeliveryInv'
  OBVIOUS
<1>1. TypeOK /\ TypeOK'
  BY NextType DEF DeliveryInv
<1>2. ASSUME NEW l \in Links, RouteRemote(l) \/ DropoffLocal(l)
      PROVE  DeliveryInv'
  BY <1>1, <1>2, LinkEnds, RoutedRecord, RouteDelivers
<1>3. ASSUME NEW n \in Nodes, Restart(n)
      PROVE  DeliveryInv'
  <2>1. /\ seen' = [seen EXCEPT ![n] = {}]
        /\ delivered' = [delivered EXCEPT ![n] = [m \in Msgs |-> 0]]
    BY <1>3 DEF Restart
  <2>2. \A k \in Nodes, m \in Msgs :
          IF k = n THEN delivered'[k][m] = 0
                   ELSE delivered'[k][m] = delivered[k][m] /\ seen'[k] = seen[k]
    BY <1>1, <2>1 DEF TypeOK
  <2> QED BY <1>1, <2>2 DEF DeliveryInv, AtMostOnce
<1>4. ASSUME NEW m \in Msgs, SendMsg(m)
      PROVE  DeliveryInv'
  BY <1>1, <1>4 DEF SendMsg, DeliveryInv, AtMostOnce
<1>5. CASE UNCHANGED <<RouterVars, sent>>
  BY <1>1, <1>5 DEF RouterVars, DeliveryInv, AtMostOnce
<1> QED BY <1>2, <1>3, <1>4, <1>5, StepKinds

\* Between two starts of a node, its application gets a message at most once.
THEOREM DeliveredAtMostOnce == Spec => []AtMostOnce
<1>1. Init => DeliveryInv
  <2>1. Init => \A n \in Nodes, m \in Msgs : delivered[n][m] = 0
    BY DEF Init
  <2> QED BY <2>1, InitType DEF DeliveryInv, AtMostOnce
<1>2. DeliveryInv => AtMostOnce
  BY DEF DeliveryInv
<1> QED BY <1>1, <1>2, NextDelivery, PTL DEF Spec

-----------------------------------------------------------------------------
(***************************************************************************)
(* The cursors advance: the times in a run are not before the cursors.     *)
(***************************************************************************)
AdvanceInv ==
    /\ TypeOK
    /\ \A l \in Links :
         /\ phase[l] \in {"pickup", "dropoff", "reply"} => lastPollLocal[l] <= toRemoteTime[l]
         /\ phase[l] \in {"dropoff", "reply", "local"} => lastPollRemote[l] <= toLocalTime[l]

\* What CursorsAdvance says of a step.
Advances ==
    \A l \in Links :
        \/ lastPollLocal[l] <= lastPollLocal'[l] /\ lastPollRemote[l] <= lastPollRemote'[l]
        \/ routingPub'[l] = NoKey

\* A step of a run keeps the invariant and moves no cursor back.
LEMMA RunAdvances ==
    ASSUME AdvanceInv, TypeOK', NEW l \in Links, Step(l) \/ Fail(l)
    PROVE  AdvanceInv' /\ Advances
<1>t. /\ \A k \in Links : /\ lastPollLocal[k] \in Nat /\ lastPollRemote[k] \in Nat
                          /\ toRemoteTime[k] \in Nat /\ toLocalTime[k] \in Nat
      /\ lastPollLocal \in [Links -> Nat] /\ lastPollRemote \in [Links -> Nat]
      /\ toRemoteTime \in [Links -> Nat] /\ toLocalTime \in [Links -> Nat]
      /\ phase \in [Links -> Phases]
  BY DEF AdvanceInv, TypeOK
<1>e. ASSUME EndRun(l), UNCHANGED lastPollLocal,
             lastPollRemote[l] <= lastPollRemote'[l],
             \A k \in Links \ {l} : lastPollRemote'[k] = lastPollRemote[k]
      PROVE  AdvanceInv' /\ Advances
  <2>1. /\ phase'[l] = "idle"
        /\ \A k \in Links \ {l} : /\ phase'[k] = phase[k]
                                  /\ toRemoteTime'[k] = toRemoteTime[k]
                                  /\ toLocalTime'[k] = toLocalTime[k]
    BY <1>t, <1>e DEF EndRun
  <2>2. Advances
    BY <1>t, <1>e DEF Advances
  <2>3. AdvanceInv'
    BY <1>e, <2>1 DEF AdvanceInv
  <2> QED BY <2>2, <2>3
<1>1. CASE PollServer(l)
  <2>1. PICK t \in PickupTimes(Client(l), lastPollLocal[l]) :
          toRemoteTime' = [toRemoteTime EXCEPT ![l] = t]
    BY <1>1 DEF PollServer
  <2>2. lastPollLocal[l] <= t
    BY <1>t, LinkEnds, PickupType DEF AdvanceInv
  <2>3. /\ phase' = [phase EXCEPT ![l] = "pickup"]
        /\ UNCHANGED <<lastPollLocal, lastPollRemote, toLocalTime>>
    BY <1>1 DEF PollServer
  <2>4. AdvanceInv'
    BY <1>t, <2>1, <2>2, <2>3 DEF AdvanceInv
  <2> QED BY <1>t, <2>3, <2>4 DEF Advances
<1>2. CASE PickupRemote(l)
  <2>1. PICK t \in PickupTimes(Server(l), lastPollRemote[l]) :
          toLocalTime' = [toLocalTime EXCEPT ![l] = t]
    BY <1>2 DEF PickupRemote
  <2>2. lastPollRemote[l] <= t
    BY <1>t, LinkEnds, PickupType DEF AdvanceInv
  <2>3. /\ phase[l] = "pickup"
        /\ phase' = [phase EXCEPT ![l] = IF toRemote[l] = {} THEN "local" ELSE "dropoff"]
        /\ UNCHANGED <<lastPollLocal, lastPollRemote, toRemoteTime>>
    BY <1>2 DEF PickupRemote, peerVars
  <2>4. AdvanceInv'
    BY <1>t, <2>1, <2>2, <2>3 DEF AdvanceInv
  <2> QED BY <1>t, <2>3, <2>4 DEF Advances
<1>3. CASE DropoffRemote(l)
  <2>1. /\ phase[l] = "dropoff" /\ phase' = [phase EXCEPT ![l] = "reply"]
        /\ UNCHANGED <<lastPollLocal, lastPollRemote, toRemoteTime, toLocalTime>>
    BY <1>3 DEF DropoffRemote, peerVars
  <2> QED BY <1>t, <2>1 DEF AdvanceInv, Advances
<1>4. CASE RouteRemote(l) \/ DropoffLocal(l)
  <2>1. UNCHANGED <<phase, lastPollLocal, lastPollRemote, toRemoteTime, toLocalTime>>
    BY <1>4 DEF RouteRemote, DropoffLocal, peerVars, runVars
  <2> QED BY <1>t, <2>1 DEF AdvanceInv, Advances
<1>5. CASE ReplyRemote(l)
  <2>1. /\ phase[l] = "reply" /\ phase' = [phase EXCEPT ![l] = "local"]
        /\ lastPollLocal' = [lastPollLocal EXCEPT ![l] =
                               IF sentBefore[l] THEN toRemoteTime[l] ELSE @]
        /\ UNCHANGED <<lastPollRemote, toRemoteTime, toLocalTime>>
    BY <1>5 DEF ReplyRemote
  <2>2. \A k \in Links : lastPollLocal[k] <= lastPollLocal'[k]
    BY <1>t, <2>1 DEF AdvanceInv
  <2>3. AdvanceInv'
    BY <1>t, <2>1 DEF AdvanceInv
  <2> QED BY <1>t, <2>1, <2>2, <2>3 DEF Advances
<1>6. CASE EndPoll(l)
  <2>1. /\ EndRun(l) /\ UNCHANGED lastPollLocal
        /\ lastPollRemote' = [lastPollRemote EXCEPT ![l] = toLocalTime[l]]
        /\ lastPollRemote[l] <= toLocalTime[l]
    BY <1>6 DEF EndPoll, AdvanceInv
  <2> QED BY <1>t, <1>e, <2>1
<1>7. CASE DropoffRefused(l) \/ Fail(l)
  <2>1. EndRun(l) /\ UNCHANGED <<lastPollLocal, lastPollRemote>>
    BY <1>7 DEF DropoffRefused, Fail, peerVars
  <2> QED BY <1>t, <1>e, <2>1
<1> QED BY <1>1, <1>2, <1>3, <1>4, <1>5, <1>6, <1>7 DEF Step

\* So does every other step; a restart forgets cursors and routing key together.
LEMMA NextAdvances == AdvanceInv /\ [Next]_vars => AdvanceInv' /\ Advances
<1> SUFFICES ASSUME AdvanceInv, [Next]_vars PROVE AdvanceInv' /\ Advances
  OBVIOUS
<1>1. TypeOK /\ TypeOK'
  BY NextType DEF AdvanceInv
<1>2. \A l \in Links : lastPollLocal[l] \in Nat /\ lastPollRemote[l] \in Nat
  BY <1>1 DEF TypeOK
<1>3. ASSUME NEW l \in Links, Step(l) \/ Fail(l)
      PROVE  AdvanceInv' /\ Advances
  BY <1>1, <1>3, RunAdvances
<1>4. ASSUME NEW n \in Nodes, Restart(n)
      PROVE  AdvanceInv' /\ Advances
  <2> DEFINE own  == {l \in Links : Client(l) = n}
             gone == own \cup {l \in {k \in Links : Server(k) = n} : phase[l] = "reply"}
  <2>1. \A l \in Links :
          /\ phase'[l] = IF l \in gone THEN "idle" ELSE phase[l]
          /\ lastPollLocal'[l] = IF l \in own THEN 0 ELSE lastPollLocal[l]
          /\ lastPollRemote'[l] = IF l \in own THEN 0 ELSE lastPollRemote[l]
          /\ toRemoteTime'[l] = IF l \in gone THEN 0 ELSE toRemoteTime[l]
          /\ toLocalTime'[l] = IF l \in gone THEN 0 ELSE toLocalTime[l]
          /\ routingPub'[l] = IF l \in own THEN NoKey ELSE routingPub[l]
    BY <1>4 DEF Restart
  <2>2. \A l \in Links : l \in own => l \in gone
    OBVIOUS
  <2> HIDE DEF own, gone
  <2>3. AdvanceInv'
    BY <1>1, <2>1, <2>2 DEF AdvanceInv
  <2> QED BY <1>2, <2>1, <2>3 DEF Advances
<1>5. ASSUME UNCHANGED <<phase, lastPollLocal, lastPollRemote, toRemoteTime, toLocalTime>>
      PROVE  AdvanceInv' /\ Advances
  BY <1>1, <1>2, <1>5 DEF AdvanceInv, Advances
<1>6. ASSUME NEW m \in Msgs, SendMsg(m)
      PROVE  AdvanceInv' /\ Advances
  BY <1>5, <1>6 DEF SendMsg, peerVars, runVars
<1>7. ASSUME NEW n \in Nodes, FlushOutbox(n)
      PROVE  AdvanceInv' /\ Advances
  BY <1>5, <1>7 DEF FlushOutbox, peerVars, runVars
<1>8. CASE UNCHANGED vars
  BY <1>5, <1>8 DEF vars, peerVars, runVars
<1> QED BY <1>3, <1>4, <1>6, <1>7, <1>8 DEF Next

\* No run moves a cursor back, whatever it picked up and however it ended: only
\* a restart of the client does, and that forgets the peer's routing key too.
THEOREM CursorsOnlyAdvance == Spec => CursorsAdvance
<1>1. Init => AdvanceInv
  <2>1. Init => \A l \in Links : phase[l] = "idle"
    BY DEF Init
  <2> QED BY <2>1, InitType DEF AdvanceInv
<1>2. AdvanceInv /\ [Next]_vars =>
        [ \A l \in Links :
            \/ /\ lastPollLocal[l] <= lastPollLocal'[l]
               /\ lastPollRemote[l] <= lastPollRemote'[l]
            \/ routingPub'[l] = NoKey ]_vars
  BY NextAdvances DEF Advances
<1>3. AdvanceInv /\ [Next]_vars => AdvanceInv'
  BY NextAdvances
<1> QED BY <1>1, <1>2, <1>3, PTL DEF Spec, CursorsAdvance

-----------------------------------------------------------------------------
(***************************************************************************)
(* The network implements Gossip: whatever travels was sent or handled by  *)
(* the node it comes from.                                                 *)
(***************************************************************************)
Nonces(S) == {r.nonce : r \in S}

SourceInv ==
    /\ TypeOK
    /\ \A n \in Nodes : Nonces(outbox[n]) \subseteq KnownEver(n)
    /\ \A l \in Links :
         /\ Nonces(toRemote[l]) \subseteq KnownEver(Client(l))
         /\ Nonces(inbox[l]) \subseteq KnownEver(Client(l))
         /\ Nonces(toLocal[l]) \subseteq KnownEver(Server(l))

\* What a step of a run or a restart moves where.
LEMMA Moves ==
    ASSUME TypeOK,
           \/ \E l \in Links : Step(l) /\ ~RouteRemote(l) /\ ~DropoffLocal(l)
           \/ \E l \in Links : Fail(l)
           \/ \E n \in Nodes : FlushOutbox(n) \/ Restart(n)
           \/ UNCHANGED vars
    PROVE  /\ \A n \in Nodes : outbox'[n] \subseteq outbox[n]
           /\ \A l \in Links :
                /\ toRemote'[l] \subseteq toRemote[l] \cup outbox[Client(l)]
                /\ inbox'[l] \subseteq inbox[l] \cup toRemote[l]
                /\ toLocal'[l] \subseteq toLocal[l] \cup outbox[Server(l)]
           /\ UNCHANGED <<handled, dropped, sent>>
<1>t. /\ outbox \in [Nodes -> SUBSET Recs] /\ toRemote \in [Links -> SUBSET Recs]
      /\ inbox \in [Links -> SUBSET Recs] /\ toLocal \in [Links -> SUBSET Recs]
  BY DEF TypeOK
<1>1. ASSUME NEW l \in Links, PollServer(l)
      PROVE  /\ UNCHANGED <<outbox, inbox, toLocal, handled, dropped, sent>>
             /\ \A k \in Links : toRemote'[k] \subseteq toRemote[k] \cup outbox[Client(k)]
  <2>1. PICK t : toRemote' = [toRemote EXCEPT ![l] = Until(Client(l), lastPollLocal[l], t)]
    BY <1>1 DEF PollServer
  <2> QED BY <1>t, <1>1, <2>1 DEF PollServer, Until, nodeVars, history
<1>2. ASSUME NEW l \in Links, PickupRemote(l)
      PROVE  /\ UNCHANGED <<outbox, inbox, toRemote, handled, dropped, sent>>
             /\ \A k \in Links : toLocal'[k] \subseteq toLocal[k] \cup outbox[Server(k)]
  <2>1. PICK t : toLocal' = [toLocal EXCEPT ![l] = Until(Server(l), lastPollRemote[l], t)]
    BY <1>2 DEF PickupRemote
  <2> QED BY <1>t, <1>2, <2>1 DEF PickupRemote, Until, nodeVars, history
<1>3. ASSUME NEW l \in Links, DropoffRemote(l)
      PROVE  /\ UNCHANGED <<outbox, toRemote, toLocal, handled, dropped, sent>>
             /\ \A k \in Links : inbox'[k] \subseteq inbox[k] \cup toRemote[k]
  BY <1>t, <1>3 DEF DropoffRemote, nodeVars, history
<1>4. ASSUME NEW l \in Links, EndRun(l)
      PROVE  \A k \in Links : toRemote'[k] \subseteq toRemote[k] /\ toLocal'[k] \subseteq toLocal[k]
  BY <1>t, <1>4 DEF EndRun
<1>5. ASSUME NEW l \in Links, DropoffRefused(l) \/ EndPoll(l) \/ Fail(l)
      PROVE  EndRun(l) /\ UNCHANGED <<outbox, inbox, handled, dropped, sent>>
  BY <1>5 DEF DropoffRefused, EndPoll, Fail, nodeVars, history
<1>6. ASSUME NEW l \in Links, ReplyRemote(l)
      PROVE  UNCHANGED <<outbox, inbox, toRemote, toLocal, handled, dropped, sent>>
  BY <1>6 DEF ReplyRemote, nodeVars, history
<1>7. ASSUME NEW n \in Nodes, FlushOutbox(n)
      PROVE  /\ UNCHANGED <<inbox, toRemote, toLocal, handled, dropped, sent>>
             /\ \A k \in Nodes : outbox'[k] \subseteq outbox[k]
  <2>1. PICK S : outbox' = [outbox EXCEPT ![n] = @ \ S]
    BY <1>7 DEF FlushOutbox
  <2> QED BY <1>t, <1>7, <2>1 DEF FlushOutbox, runVars, history
<1>8. ASSUME NEW n \in Nodes, Restart(n)
      PROVE  /\ UNCHANGED <<handled, dropped, sent>>
             /\ \A k \in Nodes : outbox'[k] \subseteq outbox[k]
             /\ \A l \in Links : /\ toRemote'[l] \subseteq toRemote[l]
                                 /\ inbox'[l] \subseteq inbox[l]
                                 /\ toLocal'[l] \subseteq toLocal[l]
  BY <1>t, <1>8 DEF Restart
<1>9. CASE UNCHANGED vars
  BY <1>9 DEF vars, nodeVars, runVars, history
<1> QED BY <1>1, <1>2, <1>3, <1>4, <1>5, <1>6, <1>7, <1>8, <1>9 DEF Step

\* What was ever known stays so.
LEMMA KnownGrows ==
    ASSUME TypeOK, [Next]_vars
    PROVE  \A n \in Nodes : KnownEver(n) \subseteq KnownEver(n)'
<1>1. sent \subseteq sent' /\ \A n \in Nodes : handled[n] \subseteq handled'[n]
  <2>1. ASSUME NEW l \in Links, RouteRemote(l) \/ DropoffLocal(l)
        PROVE  sent \subseteq sent' /\ \A n \in Nodes : handled[n] \subseteq handled'[n]
    <3>1. sent' = sent /\ \E n \in Nodes, r \in Recs : Route(n, r)
      BY <2>1, RoutedRecord, LinkEnds
    <3>2. ASSUME NEW n \in Nodes, NEW r \in Recs, Route(n, r)
          PROVE  \A k \in Nodes : handled[k] \subseteq handled'[k]
      BY <3>2 DEF Route, RouteFresh, RouteSeen, TypeOK
    <3> QED BY <3>1, <3>2
  <2>2. ASSUME NEW n \in Nodes, Restart(n)
        PROVE  UNCHANGED <<sent, handled>>
    BY <2>2 DEF Restart
  <2>3. ASSUME NEW m \in Msgs, SendMsg(m)
        PROVE  sent \subseteq sent' /\ handled' = handled
    BY <2>3 DEF SendMsg
  <2>4. CASE UNCHANGED <<RouterVars, sent>>
    BY <2>4 DEF RouterVars
  <2> QED BY <2>1, <2>2, <2>3, <2>4, StepKinds
<1> QED BY <1>1 DEF KnownEver

\* Routing a record appends copies of it only, and makes it known.
LEMMA RouteSource ==
    ASSUME TypeOK, NEW n \in Nodes, NEW r \in Recs, Route(n, r)
    PROVE  \A k \in Nodes : \A q \in outbox'[k] :
             q \in outbox[k] \/ (k = n /\ q.nonce = r.nonce /\ q.nonce \in KnownEver(n)')
<1> DEFINE cs == IF Forwards(n, r) THEN To[n][r.chan] ELSE << >>
<1>1. r.nonce \in Msgs /\ r.chan \in Chans
  BY DEF Recs
<1>2. CASE RouteFresh(n, r)
  <2>1. outbox' = [outbox EXCEPT ![n] = @ \cup Stamped(n, r.nonce, cs)]
    BY <1>2 DEF RouteFresh, Enqueue
  <2> HIDE DEF cs
  <2>2. \A q \in Stamped(n, r.nonce, cs) : q.nonce = r.nonce
    BY DEF Stamped
  <2>3. <<r.nonce, r.chan>> \in handled'[n]
    BY <1>2 DEF RouteFresh, TypeOK
  <2>4. r.nonce \in KnownEver(n)'
    BY <1>1, <2>3 DEF KnownEver
  <2> QED BY <2>1, <2>2, <2>4 DEF TypeOK
<1>3. CASE RouteSeen(n, r)
  BY <1>3 DEF RouteSeen
<1> QED BY <1>2, <1>3 DEF Route

LEMMA NextSource == SourceInv /\ [Next]_vars => SourceInv'
<1> SUFFICES ASSUME SourceInv, [Next]_vars PROVE SourceInv'
  OBVIOUS
<1>1. TypeOK /\ TypeOK'
  BY NextType DEF SourceInv
<1>2. \A n \in Nodes : KnownEver(n) \subseteq KnownEver(n)'
  BY <1>1, KnownGrows
<1>3. ASSUME NEW l \in Links, RouteRemote(l) \/ DropoffLocal(l)
      PROVE  SourceInv'
  <2>1. PICK n \in Nodes, r \in Recs : Route(n, r)
    BY <1>1, <1>3, RoutedRecord, LinkEnds
  <2>2. \A k \in Nodes : Nonces(outbox'[k]) \subseteq KnownEver(k)'
    BY <1>1, <1>2, <2>1, RouteSource DEF SourceInv, Nonces
  <2>3. /\ UNCHANGED toRemote
        /\ \A k \in Links : inbox'[k] \subseteq inbox[k] /\ toLocal'[k] \subseteq toLocal[k]
    <3>1. CASE RouteRemote(l)
      BY <1>1, <3>1 DEF RouteRemote, runVars, TypeOK
    <3>2. CASE DropoffLocal(l)
      BY <1>1, <3>2 DEF DropoffLocal, TypeOK
    <3> QED BY <1>3, <3>1, <3>2
  <2> QED BY <1>1, <1>2, <2>2, <2>3, LinkEnds DEF SourceInv, Nonces, Client, Server
<1>4. ASSUME NEW m \in Msgs, SendMsg(m)
      PROVE  SourceInv'
  <2>1. /\ outbox' = [outbox EXCEPT ![Origin[m]] = @ \cup Stamped(Origin[m], m, <<Chan[m]>>)]
        /\ sent' = sent \cup {m}
        /\ UNCHANGED <<toRemote, toLocal, inbox>>
    BY <1>4 DEF SendMsg, Enqueue, runVars
  <2>2. \A q \in Stamped(Origin[m], m, <<Chan[m]>>) : q.nonce = m
    BY DEF Stamped
  <2>3. m \in KnownEver(Origin[m])'
    BY <2>1 DEF KnownEver
  <2>4. \A k \in Nodes : Nonces(outbox'[k]) \subseteq KnownEver(k)'
    <3> SUFFICES ASSUME NEW k \in Nodes, NEW q \in outbox'[k]
                 PROVE  q.nonce \in KnownEver(k)'
      BY DEF Nonces
    <3>1. q \in outbox[k] \/ (k = Origin[m] /\ q \in Stamped(Origin[m], m, <<Chan[m]>>))
      BY <1>1, <2>1 DEF TypeOK
    <3>2. q \in outbox[k] => q.nonce \in KnownEver(k)
      BY DEF SourceInv, Nonces
    <3> QED BY <1>2, <2>2, <2>3, <3>1, <3>2
  <2> QED BY <1>1, <1>2, <2>1, <2>4, LinkEnds DEF SourceInv, Client, Server
<1>5. CASE \/ \E l \in Links : Step(l) /\ ~RouteRemote(l) /\ ~DropoffLocal(l)
           \/ \E l \in Links : Fail(l)
           \/ \E n \in Nodes : FlushOutbox(n) \/ Restart(n)
           \/ UNCHANGED vars
  <2>1. /\ \A n \in Nodes : outbox'[n] \subseteq outbox[n]
        /\ \A l \in Links :
             /\ toRemote'[l] \subseteq toRemote[l] \cup outbox[Client(l)]
             /\ inbox'[l] \subseteq inbox[l] \cup toRemote[l]
             /\ toLocal'[l] \subseteq toLocal[l] \cup outbox[Server(l)]
    BY <1>1, <1>5, Moves
  <2>2. \A n \in Nodes : Nonces(outbox'[n]) \subseteq KnownEver(n)'
    BY <1>2, <2>1 DEF SourceInv, Nonces
  <2>3. ASSUME NEW l \in Links
        PROVE  /\ Nonces(toRemote'[l]) \subseteq KnownEver(Client(l))
               /\ Nonces(inbox'[l]) \subseteq KnownEver(Client(l))
               /\ Nonces(toLocal'[l]) \subseteq KnownEver(Server(l))
    BY <2>1, LinkEnds DEF SourceInv, Nonces
  <2> QED BY <1>1, <1>2, <2>2, <2>3, LinkEnds DEF SourceInv, Client, Server
<1> QED BY <1>3, <1>4, <1>5 DEF Next

\* Routing a record that a neighbour knew is a step of Gossip: the node learns
\* the message, or, if it remembers it, nothing changes.
LEMMA RouteLearns ==
    ASSUME TypeOK, NEW n \in Nodes, NEW r \in Recs, Route(n, r), sent' = sent,
           NEW k \in Neighbours(n), r.nonce \in KnownEver(k), k \in Nodes
    PROVE  [Abstract!Next]_(Abstract!vars)
<1>1. r.nonce \in Msgs
  BY DEF Recs
<1>2. CASE RouteFresh(n, r)
  <2>1. /\ r.nonce \notin seen[n]
        /\ seen' = [seen EXCEPT ![n] = @ \cup {r.nonce}]
        /\ handled' = [handled EXCEPT ![n] = @ \cup {<<r.nonce, r.chan>>}]
        /\ \/ UNCHANGED delivered
           \/ delivered' = [delivered EXCEPT ![n][r.nonce] = @ + 1]
    BY <1>2 DEF RouteFresh, Seen
  <2>2. \A i \in Nodes : KnownEver(i)' = IF i = n THEN KnownEver(i) \cup {r.nonce} ELSE KnownEver(i)
    <3> SUFFICES ASSUME NEW i \in Nodes
                 PROVE  KnownEver(i)' = IF i = n THEN KnownEver(i) \cup {r.nonce} ELSE KnownEver(i)
      OBVIOUS
    <3>1. r.chan \in Chans
      BY DEF Recs
    <3>2. handled'[i] = IF i = n THEN handled[i] \cup {<<r.nonce, r.chan>>} ELSE handled[i]
      BY <2>1 DEF TypeOK
    <3> QED BY <1>1, <3>1, <3>2 DEF KnownEver
  <2>3. [i \in Nodes |-> KnownEver(i)]'
          = [[i \in Nodes |-> KnownEver(i)] EXCEPT ![n] = @ \cup {r.nonce}]
    BY <2>2
  <2>4. Abstract!Learn(n, r.nonce)
    BY <2>1, <2>3 DEF Abstract!Learn
  <2> QED BY <1>1, <2>4 DEF Abstract!Next
<1>3. CASE RouteSeen(n, r)
  <2>1. UNCHANGED <<seen, handled, delivered>>
    BY <1>3 DEF RouteSeen
  <2>2. \A i \in Nodes : KnownEver(i)' = KnownEver(i)
    BY <2>1 DEF KnownEver
  <2> QED BY <2>1, <2>2 DEF Abstract!vars
<1> QED BY <1>2, <1>3 DEF Route

\* Every step of the network is a step of Gossip or changes nothing in it.
LEMMA NextGossip == SourceInv /\ [Next]_vars => [Abstract!Next]_(Abstract!vars)
<1> SUFFICES ASSUME SourceInv, [Next]_vars PROVE [Abstract!Next]_(Abstract!vars)
  OBVIOUS
<1>1. TypeOK
  BY DEF SourceInv
<1>2. \A l \in Links : Client(l) \in Neighbours(Server(l)) /\ Server(l) \in Neighbours(Client(l))
  <2>1. \A l \in Links : l = <<Client(l), Server(l)>>
    BY FloodAssumption DEF Client, Server
  <2> QED BY <2>1, LinkEnds DEF Neighbours
<1>3. ASSUME NEW l \in Links, RouteRemote(l) \/ DropoffLocal(l)
      PROVE  [Abstract!Next]_(Abstract!vars)
  <2>1. CASE \E r \in inbox[l] : r \in Recs /\ Route(Server(l), r)
    <3>1. \A r \in inbox[l] : r.nonce \in KnownEver(Client(l))
      BY DEF SourceInv, Nonces
    <3> QED BY <1>1, <1>2, <1>3, <2>1, <3>1, LinkEnds, RoutedRecord, RouteLearns
  <2>2. CASE \E r \in toLocal[l] : r \in Recs /\ Route(Client(l), r)
    <3>1. \A r \in toLocal[l] : r.nonce \in KnownEver(Server(l))
      BY DEF SourceInv, Nonces
    <3> QED BY <1>1, <1>2, <1>3, <2>2, <3>1, LinkEnds, RoutedRecord, RouteLearns
  <2> QED BY <1>1, <1>3, <2>1, <2>2, RoutedRecord
<1>4. ASSUME NEW n \in Nodes, Restart(n)
      PROVE  Abstract!Next
  <2>1. /\ seen' = [seen EXCEPT ![n] = {}]
        /\ delivered' = [delivered EXCEPT ![n] = [m \in Msgs |-> 0]]
        /\ UNCHANGED <<sent, handled>>
    BY <1>4 DEF Restart
  <2>2. \A i \in Nodes : KnownEver(i)' = KnownEver(i)
    BY <2>1 DEF KnownEver
  <2>3. Abstract!Forget(n)
    BY <2>1, <2>2 DEF Abstract!Forget
  <2> QED BY <2>3 DEF Abstract!Next
<1>5. ASSUME NEW m \in Msgs, SendMsg(m)
      PROVE  Abstract!Next
  <2>1. sent' = sent \cup {m} /\ UNCHANGED <<seen, handled, delivered>>
    BY <1>5 DEF SendMsg
  <2>2. \A i \in Nodes : KnownEver(i)' = IF i = Origin[m] THEN KnownEver(i) \cup {m} ELSE KnownEver(i)
    BY <2>1 DEF KnownEver
  <2>3. [i \in Nodes |-> KnownEver(i)]'
          = [[i \in Nodes |-> KnownEver(i)] EXCEPT ![Origin[m]] = @ \cup {m}]
    BY <2>2
  <2>4. Abstract!Inject(m)
    BY <2>1, <2>3 DEF Abstract!Inject
  <2> QED BY <2>4 DEF Abstract!Next
<1>6. CASE UNCHANGED <<RouterVars, sent>>
  <2>1. UNCHANGED <<seen, handled, delivered, sent>>
    BY <1>6 DEF RouterVars
  <2>2. \A i \in Nodes : KnownEver(i)' = KnownEver(i)
    BY <2>1 DEF KnownEver
  <2> QED BY <2>1, <2>2 DEF Abstract!vars
<1> QED BY <1>3, <1>4, <1>5, <1>6, StepKinds

\* The network implements Gossip, for every set of nodes, links and messages:
\* no node routes a message that no neighbour had, and each learns it once
\* between two starts.
THEOREM NetworkImplementsGossip == Spec => GossipSpec
<1>1. Init => SourceInv /\ Abstract!Init
  <2> SUFFICES ASSUME Init PROVE SourceInv /\ Abstract!Init
    OBVIOUS
  <2>1. /\ \A n \in Nodes : outbox[n] = {} /\ handled[n] = {}
        /\ \A l \in Links : toRemote[l] = {} /\ inbox[l] = {} /\ toLocal[l] = {}
        /\ sent = {}
    BY DEF Init
  <2>2. \A n \in Nodes : KnownEver(n) = {}
    BY <2>1 DEF KnownEver
  <2>3. SourceInv
    BY <2>1, InitType DEF SourceInv, Nonces
  <2>4. Abstract!Init
    BY <2>2 DEF Init, Abstract!Init
  <2> QED BY <2>3, <2>4
<1> QED BY <1>1, NextSource, NextGossip, PTL DEF Spec, GossipSpec, Abstract!Spec

-----------------------------------------------------------------------------
(***************************************************************************)
(* No storms without patches: a router that remembers a nonce has appended *)
(* it at most once, and SendMsg appends it once more at its origin.        *)
(***************************************************************************)
Unpatched == \A n \in Nodes, c \in Chans : To[n][c] = <<c>>

Copies(n, m) == {r \in outbox[n] : r.nonce = m}
Allowed(n, m) ==
    (IF m \in seen[n] THEN 1 ELSE 0) + (IF m \in sent /\ Origin[m] = n THEN 1 ELSE 0)

StormInv ==
    /\ TypeOK
    /\ \A n \in Nodes, m \in Msgs :
         /\ IsFiniteSet(Copies(n, m))
         /\ Cardinality(Copies(n, m)) <= Allowed(n, m)

\* A set that grows by one element at most has one element more at most.
LEMMA OneMore ==
    ASSUME NEW S, IsFiniteSet(S), NEW x, NEW T, T \subseteq S \cup {x}
    PROVE  IsFiniteSet(T) /\ Cardinality(T) <= Cardinality(S) + 1
<1>1. IsFiniteSet(S \cup {x}) /\ Cardinality(S \cup {x}) <= Cardinality(S) + 1
  <2>1. Cardinality(S) \in Nat
    BY FS_CardinalityType
  <2>2. /\ IsFiniteSet(S \cup {x})
        /\ Cardinality(S \cup {x}) = IF x \in S THEN Cardinality(S) ELSE Cardinality(S) + 1
    BY FS_AddElement
  <2> QED BY <2>1, <2>2
<1>2. IsFiniteSet(T) /\ Cardinality(T) <= Cardinality(S \cup {x})
  BY <1>1, FS_Subset
<1> QED BY <1>1, <1>2, FS_CardinalityType

\* A step after which a node has no new copies, and no fewer are allowed.
LEMMA FewerCopies ==
    ASSUME StormInv, TypeOK', NEW n \in Nodes, NEW m \in Msgs,
           outbox'[n] \subseteq outbox[n], Allowed(n, m) <= Allowed(n, m)'
    PROVE  IsFiniteSet(Copies(n, m))' /\ (Cardinality(Copies(n, m)) <= Allowed(n, m))'
<1>1. Copies(n, m)' \subseteq Copies(n, m)
  BY DEF Copies
<1>2. IsFiniteSet(Copies(n, m)) /\ Cardinality(Copies(n, m)) <= Allowed(n, m)
  BY DEF StormInv
<1>3. IsFiniteSet(Copies(n, m)') /\ Cardinality(Copies(n, m)') <= Cardinality(Copies(n, m))
  BY <1>1, <1>2, FS_Subset
<1>4. Cardinality(Copies(n, m)') \in Nat /\ Cardinality(Copies(n, m)) \in Nat
  BY <1>2, <1>3, FS_CardinalityType
<1>5. Allowed(n, m) \in Nat /\ Allowed(n, m)' \in Nat
  BY DEF Allowed
<1> QED BY <1>2, <1>3, <1>4, <1>5

\* A step after which a node has one new copy, and one more is allowed.
LEMMA OneMoreCopy ==
    ASSUME StormInv, NEW n \in Nodes, NEW m \in Msgs, NEW x,
           outbox'[n] \subseteq outbox[n] \cup {x}, Allowed(n, m)' = Allowed(n, m) + 1
    PROVE  IsFiniteSet(Copies(n, m))' /\ (Cardinality(Copies(n, m)) <= Allowed(n, m))'
<1>1. Copies(n, m)' \subseteq Copies(n, m) \cup {x}
  BY DEF Copies
<1>2. IsFiniteSet(Copies(n, m)) /\ Cardinality(Copies(n, m)) <= Allowed(n, m)
  BY DEF StormInv
<1>3. IsFiniteSet(Copies(n, m)') /\ Cardinality(Copies(n, m)') <= Cardinality(Copies(n, m)) + 1
  BY <1>1, <1>2, OneMore
<1>4. Cardinality(Copies(n, m)') \in Nat /\ Cardinality(Copies(n, m)) \in Nat
  BY <1>2, <1>3, FS_CardinalityType
<1>5. Allowed(n, m) \in Nat
  BY DEF Allowed
<1> QED BY <1>2, <1>3, <1>4, <1>5

\* A step that appends records of other messages only.
LEMMA OtherCopies ==
    ASSUME StormInv, NEW n \in Nodes, NEW m \in Msgs,
           \A r \in outbox'[n] : r \in outbox[n] \/ r.nonce # m,
           \A r \in outbox[n] : r \in outbox'[n], Allowed(n, m)' = Allowed(n, m)
    PROVE  IsFiniteSet(Copies(n, m))' /\ (Cardinality(Copies(n, m)) <= Allowed(n, m))'
<1>1. Copies(n, m)' = Copies(n, m)
  BY DEF Copies
<1> QED BY <1>1 DEF StormInv

\* Routing a record unpatched.
LEMMA RouteStorm ==
    ASSUME Unpatched, StormInv, TypeOK', NEW n \in Nodes, NEW r \in Recs, Route(n, r), sent' = sent
    PROVE  StormInv'
<1> SUFFICES ASSUME NEW k \in Nodes, NEW m \in Msgs
             PROVE  IsFiniteSet(Copies(k, m))' /\ (Cardinality(Copies(k, m)) <= Allowed(k, m))'
  BY DEF StormInv
<1> DEFINE cs == IF Forwards(n, r) THEN To[n][r.chan] ELSE << >>
           x  == [nonce |-> r.nonce, chan |-> r.chan, ts |-> clock[n] + 1]
<1>t. TypeOK
  BY DEF StormInv
<1>1. CASE RouteFresh(n, r)
  <2>1. /\ outbox' = [outbox EXCEPT ![n] = @ \cup Stamped(n, r.nonce, cs)]
        /\ r.nonce \notin seen[n] /\ seen' = [seen EXCEPT ![n] = @ \cup {r.nonce}]
    BY <1>1 DEF RouteFresh, Enqueue, Seen
  <2>2. cs = << >> \/ cs = <<r.chan>>
    BY DEF Unpatched, Recs
  <2> HIDE DEF cs
  <2>3. Stamped(n, r.nonce, cs) \subseteq {x}
    BY <2>2 DEF Stamped
  <2> HIDE DEF x
  <2>4. CASE k = n /\ m = r.nonce
    <3>1. outbox'[k] \subseteq outbox[k] \cup {x}
      BY <1>t, <2>1, <2>3, <2>4 DEF TypeOK
    <3>2. m \notin seen[k] /\ m \in seen'[k]
      BY <1>t, <2>1, <2>4 DEF TypeOK
    <3>3. Allowed(k, m)' = Allowed(k, m) + 1
      BY <3>2 DEF Allowed
    <3> QED BY <3>1, <3>3, OneMoreCopy
  <2>5. CASE ~(k = n /\ m = r.nonce)
    <3>1. m \in seen'[k] <=> m \in seen[k]
      BY <1>t, <2>1, <2>5 DEF TypeOK
    <3>2. Allowed(k, m)' = Allowed(k, m)
      BY <3>1 DEF Allowed
    <3>3. \A q \in Stamped(n, r.nonce, cs) : q.nonce = r.nonce
      BY DEF Stamped
    <3>4. /\ \A q \in outbox'[k] : q \in outbox[k] \/ q.nonce # m
          /\ \A q \in outbox[k] : q \in outbox'[k]
      BY <1>t, <2>1, <2>5, <3>3 DEF TypeOK
    <3> QED BY <3>2, <3>4, OtherCopies
  <2> QED BY <2>4, <2>5
<1>2. CASE RouteSeen(n, r)
  <2>1. UNCHANGED <<outbox, seen>>
    BY <1>2 DEF RouteSeen
  <2>2. Allowed(k, m)' = Allowed(k, m)
    BY <2>1 DEF Allowed
  <2> QED BY <2>1, <2>2, OtherCopies
<1> QED BY <1>1, <1>2 DEF Route

LEMMA NextStorm == Unpatched /\ StormInv /\ [Next]_vars => StormInv'
<1> SUFFICES ASSUME Unpatched, StormInv, [Next]_vars PROVE StormInv'
  OBVIOUS
<1>1. TypeOK /\ TypeOK'
  BY NextType DEF StormInv
<1>2. ASSUME NEW l \in Links, RouteRemote(l) \/ DropoffLocal(l)
      PROVE  StormInv'
  BY <1>1, <1>2, LinkEnds, RoutedRecord, RouteStorm
<1>3. ASSUME NEW m \in Msgs, SendMsg(m)
      PROVE  StormInv'
  <2> SUFFICES ASSUME NEW k \in Nodes, NEW i \in Msgs
               PROVE  IsFiniteSet(Copies(k, i))' /\ (Cardinality(Copies(k, i)) <= Allowed(k, i))'
    BY <1>1 DEF StormInv
  <2> DEFINE x == [nonce |-> m, chan |-> Chan[m], ts |-> clock[Origin[m]] + 1]
  <2>1. /\ m \notin sent /\ sent' = sent \cup {m} /\ UNCHANGED seen
        /\ outbox' = [outbox EXCEPT ![Origin[m]] = @ \cup Stamped(Origin[m], m, <<Chan[m]>>)]
    BY <1>3 DEF SendMsg, Enqueue
  <2>2. Stamped(Origin[m], m, <<Chan[m]>>) \subseteq {x}
    BY DEF Stamped
  <2>3. x.nonce = m
    OBVIOUS
  <2> HIDE DEF x
  <2>4. CASE k = Origin[m] /\ i = m
    <3>1. outbox'[k] \subseteq outbox[k] \cup {x}
      BY <1>1, <2>1, <2>2, <2>4 DEF TypeOK
    <3>2. Allowed(k, i)' = Allowed(k, i) + 1
      BY <2>1, <2>4 DEF Allowed
    <3> QED BY <3>1, <3>2, OneMoreCopy
  <2>5. CASE ~(k = Origin[m] /\ i = m)
    <3>1. Allowed(k, i)' = Allowed(k, i)
      BY <2>1, <2>5 DEF Allowed
    <3>2. /\ \A q \in outbox'[k] : q \in outbox[k] \/ q.nonce # i
          /\ \A q \in outbox[k] : q \in outbox'[k]
      BY <1>1, <2>1, <2>2, <2>3, <2>5 DEF TypeOK
    <3> QED BY <3>1, <3>2, OtherCopies
  <2> QED BY <2>4, <2>5
<1>4. ASSUME NEW n \in Nodes, Restart(n)
      PROVE  StormInv'
  <2> SUFFICES ASSUME NEW k \in Nodes, NEW m \in Msgs
               PROVE  IsFiniteSet(Copies(k, m))' /\ (Cardinality(Copies(k, m)) <= Allowed(k, m))'
    BY <1>1 DEF StormInv
  <2>1. /\ outbox' = [outbox EXCEPT ![n] = {}] /\ seen' = [seen EXCEPT ![n] = {}]
        /\ UNCHANGED sent
    BY <1>4 DEF Restart
  <2>2. CASE k = n
    <3>1. Copies(k, m)' = {}
      BY <1>1, <2>1, <2>2 DEF Copies, TypeOK
    <3>2. Allowed(k, m)' \in Nat
      BY DEF Allowed
    <3> QED BY <3>1, <3>2, FS_EmptySet
  <2>3. CASE k # n
    <3>1. outbox'[k] = outbox[k] /\ seen'[k] = seen[k]
      BY <1>1, <2>1, <2>3 DEF TypeOK
    <3>2. Allowed(k, m)' = Allowed(k, m)
      BY <2>1, <3>1 DEF Allowed
    <3> QED BY <3>1, <3>2, OtherCopies
  <2> QED BY <2>2, <2>3
<1>5. ASSUME \A n \in Nodes : outbox'[n] \subseteq outbox[n], UNCHANGED <<seen, sent>>
      PROVE  StormInv'
  <2> SUFFICES ASSUME NEW k \in Nodes, NEW m \in Msgs
               PROVE  IsFiniteSet(Copies(k, m))' /\ (Cardinality(Copies(k, m)) <= Allowed(k, m))'
    BY <1>1 DEF StormInv
  <2>1. Allowed(k, m) <= Allowed(k, m)'
    BY <1>5 DEF Allowed
  <2> QED BY <1>1, <1>5, <2>1, FewerCopies
<1>6. CASE \/ \E l \in Links : Step(l) /\ ~RouteRemote(l) /\ ~DropoffLocal(l)
           \/ \E l \in Links : Fail(l)
           \/ \E n \in Nodes : FlushOutbox(n)
           \/ UNCHANGED vars
  <2>1. \A n \in Nodes : outbox'[n] \subseteq outbox[n]
    BY <1>1, <1>6, Moves
  <2>2. UNCHANGED <<seen, sent>>
    BY <1>6 DEF Step, PollServer, PickupRemote, DropoffRemote, DropoffRefused, ReplyRemote, EndPoll,
                Fail, FlushOutbox, vars, nodeVars, history
  <2> QED BY <1>5, <2>1, <2>2
<1> QED BY <1>2, <1>3, <1>4, <1>6 DEF Next

\* In every network without patches a node keeps one copy of a message at most,
\* and its origin two, however often the message comes round.
THEOREM UnpatchedNoStorm == ASSUME Unpatched PROVE Spec => []NoStorm
<1>1. Init => StormInv
  <2> SUFFICES ASSUME Init PROVE StormInv
    OBVIOUS
  <2>1. \A n \in Nodes, m \in Msgs : Copies(n, m) = {}
    BY DEF Init, Copies
  <2>2. \A n \in Nodes, m \in Msgs : Allowed(n, m) \in Nat
    BY DEF Allowed
  <2> QED BY <2>1, <2>2, InitType, FS_EmptySet DEF StormInv
<1>2. StormInv /\ [Next]_vars => StormInv'
  BY NextStorm
<1>3. StormInv => NoStorm
  <2> SUFFICES ASSUME StormInv, NEW n \in Nodes, NEW m \in Msgs
               PROVE  Cardinality(Copies(n, m)) <= IF Origin[m] = n THEN 2 ELSE 1
    BY DEF NoStorm, Copies
  <2>1. IsFiniteSet(Copies(n, m)) /\ Cardinality(Copies(n, m)) <= Allowed(n, m)
    BY DEF StormInv
  <2>2. Cardinality(Copies(n, m)) \in Nat
    BY <2>1, FS_CardinalityType
  <2>3. Allowed(n, m) <= IF Origin[m] = n THEN 2 ELSE 1
    BY DEF Allowed
  <2>4. Allowed(n, m) \in Nat
    BY DEF Allowed
  <2> QED BY <2>1, <2>2, <2>3, <2>4
<1> QED BY <1>1, <1>2, <1>3, PTL DEF Spec

-----------------------------------------------------------------------------
(***************************************************************************)
(* The poll policy.                                                        *)
(***************************************************************************)
(***************************************************************************)
(* Its types.                                                              *)
(***************************************************************************)
\* The groups are a list of sets of peers, and not empty.
LEMMA GroupsType ==
    /\ Len(Groups) \in Nat /\ Len(Groups) >= 1
    /\ \A g \in 1..Len(Groups) : Groups[g] \subseteq Peers
  BY PollAssumption

\* The move to the next group stays in the list.
LEMMA NextGroupType ==
    ASSUME PollTypeOK, NEW t \in Loops, NextGroup(t)
    PROVE  /\ curGroupIndex' \in 1..Len(Groups)
           /\ fails' \in [Loops -> [Peers -> 0..RetryAttempts]]
<1>1. NoFails \in [Peers -> 0..RetryAttempts]
  BY PollAssumption DEF NoFails
<1>2. curGroupIndex \in 1..Len(Groups) /\ fails \in [Loops -> [Peers -> 0..RetryAttempts]]
  BY DEF PollTypeOK
<1>3. CASE curGroupIndex < Len(Groups) /\ curGroupIndex' = curGroupIndex + 1
           /\ fails' = [fails EXCEPT ![t] = NoFails]
  BY <1>1, <1>2, <1>3, GroupsType
<1>4. CASE curGroupIndex' = 1 /\ fails' = [fails EXCEPT ![t] = NoFails]
  BY <1>1, <1>2, <1>4, GroupsType
<1>5. CASE UNCHANGED <<curGroupIndex, fails>>
  BY <1>2, <1>5
<1> QED BY <1>3, <1>4, <1>5 DEF NextGroup

\* The counter of rounds stays below FlushEvery.
LEMMA CountedType ==
    ASSUME PollTypeOK, NEW t \in Loops
    PROVE  Counted(t) \in 0..FlushEvery - 1
<1>1. FlushEvery \in Nat \ {0} /\ counter[t] \in Nat
  BY PollAssumption DEF PollTypeOK
<1> QED BY <1>1 DEF Counted

LEMMA PollInitType == PollInit => PollTypeOK
<1> SUFFICES ASSUME PollInit PROVE PollTypeOK
  OBVIOUS
<1>1. 0 \in 0..FlushEvery - 1 /\ 0 \in 0..RetryAttempts /\ 0 \in 0..MaxRuns /\ 0 \in 0..MaxChanges
  BY PollAssumption
<1>2. curGroupIndex \in 1..Len(Groups)
  BY GroupsType DEF PollInit
<1>3. fails \in [Loops -> [Peers -> 0..RetryAttempts]] /\ counter \in [Loops -> 0..FlushEvery - 1]
  BY <1>1 DEF PollInit, NoFails
<1> QED BY <1>1, <1>2, <1>3 DEF PollInit, PollTypeOK

LEMMA PollNextType == PollTypeOK /\ [PollNext]_pollVars => PollTypeOK'
<1> SUFFICES ASSUME PollTypeOK, [PollNext]_pollVars PROVE PollTypeOK'
  OBVIOUS
<1> USE PollAssumption DEF env
<1>1. ASSUME NEW t \in Loops, RunPolicy(t)
      PROVE  PollTypeOK'
  BY <1>1 DEF RunPolicy, PollTypeOK
<1>2. ASSUME NEW t \in Loops, Check(t)
      PROVE  PollTypeOK'
  BY <1>2 DEF Check, PollTypeOK
<1>3. ASSUME NEW t \in Loops, SetRunning(t)
      PROVE  PollTypeOK'
  BY <1>3 DEF SetRunning, PollTypeOK, NoFails
<1>4. ASSUME NEW t \in Loops, Top(t)
      PROVE  PollTypeOK'
  BY <1>4, GroupsType DEF Top, PollTypeOK
<1>5. ASSUME NEW t \in Loops, NEW p \in Peers, Poll(t, p)
      PROVE  PollTypeOK'
  <2>1. fails[t] \in [Peers -> 0..RetryAttempts] /\ fails[t][p] < RetryAttempts
    BY <1>5 DEF Poll, PollTypeOK
  <2>2. [fails[t] EXCEPT ![p] = IF p \in up THEN 0 ELSE @ + 1] \in [Peers -> 0..RetryAttempts]
    BY <2>1
  <2>3. fails' \in [Loops -> [Peers -> 0..RetryAttempts]]
    BY <1>5, <2>2 DEF Poll, PollTypeOK
  <2>4. tries' \in [Loops -> BOOLEAN] /\ todo' \in [Loops -> SUBSET Peers]
    BY <1>5 DEF Poll, PollTypeOK
  <2> QED BY <1>5, <2>3, <2>4 DEF Poll, PollTypeOK
<1>6. ASSUME NEW t \in Loops, NEW p \in Peers, LeaveOut(t, p)
      PROVE  PollTypeOK'
  BY <1>6 DEF LeaveOut, PollTypeOK
<1>7. ASSUME NEW t \in Loops, EndRound(t)
      PROVE  PollTypeOK'
  <2>1. /\ curGroupIndex' \in 1..Len(Groups)
        /\ fails' \in [Loops -> [Peers -> 0..RetryAttempts]]
    BY <1>7, NextGroupType DEF EndRound, PollTypeOK
  <2>2. counter' \in [Loops -> 0..FlushEvery - 1] /\ pc' \in [Loops -> {"none", "spawned", "checked", "top", "round"}]
    BY <1>7, CountedType DEF EndRound, PollTypeOK
  <2> QED BY <1>7, <2>1, <2>2 DEF EndRound, PollTypeOK
<1>8. ASSUME Stop \/ StopWaited
      PROVE  PollTypeOK'
  BY <1>8 DEF Stop, StopWaited, PollTypeOK, loopVars
<1>9. ASSUME NEW p \in Peers, Change(p)
      PROVE  PollTypeOK'
  BY <1>9 DEF Change, PollTypeOK, loopVars
<1>10. CASE UNCHANGED pollVars
  BY <1>10 DEF pollVars, loopVars, PollTypeOK
<1> QED BY <1>1, <1>2, <1>3, <1>4, <1>5, <1>6, <1>7, <1>8, <1>9, <1>10 DEF PollNext, Loop

\* Every variable of the policy keeps its type, and the group index its range.
THEOREM PolicyTyped == PollSpec => []PollTypeOK
  BY PollInitType, PollNextType, PTL DEF PollSpec
==============================================================================
