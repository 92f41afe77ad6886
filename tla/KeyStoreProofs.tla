--------------------------- MODULE KeyStoreProofs ---------------------------
(***************************************************************************)
(* Proofs about KeyStore: when the cache of channel keys agrees with the   *)
(* table, when the router loses a message and when a profile keeps its     *)
(* key, for any number of callers, names, keys and calls.                  *)
(***************************************************************************)
EXTENDS KeyStore, SequenceTheorems, TLAPS

(***************************************************************************)
(* The inductive invariant.                                                *)
(***************************************************************************)
Ops == {"idle", "AddChannel", "Route", "AddProfile", "AddPeer"}

\* What a call between two statements remembers.
CallTyped(k) ==
    /\ k.op \in Ops
    /\ k.op = "AddChannel" => k \in [op : {"AddChannel"}, saw : {k.saw}, alone : BOOLEAN]
    /\ k.op = "Route" => k \in [op : {"Route"}, name : Names, changed : BOOLEAN]
    /\ k.op = "AddProfile" =>
         k \in [op : {"AddProfile"}, name : Names, saw : {k.saw}, changed : BOOLEAN]

CallsTyped ==
    /\ calls = [c \in Callers |-> calls[c]]
    /\ \A c \in Callers : CallTyped(calls[c])

KeysTyped ==
    /\ channels = [n \in Names |-> channels[n]]
    /\ channelKeys = [n \in Names |-> channelKeys[n]]
    /\ fresh \in BOOLEAN

\* A call of the maps holds the mutex until it is done.
MapsAreLocked == ~IsSql => \A c \in Callers : ~Adding(c)

\* Two AddChannels that overlap both know it.
OverlapsNoticed ==
    \A c, d \in Callers : c # d /\ Adding(c) /\ Adding(d) => ~calls[c].alone

\* What an AddChannel that is alone has read is still in the table, but for what
\* was deleted since.
ReadIsCurrent ==
    \A c \in Callers : Adding(c) /\ calls[c].alone /\ calls[c].saw # << >> =>
        \A n \in Names : channels[n] # None => calls[c].saw[n] = channels[n]

\* A channel that the router asked for is in the table until the call is told.
AskedIsThere ==
    \A c \in Callers : calls[c].op = "Route" /\ ~calls[c].changed =>
        channels[calls[c].name] # None

KeyInv ==
    /\ CallsTyped /\ KeysTyped
    /\ MapsAreLocked /\ OverlapsNoticed /\ ReadIsCurrent /\ AskedIsThere
    /\ CacheCoherent

-----------------------------------------------------------------------------
\* A step that has nothing to do with channels: calls that are about them go on
\* as they are, or, if they are the router's, end.
LEMMA OtherStep ==
    ASSUME KeyInv, UNCHANGED <<kind, channels, channelKeys, fresh>>, CallsTyped',
           \A c \in Callers : Adding(c) \/ calls'[c].op \in {"AddChannel", "Route"} =>
               calls'[c] = calls[c]
    PROVE  KeyInv'
<1>1. \A c \in Callers : /\ Adding(c)' <=> Adding(c)
                         /\ Adding(c) => calls'[c] = calls[c]
      BY DEF Adding
<1>2. KeysTyped'
      BY DEF KeyInv, KeysTyped
<1>3. MapsAreLocked' /\ OverlapsNoticed'
      BY <1>1 DEF KeyInv, MapsAreLocked, IsSql, OverlapsNoticed
<1>4. ReadIsCurrent'
      BY <1>1 DEF KeyInv, ReadIsCurrent
<1>5. AskedIsThere'
      BY DEF KeyInv, AskedIsThere
<1>6. CacheCoherent'
      BY <1>1 DEF KeyInv, CacheCoherent
<1> QED BY <1>2, <1>3, <1>4, <1>5, <1>6 DEF KeyInv

\* A step after which no call is under way and the cache is what the table holds,
\* or known not to be.
LEMMA ResetStep ==
    ASSUME KeyInv, calls' = [c \in Callers |-> Idle], channels' = channels,
           channelKeys' = [n \in Names |-> channelKeys'[n]], fresh' \in BOOLEAN,
           fresh' => channelKeys' = channels
    PROVE  KeyInv'
<1>1. \A c \in Callers : calls'[c].op = "idle" /\ ~Adding(c)'
      BY DEF Idle, Adding
<1>2. CallsTyped' /\ KeysTyped'
      BY <1>1 DEF KeyInv, CallsTyped, CallTyped, KeysTyped, Ops, Idle
<1> QED BY <1>1, <1>2 DEF KeyInv, MapsAreLocked, OverlapsNoticed, ReadIsCurrent, AskedIsThere,
                          CacheCoherent

\* A call that begins, or ends, and is not about channels.
LEMMA OneCall ==
    ASSUME KeyInv, UNCHANGED <<kind, channels, channelKeys, fresh>>, NEW c \in Callers, NEW k,
           calls' = [calls EXCEPT ![c] = k], ~Adding(c), CallTyped(k),
           k.op \notin {"AddChannel", "Route"}
    PROVE  KeyInv'
<1>1. calls' = [d \in Callers |-> IF d = c THEN k ELSE calls[d]]
      BY DEF KeyInv, CallsTyped
<1>2. \A d \in Callers : calls'[d] = IF d = c THEN k ELSE calls[d]
      BY <1>1
<1>3. CallsTyped'
  <2>1. calls' = [d \in Callers |-> calls'[d]]
        BY <1>1
  <2>2. \A d \in Callers : CallTyped(calls'[d])
        BY <1>2 DEF KeyInv, CallsTyped
  <2> QED BY <2>1, <2>2 DEF CallsTyped, CallTyped
<1>4. \A d \in Callers : Adding(d) \/ calls'[d].op \in {"AddChannel", "Route"} =>
          calls'[d] = calls[d]
      BY <1>2
<1> QED BY <1>3, <1>4, OtherStep

\* What a call becomes that is told of a change, and the calls when one of them has
\* ended.
Told(k) == [k EXCEPT !.changed = TRUE]
Ended(c) == [calls EXCEPT ![c] = Idle]

\* A call that is told of a change remembers what it did, but for that.
LEMMA NoticedCall ==
    ASSUME NEW k, CallTyped(k), k.op \in {"Route", "AddProfile"}
    PROVE  /\ CallTyped(Told(k)) /\ Told(k).op = k.op /\ Told(k).name = k.name
           /\ Told(k).changed = TRUE
           /\ k.op = "AddProfile" => Told(k).saw = k.saw
<1> DEFINE j == [k EXCEPT !.changed = TRUE]
<1>0. Told(k) = j
      BY DEF Told
<1>1. CASE k.op = "Route"
  <2>1. k \in [op : {"Route"}, name : Names, changed : BOOLEAN]
        BY <1>1 DEF CallTyped
  <2>2. j \in [op : {"Route"}, name : Names, changed : BOOLEAN]
        BY <2>1
  <2>3. j.op = "Route" /\ j.name = k.name /\ j.changed = TRUE
        BY <2>1
  <2> QED BY <1>0, <1>1, <2>2, <2>3 DEF CallTyped, Ops
<1>2. CASE k.op = "AddProfile"
  <2> DEFINE s == k.saw
  <2> HIDE DEF s
  <2>1. k \in [op : {"AddProfile"}, name : Names, saw : {s}, changed : BOOLEAN]
        BY <1>2 DEF CallTyped, s
  <2>2. j \in [op : {"AddProfile"}, name : Names, saw : {s}, changed : BOOLEAN]
        BY <2>1
  <2>3. j.op = "AddProfile" /\ j.name = k.name /\ j.saw = s /\ j.changed = TRUE
        BY <2>1
  <2> QED BY <1>0, <1>2, <2>2, <2>3 DEF CallTyped, Ops, s
<1> QED BY <1>1, <1>2

\* Whom a change concerns is told, and nobody else is disturbed.
LEMMA NoticedStep ==
    ASSUME CallsTyped, NEW op \in {"Route", "AddProfile"}, NEW n, calls' = Noticed(op, n, calls)
    PROVE  /\ CallsTyped'
           /\ \A c \in Callers :
                IF calls[c].op = op /\ calls[c].name = n
                  THEN /\ calls'[c].op = op /\ calls'[c].name = n /\ calls'[c].changed = TRUE
                       /\ op = "AddProfile" => calls'[c].saw = calls[c].saw
                  ELSE calls'[c] = calls[c]
<1>1. calls' = [c \in Callers |-> calls'[c]]
      BY DEF Noticed
<1>2. \A c \in Callers :
          calls'[c] = IF calls[c].op = op /\ calls[c].name = n
                        THEN Told(calls[c]) ELSE calls[c]
      BY DEF Noticed, Told
<1>3. ASSUME NEW c \in Callers
      PROVE  /\ CallTyped(calls'[c])
             /\ IF calls[c].op = op /\ calls[c].name = n
                  THEN /\ calls'[c].op = op /\ calls'[c].name = n /\ calls'[c].changed = TRUE
                       /\ op = "AddProfile" => calls'[c].saw = calls[c].saw
                  ELSE calls'[c] = calls[c]
  <2>1. CallTyped(calls[c])
        BY DEF CallsTyped
  <2>2. CASE calls[c].op = op /\ calls[c].name = n
    <3>1. calls'[c] = Told(calls[c])
          BY <1>2, <2>2
    <3> DEFINE k == calls[c]
    <3>2. CallTyped(k) /\ k.op \in {"Route", "AddProfile"} /\ k.op = op /\ k.name = n
          BY <2>1, <2>2
    <3> HIDE DEF k
    <3>3. /\ CallTyped(Told(k)) /\ Told(k).op = op /\ Told(k).name = n
          /\ Told(k).changed = TRUE /\ (op = "AddProfile" => Told(k).saw = k.saw)
          BY <3>2, NoticedCall
    <3> QED BY <2>2, <3>1, <3>3 DEF k
  <2>3. CASE ~(calls[c].op = op /\ calls[c].name = n)
        BY <1>2, <2>1, <2>3
  <2> QED BY <2>2, <2>3
<1>4. CallsTyped'
      BY <1>1, <1>3 DEF CallsTyped, CallTyped
<1> QED BY <1>3, <1>4

\* WriteProfile: its call ends, and those that read another key are told.
LEMMA ToldOfProfile ==
    ASSUME CallsTyped, NEW c \in Callers,
           calls' = Noticed("AddProfile", calls[c].name, Ended(c))
    PROVE  /\ CallsTyped'
           /\ calls'[c] = Idle
           /\ \A d \in Callers : d # c =>
                IF calls[d].op = "AddProfile" /\ calls[d].name = calls[c].name
                  THEN /\ calls'[d].op = "AddProfile" /\ calls'[d].name = calls[c].name
                       /\ calls'[d].changed = TRUE /\ calls'[d].saw = calls[d].saw
                  ELSE calls'[d] = calls[d]
<1> DEFINE cs == Ended(c)
<1>1. cs[c] = Idle /\ \A d \in Callers : d # c => cs[d] = calls[d]
      BY DEF CallsTyped, Ended
<1>2. CallTyped(Idle) /\ Idle.op = "idle"
      BY DEF CallTyped, Idle, Ops
<1>3. /\ calls' = [d \in Callers |-> calls'[d]]
      /\ \A d \in Callers :
           calls'[d] = IF cs[d].op = "AddProfile" /\ cs[d].name = calls[c].name
                         THEN Told(cs[d]) ELSE cs[d]
      BY DEF Noticed, Told
<1> HIDE DEF cs
<1>4. calls'[c] = Idle
      BY <1>1, <1>2, <1>3
<1>5. ASSUME NEW d \in Callers, d # c
      PROVE  /\ CallTyped(calls'[d])
             /\ IF calls[d].op = "AddProfile" /\ calls[d].name = calls[c].name
                  THEN /\ calls'[d].op = "AddProfile" /\ calls'[d].name = calls[c].name
                       /\ calls'[d].changed = TRUE /\ calls'[d].saw = calls[d].saw
                  ELSE calls'[d] = calls[d]
  <2>1. CallTyped(calls[d]) /\ cs[d] = calls[d]
        BY <1>1, <1>5 DEF CallsTyped
  <2>2. CASE calls[d].op = "AddProfile" /\ calls[d].name = calls[c].name
    <3>1. calls'[d] = Told(calls[d])
          BY <1>3, <2>1, <2>2
    <3>2. /\ CallTyped(calls'[d]) /\ calls'[d].op = "AddProfile"
          /\ calls'[d].name = calls[d].name
          /\ calls'[d].changed = TRUE /\ calls'[d].saw = calls[d].saw
      <4>1. calls[d].op \in {"Route", "AddProfile"}
            BY <2>2
      <4>2. /\ CallTyped(Told(calls[d])) /\ Told(calls[d]).op = calls[d].op
            /\ Told(calls[d]).name = calls[d].name /\ Told(calls[d]).changed = TRUE
            /\ calls[d].op = "AddProfile" => Told(calls[d]).saw = calls[d].saw
            BY <2>1, <4>1, NoticedCall
      <4> QED BY <2>2, <3>1, <4>2
    <3> QED BY <2>2, <3>2
  <2>3. CASE ~(calls[d].op = "AddProfile" /\ calls[d].name = calls[c].name)
        BY <1>3, <2>1, <2>3
  <2> QED BY <2>2, <2>3
<1>6. CallsTyped'
  <2>1. \A d \in Callers : CallTyped(calls'[d])
        BY <1>2, <1>4, <1>5
  <2> QED BY <1>3, <2>1 DEF CallsTyped, CallTyped
<1> QED BY <1>4, <1>5, <1>6

-----------------------------------------------------------------------------
\* AddChannel in the maps: the cache is the map.
LEMMA AddToMap ==
    ASSUME KeyInv, NEW n \in Names, NEW k \in ChannelKeys \cup {Bad},
           channels' = [channels EXCEPT ![n] = k],
           channelKeys' = [channelKeys EXCEPT ![n] = k],
           UNCHANGED <<kind, calls, fresh>>, ~IsSql
    PROVE  KeyInv'
<1>1. k # None
      BY KeyStoreAssumption
<1>2. \A m \in Names : /\ channels'[m] = IF m = n THEN k ELSE channels[m]
                       /\ channelKeys'[m] = IF m = n THEN k ELSE channelKeys[m]
      BY DEF KeyInv, KeysTyped
<1>3. KeysTyped'
      BY DEF KeyInv, KeysTyped
<1>4. CallsTyped' /\ MapsAreLocked' /\ OverlapsNoticed' /\ ReadIsCurrent'
      BY DEF KeyInv, CallsTyped, CallTyped, MapsAreLocked, IsSql, OverlapsNoticed,
             ReadIsCurrent, Adding
<1>5. AskedIsThere'
  <2>1. \A c \in Callers : calls[c].op = "Route" => calls[c].name \in Names
        BY DEF KeyInv, CallsTyped, CallTyped
  <2> QED BY <1>1, <1>2, <2>1 DEF KeyInv, AskedIsThere
<1>6. CacheCoherent'
      BY <1>2 DEF KeyInv, CacheCoherent, Adding
<1> QED BY <1>3, <1>4, <1>5, <1>6 DEF KeyInv

\* AddChannel in the tables: whoever else is adding a channel learns that it is
\* not alone.
LEMMA AddToTable ==
    ASSUME KeyInv, NEW c \in Callers, NEW n \in Names, NEW k \in ChannelKeys \cup {Bad},
           calls[c] = Idle, channels' = [channels EXCEPT ![n] = k],
           UNCHANGED <<kind, channelKeys, fresh>>, IsSql,
           calls' = [d \in Callers |->
                IF d = c THEN [op |-> "AddChannel", saw |-> << >>,
                               alone |-> \A e \in Callers : ~Adding(e)]
                ELSE IF Adding(d) THEN [calls[d] EXCEPT !.alone = FALSE] ELSE calls[d]]
    PROVE  KeyInv'
<1>1. k # None
      BY KeyStoreAssumption
<1>2. \A m \in Names : channels'[m] = IF m = n THEN k ELSE channels[m]
      BY DEF KeyInv, KeysTyped
<1>3. KeysTyped'
      BY DEF KeyInv, KeysTyped
<1> DEFINE a == \A e \in Callers : ~Adding(e)
<1>4. /\ calls'[c].op = "AddChannel" /\ calls'[c].saw = << >>
      /\ calls'[c].alone <=> a
      /\ CallTyped(calls'[c])
  <2> HIDE DEF a
  <2>1. calls'[c] = [op |-> "AddChannel", saw |-> << >>, alone |-> a]
        BY DEF a
  <2>2. a \in BOOLEAN
        BY DEF a
  <2>3. calls'[c] \in [op : {"AddChannel"}, saw : {<< >>}, alone : BOOLEAN]
        BY <2>1, <2>2
  <2> QED BY <2>1, <2>3 DEF CallTyped, Ops
<1>5. ASSUME NEW d \in Callers, d # c, Adding(d)
      PROVE  /\ calls'[d].op = "AddChannel" /\ ~calls'[d].alone
             /\ CallTyped(calls'[d])
  <2> DEFINE s == calls[d].saw
  <2> HIDE DEF s
  <2>1. calls'[d] = [calls[d] EXCEPT !.alone = FALSE]
        BY <1>5
  <2>2. calls[d] \in [op : {"AddChannel"}, saw : {s}, alone : BOOLEAN]
        BY <1>5 DEF KeyInv, CallsTyped, CallTyped, Adding, s
  <2>3. calls'[d] \in [op : {"AddChannel"}, saw : {s}, alone : BOOLEAN]
        BY <2>1, <2>2
  <2>4. calls'[d].op = "AddChannel" /\ calls'[d].saw = s /\ calls'[d].alone = FALSE
        BY <2>1, <2>2
  <2> QED BY <2>3, <2>4 DEF CallTyped, Ops
<1>6. ASSUME NEW d \in Callers, d # c, ~Adding(d)
      PROVE  calls'[d] = calls[d] /\ CallTyped(calls'[d])
      BY <1>6 DEF KeyInv, CallsTyped
<1>7. CallsTyped'
  <2>1. calls' = [d \in Callers |-> calls'[d]]
        OBVIOUS
  <2>2. \A d \in Callers : CallTyped(calls'[d])
        BY <1>4, <1>5, <1>6
  <2> QED BY <2>1, <2>2 DEF CallsTyped, CallTyped
<1>8. \A d \in Callers : d # c => (Adding(d)' <=> Adding(d))
      BY <1>5, <1>6 DEF Adding
<1>9. MapsAreLocked' /\ OverlapsNoticed'
      BY <1>4, <1>5, <1>8 DEF MapsAreLocked, IsSql, OverlapsNoticed
<1>10. ReadIsCurrent'
      BY <1>4, <1>5, <1>8 DEF ReadIsCurrent
<1>11. AskedIsThere'
  <2> SUFFICES ASSUME NEW d \in Callers, calls'[d].op = "Route", ~calls'[d].changed
               PROVE  channels'[calls'[d].name] # None
      BY DEF AskedIsThere
  <2>1. calls'[d] = calls[d]
        BY <1>4, <1>5, <1>6
  <2>2. calls[d].name \in Names
        BY <2>1 DEF KeyInv, CallsTyped, CallTyped
  <2> QED BY <1>1, <1>2, <2>1, <2>2 DEF KeyInv, AskedIsThere
<1>12. CacheCoherent'
      BY <1>4 DEF CacheCoherent, Adding
<1> QED BY <1>3, <1>7, <1>9, <1>10, <1>11, <1>12 DEF KeyInv

\* An AddChannel that ends: the cache is what the table holds, or nothing is said
\* of it.
LEMMA EndAdding ==
    ASSUME KeyInv, NEW c \in Callers, Adding(c), UNCHANGED <<kind, channels>>,
           calls' = [calls EXCEPT ![c] = Idle],
           channelKeys' = [n \in Names |-> channelKeys'[n]], fresh' \in BOOLEAN,
           fresh' => \A n \in Names : channels[n] # None => channelKeys'[n] = channels[n]
    PROVE  KeyInv'
<1>1. calls' = [d \in Callers |-> IF d = c THEN Idle ELSE calls[d]]
      BY DEF KeyInv, CallsTyped
<1>2. \A d \in Callers : calls'[d] = IF d = c THEN Idle ELSE calls[d]
      BY <1>1
<1>3. Idle.op = "idle" /\ CallTyped(Idle)
      BY DEF Idle, CallTyped, Ops
<1>4. CallsTyped'
  <2>1. calls' = [d \in Callers |-> calls'[d]]
        BY <1>1
  <2>2. \A d \in Callers : CallTyped(calls'[d])
        BY <1>2, <1>3 DEF KeyInv, CallsTyped
  <2> QED BY <2>1, <2>2 DEF CallsTyped, CallTyped
<1>5. \A d \in Callers : Adding(d)' => d # c /\ Adding(d) /\ calls'[d] = calls[d]
      BY <1>2, <1>3 DEF Adding
<1>6. KeysTyped' /\ MapsAreLocked' /\ OverlapsNoticed'
      BY <1>5 DEF KeyInv, KeysTyped, MapsAreLocked, IsSql, OverlapsNoticed
<1>7. ReadIsCurrent'
      BY <1>5 DEF KeyInv, ReadIsCurrent
<1>8. AskedIsThere' /\ CacheCoherent'
      BY <1>2, <1>3 DEF KeyInv, AskedIsThere, CacheCoherent
<1> QED BY <1>4, <1>6, <1>7, <1>8 DEF KeyInv

\* The first read of refreshChannels: alone or not, what it sees is the table.
LEMMA RefreshReadStep ==
    ASSUME KeyInv, NEW c \in Callers, RefreshRead(c)
    PROVE  KeyInv'
<1>1. Adding(c) /\ UNCHANGED <<kind, channels, channelKeys>>
      BY DEF RefreshRead
<1>2. CASE Readable(channels)
  <2> DEFINE k == [calls[c] EXCEPT !.saw = channels]
  <2>1. fresh' = fresh /\ calls' = [calls EXCEPT ![c] = k]
        BY <1>2 DEF RefreshRead
  <2>2. /\ k.op = "AddChannel" /\ k.saw = channels /\ k.alone = calls[c].alone
        /\ CallTyped(k)
    <3> DEFINE s == calls[c].saw
    <3> HIDE DEF s
    <3>1. calls[c] \in [op : {"AddChannel"}, saw : {s}, alone : BOOLEAN]
          BY <1>1 DEF KeyInv, CallsTyped, CallTyped, Adding, s
    <3>2. k \in [op : {"AddChannel"}, saw : {channels}, alone : BOOLEAN]
          BY <3>1
    <3>3. k.op = "AddChannel" /\ k.saw = channels /\ k.alone = calls[c].alone
          BY <3>1
    <3> HIDE DEF k
    <3> QED BY <3>2, <3>3 DEF CallTyped, Ops
  <2> HIDE DEF k
  <2>3. calls' = [d \in Callers |-> IF d = c THEN k ELSE calls[d]]
        BY <2>1 DEF KeyInv, CallsTyped
  <2>4. \A d \in Callers : calls'[d] = IF d = c THEN k ELSE calls[d]
        BY <2>3
  <2>5. CallsTyped'
    <3>1. calls' = [d \in Callers |-> calls'[d]]
          BY <2>3
    <3>2. \A d \in Callers : CallTyped(calls'[d])
          BY <2>2, <2>4 DEF KeyInv, CallsTyped
    <3> QED BY <3>1, <3>2 DEF CallsTyped, CallTyped
  <2>6. \A d \in Callers : Adding(d)' <=> Adding(d)
        BY <1>1, <2>2, <2>4 DEF Adding
  <2>7. KeysTyped' /\ MapsAreLocked'
        BY <1>1, <2>1, <2>6 DEF KeyInv, KeysTyped, MapsAreLocked, IsSql
  <2>8. OverlapsNoticed'
        BY <2>2, <2>4, <2>6 DEF KeyInv, OverlapsNoticed
  <2>9. ReadIsCurrent'
        BY <1>1, <2>2, <2>4, <2>6 DEF KeyInv, ReadIsCurrent
  <2>10. AskedIsThere'
        BY <1>1, <2>2, <2>4 DEF KeyInv, AskedIsThere
  <2>11. CacheCoherent'
        BY <1>1, <2>6 DEF CacheCoherent
  <2> QED BY <2>5, <2>7, <2>8, <2>9, <2>10, <2>11 DEF KeyInv
<1>3. CASE ~Readable(channels)
  <2>1. fresh' = FALSE /\ calls' = [calls EXCEPT ![c] = Idle]
        BY <1>3 DEF RefreshRead
  <2>2. channelKeys' = [n \in Names |-> channelKeys'[n]]
        BY <1>1 DEF KeyInv, KeysTyped
  <2> QED BY <1>1, <2>1, <2>2, EndAdding
<1> QED BY <1>2, <1>3

\* Deleting a channel tells the router's calls that asked for it.
LEMMA DeleteChannelStep ==
    ASSUME KeyInv, NEW n \in Names, DeleteChannel(n)
    PROVE  KeyInv'
<1>1. /\ channels' = [channels EXCEPT ![n] = None]
      /\ channelKeys' = IF IsSql THEN channelKeys ELSE [channelKeys EXCEPT ![n] = None]
      /\ fresh' = fresh /\ kind' = kind
      /\ calls' = Noticed("Route", n, calls)
      BY DEF DeleteChannel, SetChannel
<1>2. /\ CallsTyped'
      /\ \A c \in Callers :
           IF calls[c].op = "Route" /\ calls[c].name = n
             THEN calls'[c].op = "Route" /\ calls'[c].name = n /\ calls'[c].changed = TRUE
             ELSE calls'[c] = calls[c]
      BY <1>1, NoticedStep DEF KeyInv
<1>3. \A m \in Names : /\ channels'[m] = IF m = n THEN None ELSE channels[m]
                       /\ m # n => channelKeys'[m] = channelKeys[m]
      BY <1>1 DEF KeyInv, KeysTyped
<1>4. KeysTyped'
      BY <1>1 DEF KeyInv, KeysTyped
<1>5. \A c \in Callers : /\ Adding(c)' <=> Adding(c)
                         /\ Adding(c) => calls'[c] = calls[c]
      BY <1>2 DEF Adding
<1>6. MapsAreLocked' /\ OverlapsNoticed'
      BY <1>1, <1>5 DEF KeyInv, MapsAreLocked, IsSql, OverlapsNoticed
<1>7. ReadIsCurrent'
      BY <1>3, <1>5 DEF KeyInv, ReadIsCurrent
<1>8. AskedIsThere'
  <2> SUFFICES ASSUME NEW c \in Callers, calls'[c].op = "Route", ~calls'[c].changed
               PROVE  channels'[calls'[c].name] # None
      BY DEF AskedIsThere
  <2>1. calls'[c] = calls[c] /\ calls[c].name # n
        BY <1>2
  <2>2. calls[c].name \in Names
        BY <2>1 DEF KeyInv, CallsTyped, CallTyped
  <2> QED BY <1>3, <2>1, <2>2 DEF KeyInv, AskedIsThere
<1>9. CacheCoherent'
      BY <1>1, <1>3, <1>5 DEF KeyInv, CacheCoherent
<1> QED BY <1>2, <1>4, <1>6, <1>7, <1>8, <1>9 DEF KeyInv

\* The second half of refreshChannels: an AddChannel that was alone writes what is
\* in the table.
LEMMA RefreshWriteStep ==
    ASSUME KeyInv, NEW c \in Callers, RefreshWrite(c)
    PROVE  KeyInv'
<1>1. /\ Adding(c) /\ calls[c].saw # << >> /\ UNCHANGED <<kind, channels>>
      /\ channelKeys' = Refreshed(calls[c].saw)
      /\ fresh' = calls[c].alone
      /\ calls' = [calls EXCEPT ![c] = Idle]
      BY DEF RefreshWrite
<1>2. channelKeys' = [n \in Names |-> channelKeys'[n]]
      BY <1>1 DEF Refreshed
<1>3. fresh' \in BOOLEAN
  <2> DEFINE s == calls[c].saw
  <2> HIDE DEF s
  <2>1. calls[c] \in [op : {"AddChannel"}, saw : {s}, alone : BOOLEAN]
        BY <1>1 DEF KeyInv, CallsTyped, CallTyped, Adding, s
  <2> QED BY <1>1, <2>1
<1>4. ASSUME calls[c].alone, NEW n \in Names, channels[n] # None
      PROVE  channelKeys'[n] = channels[n]
  <2>1. calls[c].saw[n] = channels[n]
        BY <1>1, <1>4 DEF KeyInv, ReadIsCurrent
  <2> QED BY <1>1, <1>4, <2>1 DEF Refreshed
<1> QED BY <1>1, <1>2, <1>3, <1>4, EndAdding

\* The router's question whether it knows the channel.
LEMMA RouteStep ==
    ASSUME KeyInv, NEW c \in Callers, NEW n \in Names, Route(c, n)
    PROVE  KeyInv'
<1> DEFINE k == [op |-> "Route", name |-> n, changed |-> FALSE]
<1>1. /\ calls' = [calls EXCEPT ![c] = k] /\ UNCHANGED <<kind, channels, channelKeys, fresh>>
      /\ channels[n] # None /\ ~Adding(c)
      BY KeyStoreAssumption DEF Route, Adding, Idle
<1>2. CallTyped(k) /\ k.op = "Route" /\ k.name = n /\ k.changed = FALSE
      BY DEF CallTyped, Ops
<1> HIDE DEF k
<1>3. calls' = [d \in Callers |-> IF d = c THEN k ELSE calls[d]]
      BY <1>1 DEF KeyInv, CallsTyped
<1>4. \A d \in Callers : calls'[d] = IF d = c THEN k ELSE calls[d]
      BY <1>3
<1>5. CallsTyped'
  <2>1. calls' = [d \in Callers |-> calls'[d]]
        BY <1>3
  <2>2. \A d \in Callers : CallTyped(calls'[d])
        BY <1>2, <1>4 DEF KeyInv, CallsTyped
  <2> QED BY <2>1, <2>2 DEF CallsTyped, CallTyped
<1>6. \A d \in Callers : /\ Adding(d)' <=> Adding(d)
                         /\ Adding(d) => calls'[d] = calls[d]
      BY <1>1, <1>2, <1>4 DEF Adding
<1>7. KeysTyped' /\ MapsAreLocked' /\ OverlapsNoticed'
      BY <1>1, <1>6 DEF KeyInv, KeysTyped, MapsAreLocked, IsSql, OverlapsNoticed
<1>8. ReadIsCurrent' /\ CacheCoherent'
      BY <1>1, <1>6 DEF KeyInv, ReadIsCurrent, CacheCoherent
<1>9. AskedIsThere'
      BY <1>1, <1>2, <1>4 DEF KeyInv, AskedIsThere
<1> QED BY <1>5, <1>7, <1>8, <1>9 DEF KeyInv

\* Every step of the specification keeps the invariant.
LEMMA KeyStep == KeyInv /\ [Next]_vars => KeyInv'
<1> SUFFICES ASSUME KeyInv, [Next]_vars PROVE KeyInv'
    OBVIOUS
<1>0. ASSUME UNCHANGED <<kind, channels, channelKeys, fresh, calls>> PROVE KeyInv'
  <2>1. CallsTyped'
        BY <1>0 DEF KeyInv, CallsTyped, CallTyped
  <2> QED BY <1>0, <2>1, OtherStep
<1>1. ASSUME NEW n \in Names, NEW k \in ChannelKeys \cup {Bad}, AddContact(n, k) PROVE KeyInv'
      BY <1>0, <1>1 DEF AddContact
<1>2. ASSUME NEW n \in Names, DeleteContact(n) PROVE KeyInv'
      BY <1>0, <1>2 DEF DeleteContact
<1>3. ASSUME NEW n \in Names, DeleteChannel(n) PROVE KeyInv'
      BY <1>3, DeleteChannelStep
<1>4. ASSUME NEW n \in Names, DeleteProfile(n) PROVE KeyInv'
  <2>1. UNCHANGED <<kind, channels, channelKeys, fresh>> /\ calls' = Noticed("AddProfile", n, calls)
        BY <1>4 DEF DeleteProfile
  <2>2. /\ CallsTyped'
        /\ \A c \in Callers :
             IF calls[c].op = "AddProfile" /\ calls[c].name = n
               THEN calls'[c].op = "AddProfile" ELSE calls'[c] = calls[c]
        BY <2>1, NoticedStep DEF KeyInv
  <2>3. \A c \in Callers : Adding(c) \/ calls'[c].op \in {"AddChannel", "Route"} =>
            calls'[c] = calls[c]
        BY <2>2 DEF Adding
  <2> QED BY <2>1, <2>2, <2>3, OtherStep
<1>5. ASSUME NEW n \in Names, LoadProfile(n) PROVE KeyInv'
      BY <1>0, <1>5 DEF LoadProfile
<1>6. ASSUME NEW n \in Names, DeletePeer(n) PROVE KeyInv'
      BY <1>0, <1>6 DEF DeletePeer
<1>7. ASSUME NEW c \in Callers, NEW n \in Names, NEW k \in ChannelKeys \cup {Bad},
             AddChannel(c, n, k)
      PROVE  KeyInv'
  <2>1. CASE IsSql
        BY <1>7, <2>1, AddToTable DEF AddChannel, SetChannel
  <2>2. CASE ~IsSql
        BY <1>7, <2>2, AddToMap DEF AddChannel, SetChannel
  <2> QED BY <2>1, <2>2
<1>8. ASSUME NEW c \in Callers, NEW n \in Names, Route(c, n) PROVE KeyInv'
      BY <1>8, RouteStep
<1>9. ASSUME NEW c \in Callers, NEW n \in Names, AddProfile(c, n) PROVE KeyInv'
  <2>1. UNCHANGED <<kind, channels, channelKeys, fresh>> /\ calls[c] = Idle
        BY <1>9 DEF AddProfile
  <2>2. CASE IsSql
    <3> DEFINE s == FirstKey(profiles[n])
               k == [op |-> "AddProfile", name |-> n, saw |-> s, changed |-> FALSE]
    <3>1. calls' = [calls EXCEPT ![c] = k]
          BY <1>9, <2>2 DEF AddProfile
    <3> HIDE DEF s
    <3>2. CallTyped(k) /\ k.op = "AddProfile"
          BY DEF CallTyped, Ops
    <3>3. ~Adding(c)
          BY <2>1 DEF Adding, Idle
    <3> HIDE DEF k
    <3> QED BY <2>1, <3>1, <3>2, <3>3, OneCall
  <2>3. CASE ~IsSql
        BY <1>0, <1>9, <2>1, <2>3 DEF AddProfile
  <2> QED BY <2>2, <2>3
<1>10. ASSUME NEW c \in Callers, NEW n \in Names, NEW g \in Groups, AddPeer(c, n, g)
       PROVE  KeyInv'
  <2>1. UNCHANGED <<kind, channels, channelKeys, fresh>> /\ calls[c] = Idle
        BY <1>10 DEF AddPeer
  <2>2. CASE IsSql
    <3> DEFINE s == Contains(peers[n], g)
               k == [op |-> "AddPeer", name |-> n, group |-> g, saw |-> s]
    <3>1. calls' = [calls EXCEPT ![c] = k]
          BY <1>10, <2>2 DEF AddPeer
    <3> HIDE DEF s
    <3>2. CallTyped(k) /\ k.op = "AddPeer"
          BY DEF CallTyped, Ops
    <3>3. ~Adding(c)
          BY <2>1 DEF Adding, Idle
    <3> HIDE DEF k
    <3> QED BY <2>1, <3>1, <3>2, <3>3, OneCall
  <2>3. CASE ~IsSql
        BY <1>0, <1>10, <2>1, <2>3 DEF AddPeer
  <2> QED BY <2>2, <2>3
<1>11. ASSUME NEW c \in Callers, RefreshRead(c) PROVE KeyInv'
       BY <1>11, RefreshReadStep
<1>12. ASSUME NEW c \in Callers, RefreshWrite(c) PROVE KeyInv'
       BY <1>12, RefreshWriteStep
<1>13. CallTyped(Idle) /\ Idle.op = "idle"
       BY DEF CallTyped, Idle, Ops
<1>14. ASSUME NEW c \in Callers, RouteHandle(c) PROVE KeyInv'
  <2>1. ~Adding(c)
        BY <1>14 DEF RouteHandle, Adding
  <2> QED BY <1>13, <1>14, <2>1, OneCall DEF RouteHandle
<1>15. ASSUME NEW c \in Callers, WriteProfile(c) PROVE KeyInv'
  <2>1. ~Adding(c) /\ UNCHANGED <<kind, channels, channelKeys, fresh>>
        BY <1>15 DEF WriteProfile, Adding
  <2>2. CASE calls' = Ended(c)
        BY <1>13, <2>1, <2>2, OneCall DEF Ended
  <2>3. CASE calls' = Noticed("AddProfile", calls[c].name, Ended(c))
    <3>1. CallsTyped
          BY DEF KeyInv
    <3>2. /\ CallsTyped' /\ calls'[c] = Idle
          /\ \A d \in Callers : d # c => \/ calls'[d].op = "AddProfile" /\ ~Adding(d)
                                         \/ calls'[d] = calls[d]
          BY <2>3, <3>1, ToldOfProfile DEF Adding
    <3>3. \A d \in Callers : Adding(d) \/ calls'[d].op \in {"AddChannel", "Route"} =>
              calls'[d] = calls[d]
          BY <1>13, <2>1, <3>2
    <3> QED BY <2>1, <3>2, <3>3, OtherStep
  <2>4. \/ calls' = Ended(c)
        \/ calls' = Noticed("AddProfile", calls[c].name, Ended(c))
    <3> DEFINE n == calls[c].name
               same == FirstKey(profiles'[n]) = FirstKey(profiles[n])
    <3>1. calls' = IF same THEN Ended(c) ELSE Noticed("AddProfile", calls[c].name, Ended(c))
          BY <1>15 DEF WriteProfile, Ended
    <3> HIDE DEF same
    <3> QED BY <3>1
  <2> QED BY <2>2, <2>3, <2>4
<1>16. ASSUME NEW c \in Callers, WritePeer(c) PROVE KeyInv'
  <2>1. ~Adding(c)
        BY <1>16 DEF WritePeer, Adding
  <2> QED BY <1>13, <1>16, <2>1, OneCall DEF WritePeer
<1>17. CASE Restart
  <2>1. channelKeys' = [n \in Names |-> channelKeys'[n]]
        BY <1>17 DEF Restart, KeyInv, KeysTyped
  <2>2. fresh' \in BOOLEAN /\ (fresh' => channelKeys' = channels)
        BY <1>17 DEF Restart, Readable
  <2> QED BY <1>17, <2>1, <2>2, ResetStep DEF Restart
<1>18. CASE StartAgain
       BY <1>0, <1>18 DEF StartAgain
<1>19. CASE UNCHANGED vars
       BY <1>0, <1>19 DEF vars
<1> QED BY <1>1, <1>2, <1>3, <1>4, <1>5, <1>6, <1>7, <1>8, <1>9, <1>10, <1>11, <1>12, <1>14,
           <1>15, <1>16, <1>17, <1>18, <1>19 DEF Next

\* The invariant holds from the start.
LEMMA KeyInit == Init => KeyInv
<1> SUFFICES ASSUME Init PROVE KeyInv
    OBVIOUS
<1>1. \A c \in Callers : calls[c].op = "idle" /\ ~Adding(c) /\ CallTyped(calls[c])
      BY DEF Init, Idle, Adding, CallTyped, Ops
<1>2. CallsTyped
      BY <1>1 DEF Init, CallsTyped
<1>3. KeysTyped
      BY DEF Init, KeysTyped
<1> QED BY <1>1, <1>2, <1>3 DEF Init, KeyInv, MapsAreLocked, OverlapsNoticed, ReadIsCurrent,
                                AskedIsThere, CacheCoherent

\* KeyInv is an invariant.
LEMMA KeyInvariant == Spec => []KeyInv
BY KeyInit, KeyStep, PTL DEF Spec

\* Once no AddChannel is under way the cache holds the key of every channel in the
\* table, unless AddChannels overlapped or a row was no key.
THEOREM CacheIsCoherent == Spec => []CacheCoherent
<1>1. KeyInv => CacheCoherent
      BY DEF KeyInv
<1> QED BY <1>1, KeyInvariant, PTL

\* The router swallows a message for a channel it knows only in a race with a
\* change, or when the cache was not reloaded.
THEOREM RouterLosesOnlyOnChange == Spec => RouteLosesOnlyOnChange
<1> DEFINE LossExcused ==
      \A c \in Callers : RouteHandle(c) /\ Swallows(c) =>
          calls[c].changed \/ ~fresh \/ \E d \in Callers : Adding(d)
<1>1. KeyInv => LossExcused
  <2> SUFFICES ASSUME KeyInv, NEW c \in Callers, Swallows(c), ~calls[c].changed, fresh,
                      \A d \in Callers : ~Adding(d)
               PROVE  FALSE
      OBVIOUS
  <2>1. calls[c].op = "Route" /\ calls[c].name \in Names
        BY DEF Swallows, KeyInv, CallsTyped, CallTyped
  <2>2. channels[calls[c].name] # None
        BY <2>1 DEF KeyInv, AskedIsThere
  <2>3. channelKeys[calls[c].name] = channels[calls[c].name]
        BY <2>1, <2>2 DEF KeyInv, CacheCoherent
  <2> QED BY <2>2, <2>3 DEF Swallows
<1>2. KeyInv => [LossExcused]_vars
      BY <1>1
<1> QED BY <1>2, KeyInvariant, PTL DEF RouteLosesOnlyOnChange

-----------------------------------------------------------------------------
(***************************************************************************)
(* The tables of profiles and peers.  A call that adds a profile and was   *)
(* told of no change has read the key that the profile has; the maps have  *)
(* one row of a peer.                                                      *)
(***************************************************************************)
ProfileReadIsCurrent ==
    IsSql => \A c \in Callers : calls[c].op = "AddProfile" /\ ~calls[c].changed =>
                 calls[c].saw = FirstKey(profiles[calls[c].name])

ReadsTyped ==
    \A c \in Callers :
        /\ calls[c].op = "AddProfile" => calls[c].saw \in Nat \cup {None}
        /\ calls[c].op = "AddPeer" =>
              IsSql /\ calls[c].name \in Names /\ calls[c].group \in Groups

TablesTyped ==
    /\ kind \in {"ram", "fs", "db", "ql"} /\ keysMade \in Nat
    /\ profiles \in [Names -> Seq(Nat)]
    /\ peers \in [Names -> Seq(Groups)]

OneRowInMaps == kind = "ram" => \A n \in Names : Len(peers[n]) <= 1

TablesInv == TablesTyped /\ ReadsTyped /\ ProfileReadIsCurrent /\ OneRowInMaps

\* A query finds nothing, or the key of a row.
LEMMA FirstKeyTyped ==
    ASSUME NEW rows \in Seq(Nat)
    PROVE  FirstKey(rows) \in Nat \cup {None}
BY DEF FirstKey

\* A step that leaves the tables alone, and starts no call that adds to them.
LEMMA OtherTables ==
    ASSUME TablesInv, UNCHANGED <<kind, profiles, peers>>, keysMade' \in Nat,
           \A c \in Callers : calls'[c].op \in {"AddProfile", "AddPeer"} => calls'[c] = calls[c]
    PROVE  TablesInv'
<1>1. TablesTyped' /\ OneRowInMaps'
      BY DEF TablesInv, TablesTyped, OneRowInMaps
<1>2. ReadsTyped'
      BY DEF TablesInv, ReadsTyped, IsSql
<1>3. ProfileReadIsCurrent'
      BY DEF TablesInv, ProfileReadIsCurrent, IsSql
<1> QED BY <1>1, <1>2, <1>3 DEF TablesInv

\* The same, of a step in which one call begins or ends.
LEMMA OtherCall ==
    ASSUME KeyInv, TablesInv, UNCHANGED <<kind, profiles, peers>>, keysMade' \in Nat,
           NEW c \in Callers, NEW k, calls' = [calls EXCEPT ![c] = k],
           k.op \notin {"AddProfile", "AddPeer"}
    PROVE  TablesInv'
<1>1. \A d \in Callers : calls'[d] = IF d = c THEN k ELSE calls[d]
      BY DEF KeyInv, CallsTyped
<1>2. \A d \in Callers : calls'[d].op \in {"AddProfile", "AddPeer"} => calls'[d] = calls[d]
      BY <1>1
<1> QED BY <1>2, OtherTables

\* A table is asked for the name, and the answer kept.
LEMMA AskingCall ==
    ASSUME KeyInv, TablesInv, UNCHANGED <<kind, profiles, peers>>, keysMade' \in Nat,
           NEW c \in Callers, NEW k, calls' = [calls EXCEPT ![c] = k],
           k.op = "AddProfile" => /\ k.name \in Names
                                  /\ k.saw = FirstKey(profiles[k.name]),
           k.op = "AddPeer" => IsSql /\ k.name \in Names /\ k.group \in Groups
    PROVE  TablesInv'
<1>1. \A d \in Callers : calls'[d] = IF d = c THEN k ELSE calls[d]
      BY DEF KeyInv, CallsTyped
<1>2. TablesTyped' /\ OneRowInMaps'
      BY DEF TablesInv, TablesTyped, OneRowInMaps
<1>3. k.op = "AddProfile" => k.saw \in Nat \cup {None}
      BY FirstKeyTyped DEF TablesInv, TablesTyped
<1>4. ReadsTyped'
      BY <1>1, <1>3 DEF TablesInv, ReadsTyped, IsSql
<1>5. ProfileReadIsCurrent'
      BY <1>1 DEF TablesInv, ProfileReadIsCurrent, IsSql
<1> QED BY <1>2, <1>4, <1>5 DEF TablesInv

\* The calls that read the rows of a name are told if the first of them changes.
Informed(n, rows) ==
    \A c \in Callers :
        /\ calls'[c].op = "AddPeer" => calls'[c] = calls[c]
        /\ calls'[c].op = "AddProfile" =>
               /\ calls[c].op = "AddProfile" /\ calls'[c].name = calls[c].name
               /\ calls'[c].saw = calls[c].saw
               /\ \/ calls'[c].changed = TRUE
                  \/ /\ calls'[c].changed = calls[c].changed
                     /\ calls[c].name # n \/ ~IsSql \/ FirstKey(rows) = FirstKey(profiles[n])

\* A change of the rows of one name, told to those that read them.
LEMMA ProfileChange ==
    ASSUME KeyInv, TablesInv, UNCHANGED <<kind, peers>>, keysMade' \in Nat,
           NEW n \in Names, NEW rows \in Seq(Nat), profiles' = [profiles EXCEPT ![n] = rows],
           Informed(n, rows)
    PROVE  TablesInv'
<1>1. \A m \in Names : profiles'[m] = IF m = n THEN rows ELSE profiles[m]
      BY DEF TablesInv, TablesTyped
<1>2. TablesTyped' /\ OneRowInMaps'
      BY DEF TablesInv, TablesTyped, OneRowInMaps
<1>3. ReadsTyped'
      BY DEF TablesInv, ReadsTyped, Informed, IsSql
<1>4. ASSUME IsSql, NEW c \in Callers, calls'[c].op = "AddProfile", ~calls'[c].changed
      PROVE  calls'[c].saw = FirstKey(profiles'[calls'[c].name])
  <2>1. /\ calls[c].op = "AddProfile" /\ calls'[c].name = calls[c].name
        /\ calls'[c].saw = calls[c].saw /\ ~calls[c].changed
        /\ calls[c].name # n \/ FirstKey(rows) = FirstKey(profiles[n])
        BY <1>4 DEF Informed
  <2>2. calls[c].name \in Names
        BY <2>1 DEF KeyInv, CallsTyped, CallTyped
  <2>3. calls[c].saw = FirstKey(profiles[calls[c].name])
        BY <1>4, <2>1 DEF TablesInv, ProfileReadIsCurrent
  <2>4. FirstKey(profiles'[calls[c].name]) = FirstKey(profiles[calls[c].name])
        BY <1>1, <2>1, <2>2
  <2> QED BY <2>1, <2>3, <2>4
<1> QED BY <1>2, <1>3, <1>4 DEF TablesInv, ProfileReadIsCurrent, IsSql

\* The table is as it is read: a call that writes what is there changes no key.
LEMMA FirstOfUpdated ==
    ASSUME NEW rows \in Seq(Nat), NEW saw \in Nat
    PROVE  /\ Updated(rows, saw) \in Seq(Nat)
           /\ Updated(rows, saw) = << >> <=> rows = << >>
           /\ FirstKey(rows) = saw => FirstKey(Updated(rows, saw)) = saw
           /\ kind # "db" => Updated(rows, saw) = rows
<1>1. CASE kind = "db"
  <2>1. Updated(rows, saw) = [i \in 1 .. Len(rows) |-> saw]
        BY <1>1 DEF Updated
  <2>2. Updated(rows, saw) \in Seq(Nat) /\ Len(Updated(rows, saw)) = Len(rows)
        BY <2>1
  <2>3. rows # << >> => FirstKey(Updated(rows, saw)) = saw
    <3>1. rows # << >> => 1 \in 1 .. Len(rows)
          OBVIOUS
    <3>2. rows # << >> => Updated(rows, saw)[1] = saw /\ Updated(rows, saw) # << >>
          BY <2>1, <2>2, <3>1
    <3> QED BY <3>2 DEF FirstKey
  <2>4. Updated(rows, saw) = << >> <=> rows = << >>
        BY <2>2
  <2>5. rows = << >> => FirstKey(Updated(rows, saw)) = FirstKey(rows)
        BY <2>4 DEF FirstKey
  <2> QED BY <1>1, <2>2, <2>3, <2>4, <2>5
<1>2. CASE kind # "db"
      BY <1>2 DEF Updated
<1> QED BY <1>1, <1>2

\* What WriteProfile makes of the rows of its name.
Written(c) ==
    IF calls[c].saw = None THEN Append(profiles[calls[c].name], keysMade + 1)
    ELSE Updated(profiles[calls[c].name], calls[c].saw)

\* WriteProfile leaves rows of keys, and the first key too, unless nodes/db writes
\* back a key that has changed, or the profile was not there.
LEMMA WrittenRows ==
    ASSUME KeyInv, TablesInv, NEW c \in Callers, WriteProfile(c)
    PROVE  LET n == calls[c].name  was == FirstKey(profiles[n])  is == FirstKey(Written(c)) IN
           /\ n \in Names /\ Written(c) \in Seq(Nat)
           /\ profiles' = [profiles EXCEPT ![n] = Written(c)]
           /\ IsSql /\ profiles[n] # << >> /\ was # is => kind = "db" /\ calls[c].changed
<1> DEFINE n == calls[c].name
           rows == profiles[n]
           saw == calls[c].saw
<1>1. calls[c].op = "AddProfile" /\ profiles' = [profiles EXCEPT ![n] = Written(c)]
      BY DEF WriteProfile, Written
<1>2. n \in Names
      BY <1>1 DEF KeyInv, CallsTyped, CallTyped
<1>3. rows \in Seq(Nat) /\ saw \in Nat \cup {None} /\ keysMade + 1 \in Nat
      BY <1>1, <1>2 DEF TablesInv, TablesTyped, ReadsTyped
<1>4. IsSql /\ ~calls[c].changed => saw = FirstKey(rows)
      BY <1>1 DEF TablesInv, ProfileReadIsCurrent
<1>5. Written(c) = IF saw = None THEN Append(rows, keysMade + 1) ELSE Updated(rows, saw)
      BY DEF Written
<1> DEFINE w == Written(c)
<1> HIDE DEF n, rows, saw, w
<1>6. CASE saw = None
  <2>1. w = Append(rows, keysMade + 1)
        BY <1>5, <1>6 DEF w
  <2>2. w \in Seq(Nat)
        BY <1>3, <2>1
  <2>3. rows # << >> => FirstKey(w) = FirstKey(rows)
    <3>1. rows # << >> => Append(rows, keysMade + 1)[1] = rows[1]
          BY <1>3
    <3>2. Append(rows, keysMade + 1) # << >>
          BY <1>3
    <3> QED BY <1>3, <2>1, <3>1, <3>2 DEF FirstKey
  <2> QED BY <1>1, <1>2, <2>2, <2>3 DEF w, rows, n
<1>7. CASE saw # None
  <2>1. w = Updated(rows, saw) /\ saw \in Nat
        BY <1>3, <1>5, <1>7 DEF w
  <2>2. w \in Seq(Nat)
        BY <1>3, <2>1, FirstOfUpdated
  <2>3. kind # "db" => w = rows
        BY <1>3, <2>1, FirstOfUpdated
  <2>4. IsSql /\ ~calls[c].changed => FirstKey(w) = FirstKey(rows)
        BY <1>3, <1>4, <2>1, FirstOfUpdated
  <2>5. IsSql /\ FirstKey(w) # FirstKey(rows) => kind = "db" /\ calls[c].changed
        BY <2>3, <2>4
  <2> QED BY <1>1, <1>2, <2>2, <2>5 DEF w, rows, n
<1> QED BY <1>6, <1>7

\* WriteProfile tells the calls that have read another key than is now first.
LEMMA WriteProfileStep ==
    ASSUME KeyInv, TablesInv, NEW c \in Callers, WriteProfile(c)
    PROVE  TablesInv'
<1> DEFINE n == calls[c].name
           rows == profiles[n]
           w == Written(c)
<1>1. /\ n \in Names /\ w \in Seq(Nat)
      /\ profiles' = [profiles EXCEPT ![n] = w]
      BY WrittenRows
<1>2. profiles'[n] = w
      BY <1>1 DEF TablesInv, TablesTyped
<1>3. /\ UNCHANGED <<kind, peers>> /\ keysMade' \in Nat
      /\ calls' = IF FirstKey(w) = FirstKey(rows) THEN Ended(c)
                  ELSE Noticed("AddProfile", calls[c].name, Ended(c))
  <2>1. UNCHANGED <<kind, peers>> /\ keysMade' \in Nat
        BY DEF WriteProfile, TablesInv, TablesTyped
  <2>2. calls' = IF FirstKey(profiles'[n]) = FirstKey(profiles[n]) THEN Ended(c)
                 ELSE Noticed("AddProfile", calls[c].name, Ended(c))
        BY DEF WriteProfile, Ended
  <2> QED BY <1>2, <2>1, <2>2
<1>4. Idle.op = "idle"
      BY DEF Idle
<1>5. CASE FirstKey(w) = FirstKey(rows)
  <2>1. \A d \in Callers : calls'[d] = IF d = c THEN Idle ELSE calls[d]
        BY <1>3, <1>5 DEF Ended, KeyInv, CallsTyped
  <2>2. Informed(n, w)
        BY <1>4, <1>5, <2>1 DEF Informed
  <2> HIDE DEF n, rows, w
  <2> QED BY <1>1, <1>3, <2>2, ProfileChange
<1>6. CASE FirstKey(w) # FirstKey(rows)
  <2>1. calls' = Noticed("AddProfile", calls[c].name, Ended(c)) /\ CallsTyped
        BY <1>3, <1>6 DEF KeyInv
  <2>2. /\ calls'[c] = Idle
        /\ \A d \in Callers : d # c =>
             IF calls[d].op = "AddProfile" /\ calls[d].name = calls[c].name
               THEN /\ calls'[d].op = "AddProfile" /\ calls'[d].name = calls[c].name
                    /\ calls'[d].changed = TRUE /\ calls'[d].saw = calls[d].saw
               ELSE calls'[d] = calls[d]
        BY <2>1, ToldOfProfile
  <2>3. Informed(n, w)
        BY <1>4, <2>2 DEF Informed
  <2> HIDE DEF n, rows, w
  <2> QED BY <1>1, <1>3, <2>3, ProfileChange
<1> QED BY <1>5, <1>6

\* DeleteProfile tells every call that has read the profile.
LEMMA DeleteProfileStep ==
    ASSUME KeyInv, TablesInv, NEW n \in Names, DeleteProfile(n)
    PROVE  TablesInv'
<1>1. /\ UNCHANGED <<kind, peers>> /\ keysMade' \in Nat
      /\ profiles' = [profiles EXCEPT ![n] = << >>]
      /\ calls' = Noticed("AddProfile", n, calls) /\ CallsTyped
      BY DEF DeleteProfile, ownKeys, TablesInv, TablesTyped, KeyInv
<1>2. \A c \in Callers :
        IF calls[c].op = "AddProfile" /\ calls[c].name = n
          THEN /\ calls'[c].op = "AddProfile" /\ calls'[c].name = n /\ calls'[c].changed = TRUE
               /\ calls'[c].saw = calls[c].saw
          ELSE calls'[c] = calls[c]
      BY <1>1, NoticedStep
<1>3. << >> \in Seq(Nat)
      OBVIOUS
<1>4. Informed(n, << >>)
      BY <1>2 DEF Informed
<1> QED BY <1>1, <1>3, <1>4, ProfileChange

\* A change of the peers of one name.
LEMMA PeerChange ==
    ASSUME KeyInv, TablesInv, UNCHANGED <<kind, profiles>>, keysMade' \in Nat,
           NEW n \in Names, NEW rows \in Seq(Groups), peers' = [peers EXCEPT ![n] = rows],
           kind = "ram" => Len(rows) <= 1,
           \A c \in Callers : calls'[c].op \in {"AddProfile", "AddPeer"} => calls'[c] = calls[c]
    PROVE  TablesInv'
<1>1. TablesTyped' /\ OneRowInMaps'
      BY DEF TablesInv, TablesTyped, OneRowInMaps
<1>2. ReadsTyped'
      BY DEF TablesInv, ReadsTyped, IsSql
<1>3. ProfileReadIsCurrent'
      BY DEF TablesInv, ProfileReadIsCurrent, IsSql
<1> QED BY <1>1, <1>2, <1>3 DEF TablesInv

\* WritePeer: one more row, or QL's update of all of them.
LEMMA WritePeerStep ==
    ASSUME KeyInv, TablesInv, NEW c \in Callers, WritePeer(c)
    PROVE  TablesInv'
<1> DEFINE n == calls[c].name
           g == calls[c].group
           rows == peers[n]
           w == IF ~calls[c].saw THEN Append(rows, g)
                ELSE IF kind = "ql" THEN [i \in DOMAIN rows |-> g] ELSE rows
<1>1. n \in Names /\ g \in Groups /\ kind # "ram"
      BY DEF WritePeer, TablesInv, ReadsTyped, IsSql
<1>2. rows \in Seq(Groups)
      BY <1>1 DEF TablesInv, TablesTyped
<1>3. /\ UNCHANGED <<kind, profiles>> /\ keysMade' \in Nat
      /\ calls' = [calls EXCEPT ![c] = Idle]
      BY DEF WritePeer, ownKeys, TablesInv, TablesTyped
<1>4. peers' = [peers EXCEPT ![n] = w]
      BY <1>1 DEF WritePeer, TablesInv, TablesTyped
<1>5. \A d \in Callers : calls'[d].op \in {"AddProfile", "AddPeer"} => calls'[d] = calls[d]
  <2>1. Idle.op = "idle"
        BY DEF Idle
  <2>2. \A d \in Callers : calls'[d] = IF d = c THEN Idle ELSE calls[d]
        BY <1>3 DEF KeyInv, CallsTyped
  <2> QED BY <2>1, <2>2
<1> HIDE DEF n, g, rows
<1>6. w \in Seq(Groups)
  <2>1. Append(rows, g) \in Seq(Groups)
        BY <1>1, <1>2
  <2>2. [i \in DOMAIN rows |-> g] = [i \in 1 .. Len(rows) |-> g]
        BY <1>2
  <2>3. [i \in 1 .. Len(rows) |-> g] \in Seq(Groups)
        BY <1>1, <1>2
  <2> QED BY <1>2, <2>1, <2>2, <2>3
<1> HIDE DEF w
<1> QED BY <1>1, <1>3, <1>4, <1>5, <1>6, PeerChange

\* A step after which no call is under way.
LEMMA ResetTables ==
    ASSUME calls' = [c \in Callers |-> Idle], TablesTyped', OneRowInMaps'
    PROVE  TablesInv'
<1>1. \A c \in Callers : calls'[c].op = "idle"
      BY DEF Idle
<1> QED BY <1>1 DEF TablesInv, ReadsTyped, ProfileReadIsCurrent

\* Every step of the specification keeps the tables.
LEMMA TablesStep == KeyInv /\ TablesInv /\ [Next]_vars => TablesInv'
<1> SUFFICES ASSUME KeyInv, TablesInv, [Next]_vars PROVE TablesInv'
    OBVIOUS
<1>0. ASSUME UNCHANGED <<kind, profiles, peers, calls>>, keysMade' \in Nat PROVE TablesInv'
      BY <1>0, OtherTables
<1> USE DEF ownKeys
<1>a. keysMade \in Nat /\ keysMade + 1 \in Nat /\ keysMade + 2 \in Nat
      BY DEF TablesInv, TablesTyped
<1>b. Idle.op = "idle"
      BY DEF Idle
<1>c. ASSUME NEW c \in Callers, calls' = [calls EXCEPT ![c] = Idle],
             UNCHANGED <<kind, profiles, peers, keysMade>>
      PROVE  TablesInv'
      BY <1>a, <1>b, <1>c, OtherCall
<1>1. ASSUME NEW n \in Names, NEW k \in ChannelKeys \cup {Bad}, AddContact(n, k) PROVE TablesInv'
      BY <1>0, <1>1, <1>a DEF AddContact
<1>2. ASSUME NEW n \in Names, DeleteContact(n) PROVE TablesInv'
      BY <1>0, <1>2, <1>a DEF DeleteContact
<1>3. ASSUME NEW n \in Names, DeleteChannel(n) PROVE TablesInv'
  <2>1. /\ UNCHANGED <<kind, profiles, peers, keysMade>> /\ CallsTyped
        /\ calls' = Noticed("Route", n, calls)
        BY <1>3 DEF DeleteChannel, KeyInv
  <2>2. \A c \in Callers : calls'[c] = calls[c] \/ calls'[c].op = "Route"
        BY <2>1, NoticedStep
  <2>3. \A c \in Callers : calls'[c].op \in {"AddProfile", "AddPeer"} => calls'[c] = calls[c]
        BY <2>2
  <2> QED BY <1>a, <2>1, <2>3, OtherTables
<1>4. ASSUME NEW n \in Names, DeleteProfile(n) PROVE TablesInv'
      BY <1>4, DeleteProfileStep
<1>5. ASSUME NEW n \in Names, LoadProfile(n) PROVE TablesInv'
      BY <1>0, <1>5, <1>a DEF LoadProfile
<1>6. ASSUME NEW n \in Names, DeletePeer(n) PROVE TablesInv'
  <2>1. << >> \in Seq(Groups) /\ Len(<< >>) <= 1
        OBVIOUS
  <2> QED BY <1>6, <1>a, <2>1, PeerChange DEF DeletePeer
<1>7. ASSUME NEW c \in Callers, NEW n \in Names, NEW k \in ChannelKeys \cup {Bad},
             AddChannel(c, n, k)
      PROVE  TablesInv'
  <2>1. UNCHANGED <<kind, profiles, peers, keysMade>>
        BY <1>7 DEF AddChannel
  <2>2. CASE IsSql
    <3>1. ASSUME NEW d \in Callers PROVE calls'[d] = calls[d] \/ calls'[d].op = "AddChannel"
      <4> DEFINE a == \A e \in Callers : ~Adding(e)
                 k1 == [op |-> "AddChannel", saw |-> << >>, alone |-> a]
      <4>1. k1.op = "AddChannel"
            OBVIOUS
      <4> HIDE DEF a
      <4>2. ASSUME Adding(d) PROVE [calls[d] EXCEPT !.alone = FALSE].op = "AddChannel"
        <5> DEFINE s == calls[d].saw
        <5> HIDE DEF s
        <5>1. calls[d] \in [op : {"AddChannel"}, saw : {s}, alone : BOOLEAN]
              BY <4>2 DEF KeyInv, CallsTyped, CallTyped, Adding, s
        <5> QED BY <5>1
      <4>3. calls'[d] = IF d = c THEN k1
                        ELSE IF Adding(d) THEN [calls[d] EXCEPT !.alone = FALSE] ELSE calls[d]
            BY <1>7, <2>2 DEF AddChannel, a
      <4> HIDE DEF k1
      <4> QED BY <4>1, <4>2, <4>3
    <3>2. \A d \in Callers : calls'[d].op \in {"AddProfile", "AddPeer"} => calls'[d] = calls[d]
          BY <3>1
    <3> QED BY <1>a, <2>1, <3>2, OtherTables
  <2>3. CASE ~IsSql
        BY <1>0, <1>7, <1>a, <2>1, <2>3 DEF AddChannel
  <2> QED BY <2>2, <2>3
<1>8. ASSUME NEW c \in Callers, NEW n \in Names, Route(c, n) PROVE TablesInv'
  <2> DEFINE k == [op |-> "Route", name |-> n, changed |-> FALSE]
  <2>1. calls' = [calls EXCEPT ![c] = k] /\ UNCHANGED <<kind, profiles, peers, keysMade>>
        BY <1>8 DEF Route
  <2>2. k.op \notin {"AddProfile", "AddPeer"}
        OBVIOUS
  <2> HIDE DEF k
  <2> QED BY <1>a, <2>1, <2>2, OtherCall
<1>9. ASSUME NEW c \in Callers, NEW n \in Names, AddProfile(c, n) PROVE TablesInv'
  <2>1. CASE IsSql
    <3> DEFINE s == FirstKey(profiles[n])
               k == [op |-> "AddProfile", name |-> n, saw |-> s, changed |-> FALSE]
    <3>1. calls' = [calls EXCEPT ![c] = k] /\ UNCHANGED <<kind, profiles, peers, keysMade>>
          BY <1>9, <2>1 DEF AddProfile
    <3> HIDE DEF s
    <3>2. k.op = "AddProfile" /\ k.name = n /\ k.saw = s
          OBVIOUS
    <3> HIDE DEF k
    <3>3. k.name \in Names /\ k.saw = FirstKey(profiles[k.name])
          BY <3>2 DEF s
    <3> QED BY <1>a, <3>1, <3>2, <3>3, AskingCall
  <2>2. CASE ~IsSql
    <3> DEFINE rows == <<IF profiles[n] = << >> THEN keysMade + 1 ELSE Cloned>>
    <3>1. /\ UNCHANGED <<kind, peers, calls>> /\ keysMade' \in Nat
          /\ profiles' = [profiles EXCEPT ![n] = rows]
          BY <1>9, <1>a, <2>2 DEF AddProfile
    <3>2. rows \in Seq(Nat)
      <4>1. (IF profiles[n] = << >> THEN keysMade + 1 ELSE Cloned) \in Nat
            BY <1>a DEF Cloned
      <4> QED BY <4>1
    <3> HIDE DEF rows
    <3>3. Informed(n, rows)
          BY <2>2, <3>1 DEF Informed
    <3> QED BY <3>1, <3>2, <3>3, ProfileChange
  <2> QED BY <2>1, <2>2
<1>10. ASSUME NEW c \in Callers, NEW n \in Names, NEW g \in Groups, AddPeer(c, n, g)
       PROVE  TablesInv'
  <2>1. CASE IsSql
    <3> DEFINE s == Contains(peers[n], g)
               k == [op |-> "AddPeer", name |-> n, group |-> g, saw |-> s]
    <3>1. calls' = [calls EXCEPT ![c] = k] /\ UNCHANGED <<kind, profiles, peers, keysMade>>
          BY <1>10, <2>1 DEF AddPeer
    <3> HIDE DEF s
    <3>2. k.op = "AddPeer" /\ k.name = n /\ k.group = g
          OBVIOUS
    <3> HIDE DEF k
    <3> QED BY <1>a, <2>1, <3>1, <3>2, AskingCall
  <2>2. CASE ~IsSql
    <3>1. /\ UNCHANGED <<kind, profiles, calls, keysMade>>
          /\ peers' = [peers EXCEPT ![n] = <<g>>]
          BY <1>10, <2>2 DEF AddPeer
    <3>2. <<g>> \in Seq(Groups) /\ Len(<<g>>) <= 1
          OBVIOUS
    <3> QED BY <1>a, <3>1, <3>2, PeerChange
  <2> QED BY <2>1, <2>2
<1>11. ASSUME NEW c \in Callers, RefreshRead(c) PROVE TablesInv'
  <2>1. UNCHANGED <<kind, profiles, peers, keysMade>> /\ Adding(c)
        BY <1>11 DEF RefreshRead
  <2>2. CASE Readable(channels)
    <3> DEFINE k == [calls[c] EXCEPT !.saw = channels]
               s == calls[c].saw
    <3>1. calls' = [calls EXCEPT ![c] = k]
          BY <1>11, <2>2 DEF RefreshRead
    <3>2. k.op = "AddChannel"
      <4> HIDE DEF s
      <4>1. calls[c] \in [op : {"AddChannel"}, saw : {s}, alone : BOOLEAN]
            BY <2>1 DEF KeyInv, CallsTyped, CallTyped, Adding, s
      <4> QED BY <4>1
    <3> HIDE DEF k
    <3> QED BY <1>a, <2>1, <3>1, <3>2, OtherCall
  <2>3. CASE ~Readable(channels)
        BY <1>11, <1>c, <2>1, <2>3 DEF RefreshRead
  <2> QED BY <2>2, <2>3
<1>12. ASSUME NEW c \in Callers, RefreshWrite(c) PROVE TablesInv'
       BY <1>12, <1>c DEF RefreshWrite
<1>13. ASSUME NEW c \in Callers, RouteHandle(c) PROVE TablesInv'
       BY <1>13, <1>c DEF RouteHandle
<1>14. ASSUME NEW c \in Callers, WriteProfile(c) PROVE TablesInv'
       BY <1>14, WriteProfileStep
<1>15. ASSUME NEW c \in Callers, WritePeer(c) PROVE TablesInv'
       BY <1>15, WritePeerStep
<1>16. CASE Restart
       BY <1>16, ResetTables DEF Restart, TablesInv, TablesTyped, OneRowInMaps
<1>17. CASE StartAgain
       BY <1>0, <1>17, <1>a DEF StartAgain
<1>18. CASE UNCHANGED vars
       BY <1>0, <1>18, <1>a DEF vars
<1> QED BY <1>1, <1>2, <1>3, <1>4, <1>5, <1>6, <1>7, <1>8, <1>9, <1>10, <1>11, <1>12, <1>13,
           <1>14, <1>15, <1>16, <1>17, <1>18 DEF Next

\* The tables are empty at first.
LEMMA TablesInit == Init => TablesInv
<1> SUFFICES ASSUME Init PROVE TablesInv
    OBVIOUS
<1>1. /\ kind \in {"ram", "fs", "db", "ql"} /\ keysMade = 2
      /\ profiles = [n \in Names |-> << >>] /\ peers = profiles
      BY DEF Init
<1>2. \A c \in Callers : calls[c].op = "idle"
      BY DEF Init, Idle
<1>3. \A n \in Names : peers[n] = << >> /\ Len(peers[n]) = 0
      BY <1>1
<1>4. TablesTyped /\ OneRowInMaps
      BY <1>1, <1>3 DEF TablesTyped, OneRowInMaps
<1> QED BY <1>2, <1>4 DEF TablesInv, ReadsTyped, ProfileReadIsCurrent

\* Both invariants hold.
LEMMA TablesInvariant == Spec => [](KeyInv /\ TablesInv)
<1>1. Init => KeyInv /\ TablesInv
      BY KeyInit, TablesInit
<1>2. KeyInv /\ TablesInv /\ [Next]_vars => (KeyInv /\ TablesInv)'
      BY KeyStep, TablesStep
<1> QED BY <1>1, <1>2, PTL DEF Spec

-----------------------------------------------------------------------------
\* The rows of a profile change only when it is added or deleted.
LEMMA ProfilesStay ==
    ASSUME [Next]_vars
    PROVE  \/ profiles' = profiles
           \/ \E n \in Names : DeleteProfile(n)
           \/ \E c \in Callers, n \in Names : AddProfile(c, n) /\ ~IsSql
           \/ \E c \in Callers : WriteProfile(c)
BY DEF Next, vars, AddContact, DeleteContact, DeleteChannel, LoadProfile, DeletePeer, AddChannel,
       Route, AddPeer, RefreshRead, RefreshWrite, RouteHandle, WritePeer, Restart, StartAgain,
       AddProfile

\* Adding a profile again keeps the key it has in the database, unless nodes/db
\* writes back a key that was changed since it was read.
THEOREM ProfileKeyIsKept == Spec => ProfileKeyKept
<1> DEFINE Kept ==
      \A n \in Names :
          LET was == FirstKey(profiles[n])  is == FirstKey(profiles'[n])
          IN  IsSql /\ was # None /\ is # None /\ was # is =>
                \E c \in Callers : kind = "db" /\ WriteProfile(c) /\ calls[c].changed
<1>1. KeyInv /\ TablesInv /\ [Next]_vars => Kept
  <2> SUFFICES ASSUME KeyInv, TablesInv, [Next]_vars, NEW n \in Names, IsSql,
                      FirstKey(profiles[n]) # None, FirstKey(profiles'[n]) # None,
                      FirstKey(profiles[n]) # FirstKey(profiles'[n])
               PROVE  \E c \in Callers : kind = "db" /\ WriteProfile(c) /\ calls[c].changed
      OBVIOUS
  <2>1. profiles[n] \in Seq(Nat) /\ profiles[n] # << >>
        BY DEF TablesInv, TablesTyped, FirstKey
  <2>2. ASSUME NEW m \in Names, DeleteProfile(m) PROVE FALSE
    <3>1. profiles'[n] = profiles[n] \/ profiles'[n] = << >>
          BY <2>2 DEF DeleteProfile, TablesInv, TablesTyped
    <3> QED BY <3>1 DEF FirstKey
  <2>3. ASSUME NEW c \in Callers, WriteProfile(c) PROVE kind = "db" /\ calls[c].changed
    <3>1. /\ calls[c].name \in Names
          /\ profiles' = [profiles EXCEPT ![calls[c].name] = Written(c)]
          /\ IsSql /\ profiles[calls[c].name] # << >> /\
             FirstKey(profiles[calls[c].name]) # FirstKey(Written(c)) =>
               kind = "db" /\ calls[c].changed
          BY <2>3, WrittenRows
    <3>2. profiles'[n] = IF n = calls[c].name THEN Written(c) ELSE profiles[n]
          BY <3>1 DEF TablesInv, TablesTyped
    <3> QED BY <2>1, <3>1, <3>2
  <2> QED BY <2>2, <2>3, ProfilesStay
<1>2. KeyInv /\ TablesInv /\ [Next]_vars => [Kept]_vars
      BY <1>1
<1> QED BY <1>2, TablesInvariant, PTL DEF ProfileKeyKept, Spec
=============================================================================
