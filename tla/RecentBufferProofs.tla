------------------------- MODULE RecentBufferProofs -------------------------
(***************************************************************************)
(* Until its counter wraps, the loop-detection cache is what it is meant   *)
(* to be, for every CacheSize, CacheDiscount, MaxInt, set of nonces and    *)
(* hash function.                                                          *)
(*                                                                         *)
(* The invariant: the live counters form an interval lo .. counter-1, the  *)
(* two maps are inverse bijections between it and the live hashes, and lo  *)
(* is 0 or the interval has at least CacheSize - CacheDiscount counters.   *)
(* The eviction then takes exactly the CacheDiscount smallest counters     *)
(* (CountUpto), so the interval shrinks from below only.                   *)
(***************************************************************************)
EXTENDS RecentBuffer, FiniteSetTheorems, TLAPS

\* rb and rev are inverse bijections between the keys of rb and lo .. hi.
Paired(rb, rev, lo, hi) ==
    /\ DOMAIN rev = lo .. hi
    /\ \A h \in DOMAIN rb : rb[h] \in lo .. hi /\ rev[rb[h]] = h
    /\ \A c \in lo .. hi : rev[c] \in DOMAIN rb /\ rb[rev[c]] = c

\* The live counters start at lo, and every insertion since lo is live.
LiveFrom(rb, rev, st, cnt, lo) ==
    /\ Paired(rb, rev, lo, cnt - 1)
    /\ lo = 0 \/ cnt - lo >= CacheSize - CacheDiscount
    /\ \A h \in DOMAIN rb : h \in DOMAIN st /\ rb[h] = st[h]
    /\ \A h \in DOMAIN st : st[h] < cnt /\ (st[h] >= lo => h \in DOMAIN rb)

Live == \E lo \in 0 .. counter :
          /\ LiveFrom(recentBuffer, reverseBuffer, stamped, counter, lo)
          /\ counter - lo < CacheSize

IInv ==
    /\ TypeOK
    /\ DOMAIN recentBuffer \subseteq DOMAIN stamped
    /\ \A n \in asked : Crc[n] \in DOMAIN stamped
    /\ ~wrapped => Live

-----------------------------------------------------------------------------
\* The number of entries with a counter up to v, as the eviction loop of
\* SeenRecently meets them in sorted order, is v - lo + 1.
LEMMA CountUpto ==
    ASSUME NEW rb, NEW rev, NEW lo \in Int, NEW hi \in Int,
           Paired(rb, rev, lo, hi),
           NEW v \in Int, lo - 1 <= v, v <= hi
    PROVE  /\ IsFiniteSet({h \in DOMAIN rb : rb[h] <= v})
           /\ Cardinality({h \in DOMAIN rb : rb[h] <= v}) = v - lo + 1
<1> DEFINE S == {h \in DOMAIN rb : rb[h] <= v}
           f == [c \in lo .. v |-> rev[c]]
<1>1. f \in [lo .. v -> S]
  BY DEF Paired
<1>2. ASSUME NEW c1 \in lo .. v, NEW c2 \in lo .. v, f[c1] = f[c2]
      PROVE  c1 = c2
  BY <1>2 DEF Paired
<1>3. ASSUME NEW h \in S
      PROVE  \E c \in lo .. v : f[c] = h
  <2>1. rb[h] \in lo .. v /\ rev[rb[h]] = h
    BY DEF Paired
  <2> QED BY <2>1
<1>4. f \in Bijection(lo .. v, S)
  BY <1>1, <1>2, <1>3 DEF Bijection, Injection, Surjection, IsInjective
<1>5. ExistsBijection(lo .. v, S)
  BY <1>4 DEF ExistsBijection
<1>6. IsFiniteSet(lo .. v) /\ Cardinality(lo .. v) = v - lo + 1
  BY FS_Interval
<1> QED
  BY <1>5, <1>6, FS_Bijection

\* The number of entries with a counter below v is v - lo, and no counter is
\* held twice.
LEMMA CountBelow ==
    ASSUME NEW rb, NEW rev, NEW lo \in Int, NEW hi \in Int,
           Paired(rb, rev, lo, hi),
           NEW v \in lo .. hi
    PROVE  /\ Cardinality(Below(rb, v)) = v - lo
           /\ Cardinality(Upto(rb, v)) = v - lo + 1
<1>1. Below(rb, v) = {h \in DOMAIN rb : rb[h] <= v - 1}
  BY DEF Below, Paired
<1>2. Cardinality({h \in DOMAIN rb : rb[h] <= v - 1}) = (v - 1) - lo + 1
  BY CountUpto
<1>3. Cardinality({h \in DOMAIN rb : rb[h] <= v}) = v - lo + 1
  BY CountUpto
<1> QED
  BY <1>1, <1>2, <1>3 DEF Upto

\* A collection of a full cache, by the loop of SeenRecently, removes the
\* CacheDiscount smallest counters and their hashes, and nothing else.
LEMMA CollectFull ==
    ASSUME NEW rb, NEW rev, NEW lo \in Int, NEW hi \in Int,
           Paired(rb, rev, lo, hi),
           hi - lo + 1 = CacheSize
    PROVE  /\ Collect(rb, rev).recent = Without(rb, {h \in DOMAIN rb : rb[h] < lo + CacheDiscount})
           /\ Collect(rb, rev).reverse = Without(rev, lo .. (lo + CacheDiscount - 1))
           /\ Paired(Collect(rb, rev).recent, Collect(rb, rev).reverse, lo + CacheDiscount, hi)
<1> USE ConstantsAssumption
<1> DEFINE D == lo .. (lo + CacheDiscount - 1)
<1>1. Cardinality(DOMAIN rb) = CacheSize
  <2>1. DOMAIN rb = {h \in DOMAIN rb : rb[h] <= hi}
    <3>1. \A h \in DOMAIN rb : rb[h] <= hi
      BY DEF Paired
    <3> QED BY <3>1
  <2>2. Cardinality({h \in DOMAIN rb : rb[h] <= hi}) = hi - lo + 1
    BY CountUpto
  <2> QED BY <2>1, <2>2
<1>2. Discount(Cardinality(DOMAIN rb)) = CacheDiscount
  BY <1>1 DEF Discount
<1>3. {rb[h] : h \in DOMAIN rb} = lo .. hi
  BY DEF Paired
<1>4. Taken(rb) = D
  <2>1. \A v \in lo .. hi : Cardinality(Below(rb, v)) = v - lo
    BY CountBelow
  <2>2. Taken(rb) = {v \in lo .. hi : v - lo < CacheDiscount}
    BY <1>2, <1>3, <2>1 DEF Taken
  <2> QED BY <2>2
<1>5. TakenTwice(rb) = {}
  <2>1. \A v \in D : Cardinality(Upto(rb, v)) - Cardinality(Below(rb, v)) = 1
    BY CountBelow
  <2> QED BY <1>4, <2>1 DEF TakenTwice
<1>6. D \subseteq DOMAIN rev
  BY DEF Paired
<1>7. Victims(rb, rev) = {rev[v] : v \in D}
  BY <1>4, <1>5, <1>6 DEF Victims
<1>8. {rev[v] : v \in D} = {h \in DOMAIN rb : rb[h] < lo + CacheDiscount}
  BY DEF Paired
<1>9. Full(rb)
  BY <1>1 DEF Full
<1>10. Collect(rb, rev) = [recent |-> Without(rb, {rev[v] : v \in D}), reverse |-> Without(rev, D)]
  BY <1>4, <1>7, <1>9 DEF Collect
<1>11. Paired(Without(rb, {rev[v] : v \in D}), Without(rev, D), lo + CacheDiscount, hi)
  BY <1>8 DEF Paired, Without
<1>12. Collect(rb, rev).recent = Without(rb, {rev[v] : v \in D})
  BY <1>10
<1>13. Collect(rb, rev).reverse = Without(rev, D)
  BY <1>10
<1> QED
  BY <1>8, <1>11, <1>12, <1>13

\* A cache with room is left alone by the collection.
LEMMA CollectRoom ==
    ASSUME NEW rb, NEW rev, NEW lo \in Int, NEW hi \in Int,
           Paired(rb, rev, lo, hi),
           lo - 1 <= hi, hi - lo + 1 < CacheSize
    PROVE  /\ Collect(rb, rev) = [recent |-> rb, reverse |-> rev]
           /\ Cardinality(DOMAIN rb) = hi - lo + 1
<1>1. DOMAIN rb = {h \in DOMAIN rb : rb[h] <= hi}
  <2>1. \A h \in DOMAIN rb : rb[h] <= hi
    BY DEF Paired
  <2> QED BY <2>1
<1>2. Cardinality({h \in DOMAIN rb : rb[h] <= hi}) = hi - lo + 1
  BY CountUpto
<1>3. Cardinality(DOMAIN rb) = hi - lo + 1
  BY <1>1, <1>2
<1>4. ~Full(rb)
  BY <1>3, ConstantsAssumption DEF Full
<1> QED
  BY <1>3, <1>4 DEF Collect

\* The collection only forgets entries.
LEMMA CollectShrinks ==
    ASSUME NEW rb, NEW rev
    PROVE  LET gc == Collect(rb, rev)
           IN  /\ DOMAIN gc.recent \subseteq DOMAIN rb
               /\ \A h \in DOMAIN gc.recent : gc.recent[h] = rb[h]
               /\ DOMAIN gc.reverse \subseteq DOMAIN rev
               /\ \A c \in DOMAIN gc.reverse : gc.reverse[c] = rev[c]
<1>1. CASE Full(rb)
  BY <1>1 DEF Collect, Without
<1>2. CASE ~Full(rb)
  BY <1>2 DEF Collect
<1> QED
  BY <1>1, <1>2

-----------------------------------------------------------------------------
\* The empty cache of newRecentBuffer satisfies the invariant.
LEMMA InitIInv == Init => IInv
<1> SUFFICES ASSUME Init PROVE IInv
  OBVIOUS
<1> USE ConstantsAssumption DEF Init, newRecentBuffer
<1>1. DOMAIN recentBuffer = {} /\ DOMAIN reverseBuffer = {} /\ DOMAIN stamped = {}
  OBVIOUS
<1>2. TypeOK
  <2>1. counter \in Counters
    BY DEF Counters
  <2>2. ret \in BOOLEAN /\ wrapped \in BOOLEAN /\ asked \subseteq Nonces
    OBVIOUS
  <2> QED BY <1>1, <2>1, <2>2, Zenon DEF TypeOK
<1>3. LiveFrom(recentBuffer, reverseBuffer, stamped, counter, 0)
  BY <1>1 DEF LiveFrom, Paired
<1>4. Live
  BY <1>3 DEF Live
<1> QED
  BY <1>1, <1>2, <1>4 DEF IInv

\* A call of SeenRecently keeps the two maps typed, wrapped or not.
LEMMA TypeStep ==
    ASSUME TypeOK, NEW n \in Nonces, SeenRecently(n)
    PROVE  TypeOK'
<1> USE ConstantsAssumption
<1> DEFINE h    == Crc[n]
           seen == h \in DOMAIN recentBuffer
           rb   == IF seen THEN recentBuffer ELSE With(recentBuffer, h, counter)
           rev  == IF seen THEN reverseBuffer ELSE With(reverseBuffer, counter, h)
<1>1. h \in Hashes /\ counter \in Counters
  BY DEF TypeOK
<1>2. DOMAIN rb \subseteq Hashes /\ \A x \in DOMAIN rb : rb[x] \in Counters
  BY <1>1 DEF TypeOK, With
<1>3. DOMAIN rev \subseteq Counters /\ \A c \in DOMAIN rev : rev[c] \in Hashes
  BY <1>1 DEF TypeOK, With
<1>4. /\ recentBuffer' = Collect(rb, rev).recent
      /\ reverseBuffer' = Collect(rb, rev).reverse
  BY DEF SeenRecently, Seen
<1> HIDE DEF rb, rev
<1>5. /\ DOMAIN recentBuffer' \subseteq Hashes
      /\ \A x \in DOMAIN recentBuffer' : recentBuffer'[x] \in Counters
  BY <1>2, <1>4, CollectShrinks
<1>6. /\ DOMAIN reverseBuffer' \subseteq Counters
      /\ \A c \in DOMAIN reverseBuffer' : reverseBuffer'[c] \in Hashes
  BY <1>3, <1>4, CollectShrinks
<1>7. counter' \in Counters
  BY DEF SeenRecently, Seen, TypeOK, NextCounter, Counters
<1>8. DOMAIN stamped' \subseteq Hashes /\ \A x \in DOMAIN stamped' : stamped'[x] \in Counters
  BY <1>1 DEF SeenRecently, Seen, TypeOK, With
<1>9. ret' \in BOOLEAN /\ wrapped' \in BOOLEAN /\ asked' \subseteq Nonces
  BY DEF SeenRecently, Seen, TypeOK
<1> QED
  BY <1>5, <1>6, <1>7, <1>8, <1>9 DEF TypeOK

\* A call about a remembered nonce changes nothing in a cache with room.
LEMMA LiveStepSeen ==
    ASSUME TypeOK, Live, NEW n \in Nonces, SeenRecently(n),
           Crc[n] \in DOMAIN recentBuffer
    PROVE  Live' /\ recentBuffer' = recentBuffer
<1> USE ConstantsAssumption
<1>1. PICK lo \in 0 .. counter :
        /\ LiveFrom(recentBuffer, reverseBuffer, stamped, counter, lo)
        /\ counter - lo < CacheSize
  BY DEF Live
<1>2. counter \in Int /\ lo \in Int
  BY <1>1 DEF TypeOK, Counters
<1>3. Paired(recentBuffer, reverseBuffer, lo, counter - 1)
  BY <1>1 DEF LiveFrom
<1>4. Collect(recentBuffer, reverseBuffer) = [recent |-> recentBuffer, reverse |-> reverseBuffer]
  BY <1>1, <1>2, <1>3, CollectRoom
<1>5. /\ recentBuffer' = recentBuffer /\ reverseBuffer' = reverseBuffer
      /\ stamped' = stamped /\ counter' = counter
  BY <1>4 DEF SeenRecently, Seen
<1> QED
  BY <1>1, <1>5 DEF Live

\* A call about a forgotten or new nonce inserts it, and a collection keeps the
\* younger part of the interval, the new entry included.
LEMMA LiveStepNew ==
    ASSUME TypeOK, Live, NEW n \in Nonces, SeenRecently(n),
           Crc[n] \notin DOMAIN recentBuffer, counter # MaxInt
    PROVE  Live'
<1> USE ConstantsAssumption
<1> DEFINE h   == Crc[n]
           rb  == With(recentBuffer, h, counter)
           rev == With(reverseBuffer, counter, h)
           st  == With(stamped, h, counter)
<1>1. PICK lo \in 0 .. counter :
        /\ LiveFrom(recentBuffer, reverseBuffer, stamped, counter, lo)
        /\ counter - lo < CacheSize
  BY DEF Live
<1>2. counter \in Nat /\ lo \in Nat /\ lo <= counter
  BY <1>1 DEF TypeOK, Counters
<1>3. counter' = counter + 1 /\ stamped' = st
  BY DEF SeenRecently, Seen, NextCounter
<1>4. recentBuffer' = Collect(rb, rev).recent /\ reverseBuffer' = Collect(rb, rev).reverse
  BY DEF SeenRecently, Seen
<1>5. Paired(rb, rev, lo, counter)
  <2>1. Paired(recentBuffer, reverseBuffer, lo, counter - 1)
    BY <1>1 DEF LiveFrom
  <2>2. DOMAIN rev = lo .. counter
    BY <1>2, <2>1 DEF Paired, With
  <2>3. ASSUME NEW x \in DOMAIN rb
        PROVE  rb[x] \in lo .. counter /\ rev[rb[x]] = x
    BY <1>2, <2>1 DEF Paired, With
  <2>4. ASSUME NEW c \in lo .. counter
        PROVE  rev[c] \in DOMAIN rb /\ rb[rev[c]] = c
    BY <1>2, <2>1 DEF Paired, With
  <2> QED BY <2>2, <2>3, <2>4 DEF Paired
<1>6. \A x \in DOMAIN rb : x \in DOMAIN st /\ rb[x] = st[x]
  BY <1>1 DEF LiveFrom, With
<1>7. \A x \in DOMAIN st : st[x] < counter + 1 /\ (st[x] >= lo => x \in DOMAIN rb)
  BY <1>1, <1>2 DEF LiveFrom, With, TypeOK, Counters
<1> HIDE DEF rb, rev, st
<1>8. CASE counter + 1 - lo < CacheSize
  <2>1. Collect(rb, rev) = [recent |-> rb, reverse |-> rev]
    BY <1>2, <1>5, <1>8, CollectRoom
  <2>2. recentBuffer' = rb /\ reverseBuffer' = rev
    BY <1>4, <2>1
  <2>3. lo = 0 \/ (counter + 1) - lo >= CacheSize - CacheDiscount
    BY <1>1, <1>2 DEF LiveFrom
  <2>4. (counter + 1) - 1 = counter
    BY <1>2
  <2>5. LiveFrom(rb, rev, st, counter + 1, lo)
    BY <1>5, <1>6, <1>7, <2>3, <2>4 DEF LiveFrom
  <2>6. LiveFrom(recentBuffer', reverseBuffer', stamped', counter', lo)
    BY <1>3, <2>2, <2>5
  <2>7. lo \in 0 .. counter' /\ counter' - lo < CacheSize
    BY <1>2, <1>3, <1>8
  <2> QED BY <2>6, <2>7 DEF Live
<1>9. CASE counter + 1 - lo >= CacheSize
  <2> DEFINE lo2 == lo + CacheDiscount
  <2>1. counter - lo + 1 = CacheSize
    BY <1>1, <1>2, <1>9
  <2>2. /\ recentBuffer' = Without(rb, {x \in DOMAIN rb : rb[x] < lo2})
        /\ Paired(recentBuffer', reverseBuffer', lo2, counter)
    <3>1. lo \in Int /\ counter \in Int
      BY <1>2
    <3> HIDE DEF lo2
    <3>2. /\ Collect(rb, rev).recent = Without(rb, {x \in DOMAIN rb : rb[x] < lo + CacheDiscount})
          /\ Paired(Collect(rb, rev).recent, Collect(rb, rev).reverse, lo + CacheDiscount, counter)
      BY <1>5, <2>1, <3>1, CollectFull
    <3> QED BY <1>4, <3>2 DEF lo2
  <2>3. \A x \in DOMAIN rb : rb[x] \in lo .. counter
    BY <1>5 DEF Paired
  <2>4. \A x \in DOMAIN recentBuffer' : x \in DOMAIN st /\ recentBuffer'[x] = st[x]
    BY <1>6, <2>2 DEF Without
  <2>5. \A x \in DOMAIN st : st[x] >= lo2 => x \in DOMAIN recentBuffer'
    <3> SUFFICES ASSUME NEW x \in DOMAIN st, st[x] >= lo2
                 PROVE  x \in DOMAIN recentBuffer'
      OBVIOUS
    <3>1. st[x] \in Int
      BY <1>2 DEF st, With, TypeOK, Counters
    <3>2. x \in DOMAIN rb /\ rb[x] = st[x]
      BY <1>2, <1>6, <1>7, <3>1
    <3>3. ~(rb[x] < lo2)
      BY <1>2, <3>1, <3>2
    <3> QED BY <2>2, <3>2, <3>3 DEF Without
  <2>6. LiveFrom(recentBuffer', reverseBuffer', st, counter + 1, lo2)
    <3>1. (counter + 1) - 1 = counter /\ (counter + 1) - lo2 >= CacheSize - CacheDiscount
      BY <1>2, <2>1
    <3> QED BY <1>7, <2>2, <2>4, <2>5, <3>1 DEF LiveFrom
  <2>7. lo2 \in 0 .. counter' /\ counter' - lo2 < CacheSize
    BY <1>2, <1>3, <2>1
  <2>8. LiveFrom(recentBuffer', reverseBuffer', stamped', counter', lo2)
    BY <1>3, <2>6
  <2> QED BY <2>7, <2>8 DEF Live
<1> QED
  BY <1>2, <1>8, <1>9

\* IInv is preserved by every call.
LEMMA NextIInv == IInv /\ [Next]_vars => IInv'
<1> SUFFICES ASSUME IInv, [Next]_vars PROVE IInv'
  OBVIOUS
<1> USE ConstantsAssumption
<1>1. ASSUME NEW n \in Nonces, SeenRecently(n)
      PROVE  IInv'
  <2>1. TypeOK'
    BY <1>1, TypeStep DEF IInv
  <2>2. \A k \in asked' : Crc[k] \in DOMAIN stamped'
    <3>1. Crc[n] \in DOMAIN stamped'
      BY <1>1 DEF IInv, SeenRecently, Seen, With
    <3>2. DOMAIN stamped \subseteq DOMAIN stamped' /\ asked' = asked \cup {n}
      BY <1>1 DEF SeenRecently, Seen, With
    <3> QED BY <3>1, <3>2 DEF IInv
  <2>4. DOMAIN recentBuffer' \subseteq DOMAIN stamped'
    <3> DEFINE seen == Crc[n] \in DOMAIN recentBuffer
               rb  == IF seen THEN recentBuffer ELSE With(recentBuffer, Crc[n], counter)
               rev == IF seen THEN reverseBuffer ELSE With(reverseBuffer, counter, Crc[n])
    <3>1. DOMAIN rb \subseteq DOMAIN stamped'
      BY <1>1 DEF IInv, SeenRecently, Seen, With
    <3>2. recentBuffer' = Collect(rb, rev).recent
      BY <1>1 DEF SeenRecently, Seen
    <3> HIDE DEF rb, rev
    <3> QED BY <3>1, <3>2, CollectShrinks
  <2>3. ~wrapped' => Live'
    <3> SUFFICES ASSUME ~wrapped' PROVE Live'
      OBVIOUS
    <3>1. ~wrapped /\ (Crc[n] \in DOMAIN recentBuffer \/ counter # MaxInt)
      BY <1>1 DEF SeenRecently, Seen
    <3>2. TypeOK /\ Live
      BY <3>1 DEF IInv
    <3> QED BY <1>1, <3>1, <3>2, LiveStepSeen, LiveStepNew
  <2> QED BY <2>1, <2>2, <2>3, <2>4 DEF IInv
<1>2. CASE UNCHANGED vars
  BY <1>2 DEF IInv, vars, code, history, TypeOK, Live
<1> QED
  BY <1>1, <1>2 DEF Next

\* IInv implies the invariants the runs check.
LEMMA IInvImplies == IInv => MutualInverse /\ BoundedCache /\ WindowRemembered
<1> SUFFICES ASSUME IInv, ~wrapped
             PROVE  MutualInverse /\ BoundedCache /\ WindowRemembered
  BY DEF MutualInverse, BoundedCache, WindowRemembered
<1> USE ConstantsAssumption
<1>1. PICK lo \in 0 .. counter :
        /\ LiveFrom(recentBuffer, reverseBuffer, stamped, counter, lo)
        /\ counter - lo < CacheSize
  BY DEF IInv, Live
<1>2. counter \in Nat /\ lo \in Int /\ lo <= counter
  BY <1>1 DEF IInv, TypeOK, Counters
<1>3. Paired(recentBuffer, reverseBuffer, lo, counter - 1)
  BY <1>1 DEF LiveFrom
<1>4. MutualInverse
  BY <1>3 DEF MutualInverse, Paired
<1>5. Cardinality(DOMAIN recentBuffer) = (counter - 1) - lo + 1
  BY <1>1, <1>2, <1>3, CollectRoom
<1>6. BoundedCache
  BY <1>1, <1>2, <1>5 DEF BoundedCache
<1>7. WindowRemembered
  <2> SUFFICES ASSUME NEW h \in DOMAIN stamped,
                      counter - stamped[h] <= CacheSize - CacheDiscount
               PROVE  h \in DOMAIN recentBuffer
    BY DEF WindowRemembered
  <2>1. stamped[h] \in Nat
    BY DEF IInv, TypeOK, Counters
  <2>2. stamped[h] >= lo
    BY <1>1, <1>2, <2>1 DEF LiveFrom
  <2> QED BY <1>1, <2>2 DEF LiveFrom
<1> QED
  BY <1>4, <1>6, <1>7

\* IInv is an invariant of the cache.
THEOREM CacheInvariant == Spec => []IInv
  BY InitIInv, NextIInv, PTL DEF Spec

\* The two maps keep their types, wrapped or not (SeenRecently).
THEOREM CacheTyped == Spec => []TypeOK
<1>1. IInv => TypeOK
  BY DEF IInv
<1> QED
  BY <1>1, CacheInvariant, PTL

\* Until the wrap, recentBuffer and reverseBuffer are inverse maps.
THEOREM CacheMutualInverse == Spec => []MutualInverse
  BY IInvImplies, CacheInvariant, PTL

\* Until the wrap, SeenRecently leaves fewer than cacheSize entries.
THEOREM CacheBounded == Spec => []BoundedCache
  BY IInvImplies, CacheInvariant, PTL

\* Until the wrap, the last cacheSize - cacheDiscount insertions are live.
THEOREM CacheWindow == Spec => []WindowRemembered
  BY IInvImplies, CacheInvariant, PTL

\* Until the wrap, SeenRecently returns true for a nonce within the window.
THEOREM LoopsAreDetected == Spec => LoopDetected
<1> DEFINE Detected(n) == /\ SeenRecently(n)
                          /\ ~wrapped
                          /\ n \in asked
                          /\ counter - stamped[Crc[n]] <= CacheSize - CacheDiscount
                          => ret'
<1>1. IInv /\ [Next]_vars => [\A n \in Nonces : Detected(n)]_vars
  <2> SUFFICES ASSUME IInv, NEW n \in Nonces, SeenRecently(n), ~wrapped, n \in asked,
                      counter - stamped[Crc[n]] <= CacheSize - CacheDiscount
               PROVE  ret'
    OBVIOUS
  <2>1. Crc[n] \in DOMAIN stamped
    BY DEF IInv
  <2>2. Crc[n] \in DOMAIN recentBuffer
    BY <2>1, IInvImplies DEF WindowRemembered
  <2> QED BY <2>2 DEF SeenRecently, Seen
<1> QED
  BY <1>1, CacheInvariant, PTL DEF Spec, LoopDetected
-----------------------------------------------------------------------------
\* What is remembered was asked about, even after the counter wrapped.
Remembered == \A h \in DOMAIN recentBuffer : \E n \in asked : Crc[n] = h

\* A step adds the hash of the nonce it is asked about, at most.
LEMMA RememberedStep == Remembered /\ [Next]_vars => Remembered'
<1> SUFFICES ASSUME Remembered, [Next]_vars PROVE Remembered'
    OBVIOUS
<1>1. ASSUME NEW n \in Nonces, SeenRecently(n) PROVE Remembered'
  <2> DEFINE h == Crc[n]
             rb == IF Seen(h) THEN recentBuffer ELSE With(recentBuffer, h, counter)
             rev == IF Seen(h) THEN reverseBuffer ELSE With(reverseBuffer, counter, h)
  <2>1. recentBuffer' = Collect(rb, rev).recent /\ asked' = asked \cup {n}
    BY <1>1 DEF SeenRecently
  <2>2. DOMAIN rb \subseteq DOMAIN recentBuffer \cup {h}
    BY DEF With
  <2> HIDE DEF rb, rev
  <2>3. DOMAIN Collect(rb, rev).recent \subseteq DOMAIN rb
    BY DEF Collect, Without
  <2>4. ASSUME NEW g \in DOMAIN recentBuffer' PROVE \E m \in asked' : Crc[m] = g
    <3>1. g \in DOMAIN recentBuffer \/ g = h
      BY <2>1, <2>2, <2>3
    <3>2. CASE g = h
      BY <2>1, <3>2
    <3>3. CASE g \in DOMAIN recentBuffer
      BY <2>1, <3>3 DEF Remembered
    <3> QED BY <3>1, <3>2, <3>3
  <2> QED BY <2>4 DEF Remembered
<1>2. CASE UNCHANGED vars
  BY <1>2 DEF vars, code, history, Remembered
<1> QED BY <1>1, <1>2 DEF Next

\* A message with a nonce that was not asked about is not dropped, if no two nonces
\* share a CRC-32: before and after the counter wraps, and whatever was evicted.
THEOREM FreshAreRouted ==
    ASSUME \A m, n \in Nonces : Crc[m] = Crc[n] => m = n
    PROVE  Spec => FreshNotFiltered
<1> DEFINE Fresh == \A n \in Nonces : n \notin asked /\ n \in asked' => ~ret'
<1>1. Init => Remembered
  BY DEF Init, newRecentBuffer, Remembered
<1>2. TypeOK /\ Remembered /\ [Next]_vars => [Fresh]_vars
  <2> SUFFICES ASSUME TypeOK, Remembered, NEW m \in Nonces, SeenRecently(m),
                      NEW n \in Nonces, n \notin asked, n \in asked', ret'
               PROVE  FALSE
    BY DEF Next
  <2>1. n = m /\ Crc[n] \in DOMAIN recentBuffer
    BY DEF SeenRecently, Seen
  <2>2. PICK k \in asked : Crc[k] = Crc[n]
    BY <2>1 DEF Remembered
  <2>3. k \in Nonces
    BY DEF TypeOK
  <2> QED BY <2>2, <2>3
<1> QED BY <1>1, <1>2, RememberedStep, CacheTyped, PTL DEF Spec, FreshNotFiltered
=============================================================================
