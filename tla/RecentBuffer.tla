---------------------------- MODULE RecentBuffer ----------------------------
(***************************************************************************)
(* The loop-detection cache of the default router (router/default.go).    *)
(* Every routed message carries a random nonce; SeenRecently answers      *)
(* whether the nonce was routed already, remembers it, and evicts the     *)
(* entries with the smallest insertion counters when the cache is full.   *)
(*                                                                         *)
(* The cache is two maps that are meant to be each other's inverse: hash  *)
(* of the nonce -> insertion counter, and counter -> hash.  The hash is   *)
(* CRC-32, so two nonces may share one; the counter is an int that wraps  *)
(* to 0 after MaxInt32 insertions.  A mutex makes each call atomic.       *)
(***************************************************************************)
EXTENDS Integers, FiniteSets

CONSTANTS
    Nonces,         \* the nonces messages carry
    Hashes,         \* the values of crc32.ChecksumIEEE
    Crc,            \* the hash of each nonce
    ZeroHash,       \* 0, what a Go map yields for a missing key
    CacheSize,      \* cacheSize: a call leaves fewer entries than this
    CacheDiscount,  \* cacheDiscount: entries evicted by a collection
    MaxInt          \* math.MaxInt32, the last counter value before the wrap

ASSUME ConstantsAssumption ==
    /\ Crc \in [Nonces -> Hashes]
    /\ ZeroHash \in Hashes
    /\ CacheSize \in Nat /\ CacheDiscount \in Nat /\ MaxInt \in Nat
    /\ 0 < CacheDiscount /\ CacheDiscount < CacheSize
    /\ CacheSize <= MaxInt

VARIABLES
    recentBuffer,   \* hash -> counter, a function on the remembered hashes
    reverseBuffer,  \* counter -> hash
    counter,        \* the counter of the next insertion
    ret,            \* what the last call returned
    \* History, read by the properties only:
    asked,          \* the nonces SeenRecently was called with
    stamped,        \* hash -> counter of its last insertion, evicted or not
    wrapped         \* the counter went back to 0

code    == <<recentBuffer, reverseBuffer, counter, ret>>
history == <<asked, stamped, wrapped>>
vars    == <<code, history>>

Counters == 0 .. MaxInt

\* f without the keys in S, and f with f[k] = v.
Without(f, S) == [k \in DOMAIN f \ S |-> f[k]]
With(f, k, v) == [x \in DOMAIN f \cup {k} |-> IF x = k THEN v ELSE f[x]]

-----------------------------------------------------------------------------
newRecentBuffer ==
    /\ recentBuffer = << >>
    /\ reverseBuffer = << >>
    /\ counter = 0

Init ==
    /\ newRecentBuffer
    /\ ret = FALSE
    /\ asked = {}
    /\ stamped = << >>
    /\ wrapped = FALSE

NextCounter(c) == IF c = MaxInt THEN 0 ELSE c + 1

(***************************************************************************)
(* The loop over the sorted counters: the i-th smallest value v is taken   *)
(* while i < discount.  Equal values (after a wrap two hashes may hold the *)
(* same counter) fill several places of the sorted slice; the first visit  *)
(* deletes reverse[v], the later ones read the zero value of the map.      *)
(***************************************************************************)
\* Mutant: one entry too many is evicted.
Discount_OneMore(m) == (CacheSize - m) + CacheDiscount + 1

Discount(m) == (CacheSize - m) + CacheDiscount

Below(rb, v)  == {h \in DOMAIN rb : rb[h] < v}
Upto(rb, v)   == {h \in DOMAIN rb : rb[h] <= v}

Taken(rb)     == {v \in {rb[h] : h \in DOMAIN rb} :
                    Cardinality(Below(rb, v)) < Discount(Cardinality(DOMAIN rb))}
\* v is met twice within the first discount places.
TakenTwice(rb) == {v \in Taken(rb) :
                    /\ Cardinality(Upto(rb, v)) - Cardinality(Below(rb, v)) >= 2
                    /\ Cardinality(Below(rb, v)) + 1 < Discount(Cardinality(DOMAIN rb))}

Victims(rb, rev) ==
    {rev[v] : v \in Taken(rb) \cap DOMAIN rev}
      \cup (IF Taken(rb) \subseteq DOMAIN rev /\ TakenTwice(rb) = {}
              THEN {} ELSE {ZeroHash})

Full(rb) == Cardinality(DOMAIN rb) >= CacheSize

\* Mutant: the reverse map is not cleaned.
Collect_ReverseKept(rb, rev) ==
    [recent |-> IF Full(rb) THEN Without(rb, Victims(rb, rev)) ELSE rb, reverse |-> rev]

Collect(rb, rev) ==
    IF Full(rb)
      THEN [recent |-> Without(rb, Victims(rb, rev)), reverse |-> Without(rev, Taken(rb))]
      ELSE [recent |-> rb, reverse |-> rev]

\* Mutant: the map is read without testing that the key is there.
Seen_ZeroValue(h) ==
    (IF h \in DOMAIN recentBuffer THEN recentBuffer[h] ELSE 0) < counter

Seen(h) == h \in DOMAIN recentBuffer

SeenRecently(n) ==
    LET h    == Crc[n]
        seen == Seen(h)
        rb   == IF seen THEN recentBuffer ELSE With(recentBuffer, h, counter)
        rev  == IF seen THEN reverseBuffer ELSE With(reverseBuffer, counter, h)
        gc   == Collect(rb, rev)
    IN  /\ recentBuffer' = gc.recent
        /\ reverseBuffer' = gc.reverse
        /\ counter' = IF seen THEN counter ELSE NextCounter(counter)
        /\ ret' = seen
        /\ asked' = asked \cup {n}
        /\ stamped' = IF seen THEN stamped ELSE With(stamped, h, counter)
        /\ wrapped' = (wrapped \/ (~seen /\ counter = MaxInt))

Next == \E n \in Nonces : SeenRecently(n)

Spec == Init /\ [][Next]_vars

-----------------------------------------------------------------------------
(***************************************************************************)
(* Properties.                                                             *)
(***************************************************************************)
\* The two maps of RecentBuffer relate hashes and counters, at every step.
TypeOK ==
    /\ DOMAIN recentBuffer \subseteq Hashes
    /\ \A h \in DOMAIN recentBuffer : recentBuffer[h] \in Counters
    /\ DOMAIN reverseBuffer \subseteq Counters
    /\ \A c \in DOMAIN reverseBuffer : reverseBuffer[c] \in Hashes
    /\ counter \in Counters
    /\ ret \in BOOLEAN
    /\ asked \subseteq Nonces
    /\ DOMAIN stamped \subseteq Hashes
    /\ \A h \in DOMAIN stamped : stamped[h] \in Counters
    /\ wrapped \in BOOLEAN

\* Until the counter wraps, recentBuffer and reverseBuffer are inverse maps:
\* the eviction loop of SeenRecently removes the two halves of each pair.
MutualInverse ==
    ~wrapped =>
        /\ \A h \in DOMAIN recentBuffer :
             /\ recentBuffer[h] \in DOMAIN reverseBuffer
             /\ reverseBuffer[recentBuffer[h]] = h
        /\ \A c \in DOMAIN reverseBuffer :
             /\ reverseBuffer[c] \in DOMAIN recentBuffer
             /\ recentBuffer[reverseBuffer[c]] = c

\* Until the counter wraps, a call of SeenRecently leaves room in the cache:
\* the collection is never skipped and never too small.
BoundedCache == ~wrapped => Cardinality(DOMAIN recentBuffer) < CacheSize

\* Until the counter wraps, the cacheSize - cacheDiscount hashes inserted last
\* are all remembered: eviction by SeenRecently reaches the oldest ones only.
WindowRemembered ==
    ~wrapped =>
        \A h \in DOMAIN stamped :
            counter - stamped[h] <= CacheSize - CacheDiscount
                => h \in DOMAIN recentBuffer

\* Until the counter wraps, a nonce asked about within the window is reported
\* as seen, so Route drops the message that came round a loop.
LoopDetected ==
    [][ \A n \in Nonces :
          /\ SeenRecently(n)
          /\ ~wrapped
          /\ n \in asked
          /\ counter - stamped[Crc[n]] <= CacheSize - CacheDiscount
          => ret' ]_vars

\* A nonce never asked about is not reported as seen, so Route handles every
\* message at least once.  True only while no two nonces share a CRC-32.
FreshNotFiltered ==
    [][ \A n \in Nonces : n \notin asked /\ n \in asked' => ~ret' ]_vars

\* What SeenRecently was just asked about is remembered when it returns.
JustSeenRemembered ==
    [][ \A n \in Nonces : SeenRecently(n) => Crc[n] \in DOMAIN recentBuffer' ]_vars
=============================================================================
