--------------------------- MODULE MessageProofs ---------------------------
(***************************************************************************)
(* Proofs about the in-memory node's messages: the outbox (RamOutbox), for *)
(* any readers, channels and bounds, and long messages (Reassembly), for   *)
(* any messages, sizes, limits and stores.                                 *)
(*                                                                         *)
(* Writers stamp a message before they take the mutex, so the queue need   *)
(* not be in the order of its time stamps.  QueueInv says what holds all   *)
(* the same: it is in the order of the appends, a cursor is the time of    *)
(* something appended, and what is before it was given, if it came in its  *)
(* turn.  The rest is about the code's loops: MsgsSince takes a prefix of  *)
(* what the reader wants, and the range loop of Flush, whose slice shrinks *)
(* under it, leaves a part of the queue in its order, with all the young   *)
(* messages if the last one is young.                                      *)
(*                                                                         *)
(* The chunks that are filed under a number are some of those its message  *)
(* was cut into, if no other message has the number (WholeInv); when they  *)
(* are as many as the header says they are all of them, and joining them   *)
(* gives back the message.  OnceInv counts the headers, one to a message:  *)
(* the one of a stream that was put on Out does not come again.            *)
(*                                                                         *)
(* Loops are followed by recursive functions, and what holds of them by    *)
(* induction up to the length of the queue or the number of chunks.        *)
(***************************************************************************)
EXTENDS RamOutbox, Reassembly, FiniteSetTheorems, SequenceTheorems, WellFoundedInduction, TLAPS

\* A non-empty bounded set of naturals has the maximum that Max chooses.
LEMMA MaxOfBounded ==
    ASSUME NEW N \in Nat, NEW S \in SUBSET (0 .. N), S # {}
    PROVE  Max(S) \in S /\ \A x \in S : x <= Max(S)
<1> DEFINE T == {k \in Nat : N - k \in S}
<1>1. T \subseteq Nat /\ T # {}
  <2>1. PICK x \in S : TRUE
        OBVIOUS
  <2>2. N - x \in Nat /\ N - (N - x) = x
        BY <2>1
  <2> QED BY <2>1, <2>2
<1>2. PICK k \in T : \A j \in T : ~ (<<j, k>> \in OpToRel(<, Nat))
      BY <1>1, NatLessThanWellFounded, WFMin
<1>3. \A j \in T : ~ (j < k)
      BY <1>2 DEF OpToRel
<1>4. N - k \in S
      BY <1>2
<1>5. \A x \in S : N - k >= x
  <2>1. TAKE x \in S
  <2>2. N - x \in T
        BY <2>1
  <2> QED BY <1>3, <2>1, <2>2
<1> QED BY <1>4, <1>5 DEF Max

\* Induction up to a bound, with the property as a set.
LEMMA BoundedInduction ==
    ASSUME NEW N \in Nat, NEW S, 0 \in S, \A i \in 0 .. N : i < N /\ i \in S => i + 1 \in S
    PROVE  \A i \in 0 .. N : i \in S
<1> SUFFICES ASSUME NEW b \in 0 .. N, b \notin S
             PROVE  FALSE
    OBVIOUS
<1> DEFINE T == {i \in 0 .. N : i \notin S}
<1>1. T \subseteq Nat /\ T # {}
      OBVIOUS
<1>2. PICK k \in T : \A j \in T : ~ (<<j, k>> \in OpToRel(<, Nat))
      BY <1>1, NatLessThanWellFounded, WFMin
<1>3. \A j \in T : ~ (j < k)
      BY <1>1, <1>2 DEF OpToRel
<1>4. k # 0 /\ k \in 0 .. N
      BY <1>2
<1>5. k - 1 \in 0 .. N /\ k - 1 < N /\ k - 1 < k /\ (k - 1) + 1 = k
      BY <1>4
<1>6. k - 1 \in S
      BY <1>3, <1>5
<1> QED BY <1>2, <1>5, <1>6

\* A function that starts with a and follows the steps of a loop.
Follows(f, n, a, step) ==
    f[0] = a /\ \A i \in 0 .. n : i # 0 => f[i] = step[<<f[i - 1], i>>]

\* A loop has a function that follows it.
LEMMA WalkExists ==
    ASSUME NEW N \in Nat, NEW S, NEW a \in S, NEW step \in [S \X Nat -> S]
    PROVE  \E f \in [0 .. N -> S] : Follows(f, N, a, step)
<1> DEFINE Good == {n \in Nat : \E f \in [0 .. n -> S] : Follows(f, n, a, step)}
<1>1. 0 \in Good
  <2> DEFINE f == [i \in 0 .. 0 |-> a]
  <2>1. f \in [0 .. 0 -> S] /\ Follows(f, 0, a, step)
        BY DEF Follows
  <2> QED BY <2>1
<1>2. ASSUME NEW n \in 0 .. N, n < N, n \in Good
      PROVE  n + 1 \in Good
  <2>1. PICK f \in [0 .. n -> S] : Follows(f, n, a, step)
        BY <1>2
  <2> DEFINE v == step[<<f[n], n + 1>>]
             g == [i \in 0 .. n + 1 |-> IF i <= n THEN f[i] ELSE v]
  <2>2. n + 1 \in Nat /\ f[n] \in S
        OBVIOUS
  <2>3. v \in S
        BY <2>2
  <2> HIDE DEF v
  <2>4. g \in [0 .. n + 1 -> S]
        BY <2>3
  <2>5. \A i \in 0 .. n : g[i] = f[i]
        OBVIOUS
  <2>6. g[n + 1] = v
        OBVIOUS
  <2>7. ASSUME NEW i \in 0 .. n + 1, i # 0
        PROVE  g[i] = step[<<g[i - 1], i>>]
    <3>1. CASE i = n + 1
      <4>1. i - 1 = n /\ g[i - 1] = f[n]
            BY <2>5, <3>1
      <4> QED BY <2>6, <3>1, <4>1 DEF v
    <3>2. CASE i # n + 1
      <4>1. i \in 0 .. n /\ i - 1 \in 0 .. n
            BY <2>7, <3>2
      <4>2. g[i] = f[i] /\ g[i - 1] = f[i - 1]
            BY <2>5, <4>1
      <4> QED BY <2>1, <2>7, <4>1, <4>2 DEF Follows
    <3> QED BY <3>1, <3>2
  <2>8. g[0] = a
        BY <2>1, <2>5 DEF Follows
  <2> HIDE DEF g
  <2>9. Follows(g, n + 1, a, step)
        BY <2>7, <2>8 DEF Follows
  <2> QED BY <2>2, <2>4, <2>9
<1> HIDE DEF Good
<1>3. N \in Good
      BY <1>1, <1>2, BoundedInduction
<1> QED BY <1>3 DEF Good

-----------------------------------------------------------------------------
(***************************************************************************)
(* The range loop of Flush.                                                *)
(***************************************************************************)
Walks == [arr : [1 .. Len(outbox) -> Msgs], len : 0 .. Len(outbox)]

\* One message was appended before another.
CameIn(x, y) == \E a, b \in DOMAIN posted : a < b /\ posted[a] = x /\ posted[b] = y

AsPosted(q, n) == \A j, k \in 1 .. n : j < k => CameIn(q[j], q[k])

\* Whatever the loop drops, what it keeps is of the queue and in its order.
SubQueue(w) ==
    /\ w \in Walks
    /\ AsPosted(w.arr, w.len)
    /\ \A j \in 1 .. Len(outbox) : w.arr[j] \in ToSet(outbox)

\* If the last message is young, it stays the last, every position past the length
\* has a copy of it, and the loop keeps every young message.
FreshKept(w) ==
    /\ w \in Walks /\ w.len # 0
    /\ \A j \in 1 .. Len(outbox) : w.len <= j => w.arr[j] = outbox[Len(outbox)]
    /\ \A m \in ToSet(outbox) : ~IsOld(m) => \E j \in 1 .. w.len : w.arr[j] = m

\* What the time stamps are.
LEMMA Stamps ==
    ASSUME NEW m \in Msgs
    PROVE  /\ m.timeStamp \in Nat /\ m.timeStamp \in 0 .. MaxTime /\ m.timeStamp > 0
           /\ m.id \in 1 .. MaxMsgs
BY OutboxAssumption DEF Msgs

\* One element of the range: nothing, a removal, or the end of the queue.
LEMMA FlushStepCases ==
    ASSUME NEW w \in Walks, NEW i \in 1 .. Len(outbox), outbox \in Seq(Msgs), now \in Nat
    PROVE  LET v == FlushStep(w, i, Cutoff) IN
           /\ v \in Walks
           /\ \/ ~IsOld(w.arr[i]) /\ v = w
              \/ /\ IsOld(w.arr[i]) /\ i <= w.len /\ v.len = w.len - 1
                 /\ \A j \in 1 .. Len(outbox) :
                      v.arr[j] = IF i <= j /\ j < w.len THEN w.arr[j + 1] ELSE w.arr[j]
              \/ IsOld(w.arr[i]) /\ i > w.len /\ v.len = 0 /\ v.arr = w.arr
<1> DEFINE n == Len(outbox)
           v == FlushStep(w, i, Cutoff)
           moved == [j \in 1 .. n |->
                       IF i <= j /\ j < w.len THEN w.arr[j + 1] ELSE w.arr[j]]
<1>1. n \in Nat /\ w.arr \in [1 .. n -> Msgs] /\ w.len \in 0 .. n /\ w.len \in Nat
      BY DEF Walks
<1>2. DOMAIN w.arr = 1 .. n /\ w.arr[i] \in Msgs
      BY <1>1
<1>3. Cutoff \in Int /\ w.arr[i].timeStamp \in Nat
      BY <1>2, Stamps, OutboxAssumption DEF Cutoff
<1>4. IsOld(w.arr[i]) <=> ~(w.arr[i].timeStamp >= Cutoff)
      BY <1>3 DEF IsOld
<1>5. CASE ~IsOld(w.arr[i])
      BY <1>4, <1>5 DEF FlushStep
<1>6. CASE IsOld(w.arr[i]) /\ i <= w.len
  <2>1. v = [arr |-> moved, len |-> w.len - 1]
        BY <1>2, <1>4, <1>6 DEF FlushStep
  <2>2. w.len - 1 \in 0 .. n
        BY <1>1, <1>6
  <2>3. moved \in [1 .. n -> Msgs]
    <3>1. ASSUME NEW j \in 1 .. n
          PROVE  (IF i <= j /\ j < w.len THEN w.arr[j + 1] ELSE w.arr[j]) \in Msgs
      <4>1. i <= j /\ j < w.len => j + 1 \in 1 .. n
            BY <1>1
      <4> QED BY <1>1, <4>1
    <3> QED BY <3>1
  <2>4. v \in Walks
        BY <2>1, <2>2, <2>3 DEF Walks
  <2>5. v.len = w.len - 1 /\ v.arr = moved
        BY <2>1
  <2> HIDE DEF v
  <2> QED BY <1>6, <2>4, <2>5 DEF v
<1>7. CASE IsOld(w.arr[i]) /\ ~(i <= w.len)
  <2>1. v = [w EXCEPT !.len = 0]
        BY <1>1, <1>4, <1>7 DEF FlushStep
  <2>2. v \in Walks /\ v.len = 0 /\ v.arr = w.arr
        BY <2>1, <1>1 DEF Walks
  <2> HIDE DEF v
  <2> QED BY <1>1, <1>7, <2>2 DEF v
<1> QED BY <1>5, <1>6, <1>7

\* An element of the range leaves a part of the queue in its order.
LEMMA SubQueueStep ==
    ASSUME NEW w, SubQueue(w), NEW i \in 1 .. Len(outbox), outbox \in Seq(Msgs), now \in Nat
    PROVE  SubQueue(FlushStep(w, i, Cutoff))
<1> DEFINE n == Len(outbox)
           v == FlushStep(w, i, Cutoff)
<1>1. n \in Nat /\ w \in Walks /\ w.arr \in [1 .. n -> Msgs] /\ w.len \in 0 .. n /\ w.len \in Nat
      BY DEF Walks, SubQueue
<1>2. /\ v \in Walks
      /\ \/ ~IsOld(w.arr[i]) /\ v = w
         \/ /\ IsOld(w.arr[i]) /\ i <= w.len /\ v.len = w.len - 1
            /\ \A j \in 1 .. n :
                 v.arr[j] = IF i <= j /\ j < w.len THEN w.arr[j + 1] ELSE w.arr[j]
         \/ IsOld(w.arr[i]) /\ i > w.len /\ v.len = 0 /\ v.arr = w.arr
      BY <1>1, FlushStepCases
<1> HIDE DEF v
<1>3. CASE v = w
      BY <1>3 DEF v
<1>4. CASE /\ IsOld(w.arr[i]) /\ i <= w.len /\ v.len = w.len - 1
           /\ \A j \in 1 .. n :
                v.arr[j] = IF i <= j /\ j < w.len THEN w.arr[j + 1] ELSE w.arr[j]
  <2>1. AsPosted(v.arr, v.len)
    <3> SUFFICES ASSUME NEW j \in 1 .. v.len, NEW k \in 1 .. v.len, j < k
                 PROVE  CameIn(v.arr[j], v.arr[k])
        BY DEF AsPosted
    <3>1. j \in 1 .. n /\ k \in 1 .. n /\ j < w.len /\ k < w.len
          BY <1>1, <1>4
    <3> DEFINE from(x) == IF i <= x THEN x + 1 ELSE x
    <3>2. ASSUME NEW x \in 1 .. n, x < w.len
          PROVE  from(x) \in 1 .. w.len /\ v.arr[x] = w.arr[from(x)]
      <4>1. CASE i <= x
            BY <1>1, <1>4, <3>2, <4>1
      <4>2. CASE ~(i <= x)
            BY <1>1, <1>4, <3>2, <4>2
      <4> QED BY <4>1, <4>2
    <3>3. from(j) < from(k)
          BY <3>1
    <3> HIDE DEF from
    <3>4. /\ from(j) \in 1 .. w.len /\ v.arr[j] = w.arr[from(j)]
          /\ from(k) \in 1 .. w.len /\ v.arr[k] = w.arr[from(k)]
          BY <3>1, <3>2
    <3> QED BY <3>3, <3>4 DEF SubQueue, AsPosted
  <2>2. \A j \in 1 .. n : v.arr[j] \in ToSet(outbox)
    <3> TAKE j \in 1 .. n
    <3>1. j < w.len => j + 1 \in 1 .. n
          BY <1>1
    <3> QED BY <1>4, <3>1 DEF SubQueue
  <2> QED BY <1>2, <2>1, <2>2 DEF SubQueue, v
<1>5. CASE IsOld(w.arr[i]) /\ i > w.len /\ v.len = 0 /\ v.arr = w.arr
  <2>1. 1 .. v.len = {}
        BY <1>5
  <2>2. AsPosted(v.arr, v.len)
        BY <2>1 DEF AsPosted
  <2>3. \A j \in 1 .. n : v.arr[j] \in ToSet(outbox)
        BY <1>5 DEF SubQueue
  <2> QED BY <1>2, <2>2, <2>3 DEF SubQueue, v
<1> QED BY <1>2, <1>3, <1>4, <1>5

\* An element of the range takes no young message if the last one is young.
LEMMA FreshStep ==
    ASSUME NEW w, FreshKept(w), NEW i \in 1 .. Len(outbox), outbox \in Seq(Msgs), now \in Nat,
           ~IsOld(outbox[Len(outbox)])
    PROVE  FreshKept(FlushStep(w, i, Cutoff))
<1> DEFINE n == Len(outbox)
           v == FlushStep(w, i, Cutoff)
<1>1. n \in Nat /\ w \in Walks /\ w.arr \in [1 .. n -> Msgs] /\ w.len \in 1 .. n /\ w.len \in Nat
      BY DEF Walks, FreshKept
<1>2. /\ v \in Walks
      /\ \/ ~IsOld(w.arr[i]) /\ v = w
         \/ /\ IsOld(w.arr[i]) /\ i <= w.len /\ v.len = w.len - 1
            /\ \A j \in 1 .. n :
                 v.arr[j] = IF i <= j /\ j < w.len THEN w.arr[j + 1] ELSE w.arr[j]
         \/ IsOld(w.arr[i]) /\ i > w.len /\ v.len = 0 /\ v.arr = w.arr
      BY <1>1, FlushStepCases
<1>3. \A j \in 1 .. n : w.len <= j => w.arr[j] = outbox[n]
      BY DEF FreshKept
<1>4. IsOld(w.arr[i]) => i < w.len
  <2>1. i >= w.len => ~IsOld(w.arr[i])
        BY <1>1, <1>3
  <2> QED BY <1>1, <2>1
<1> HIDE DEF v
<1>5. CASE v = w
      BY <1>5 DEF v
<1>6. CASE /\ IsOld(w.arr[i]) /\ i <= w.len /\ v.len = w.len - 1
           /\ \A j \in 1 .. n :
                v.arr[j] = IF i <= j /\ j < w.len THEN w.arr[j + 1] ELSE w.arr[j]
  <2>1. i < w.len /\ v.len # 0
        BY <1>1, <1>4, <1>6
  <2>2. ASSUME NEW j \in 1 .. n, v.len <= j
        PROVE  v.arr[j] = outbox[n]
    <3>1. CASE j < w.len
      <4>1. i <= j /\ j + 1 = w.len /\ j + 1 \in 1 .. n
            BY <1>1, <1>6, <2>1, <2>2, <3>1
      <4>2. v.arr[j] = w.arr[j + 1]
            BY <1>6, <3>1, <4>1
      <4>3. w.arr[w.len] = outbox[n]
            BY <1>1, <1>3
      <4> QED BY <4>1, <4>2, <4>3
    <3>2. CASE ~(j < w.len)
      <4>1. w.len <= j /\ v.arr[j] = w.arr[j]
            BY <1>1, <1>6, <3>2
      <4> QED BY <1>3, <4>1
    <3> QED BY <3>1, <3>2
  <2>3. ASSUME NEW m \in ToSet(outbox), ~IsOld(m)
        PROVE  \E j \in 1 .. v.len : v.arr[j] = m
    <3>1. PICK k \in 1 .. w.len : w.arr[k] = m
          BY <2>3 DEF FreshKept
    <3>2. k # i
          BY <1>6, <2>3, <3>1
    <3>3. CASE k < i
      <4>1. k \in 1 .. v.len /\ k \in 1 .. n /\ v.arr[k] = w.arr[k]
            BY <1>1, <1>6, <3>3
      <4> QED BY <3>1, <4>1
    <3>4. CASE k > i
      <4>1. k - 1 \in 1 .. v.len /\ k - 1 \in 1 .. n /\ i <= k - 1 /\ k - 1 < w.len
            BY <1>1, <1>6, <3>4
      <4>2. v.arr[k - 1] = w.arr[(k - 1) + 1]
            BY <1>6, <4>1
      <4> QED BY <3>1, <4>1, <4>2
    <3> QED BY <3>2, <3>3, <3>4
  <2> QED BY <1>2, <2>1, <2>2, <2>3 DEF FreshKept, v
<1> QED BY <1>1, <1>2, <1>4, <1>5, <1>6

\* The recursion of the loop, unfolded.
LEMMA WalkUnfolds ==
    ASSUME outbox \in Seq(Msgs), now \in Nat
    PROVE  /\ FlushWalk[0] = [arr |-> outbox, len |-> Len(outbox)]
           /\ \A i \in 0 .. Len(outbox) :
                i # 0 => FlushWalk[i] = FlushStep(FlushWalk[i - 1], i, Cutoff)
<1> DEFINE n == Len(outbox)
           a == [arr |-> outbox, len |-> n]
           F(w, i) == FlushStep(w, i, Cutoff)
           step == [x \in Walks \X Nat |-> IF x[2] \in 1 .. n THEN F(x[1], x[2]) ELSE x[1]]
<1>1. n \in Nat /\ a \in Walks
      BY DEF Walks
<1>2. \A w \in Walks : \A i \in 1 .. n : F(w, i) \in Walks
      BY FlushStepCases
<1> HIDE DEF a, F
<1>3. step \in [Walks \X Nat -> Walks]
      BY <1>2
<1>4. \A w \in Walks : \A i \in 1 .. n : step[<<w, i>>] = F(w, i)
  <2> SUFFICES ASSUME NEW w \in Walks, NEW i \in 1 .. n PROVE step[<<w, i>>] = F(w, i)
      OBVIOUS
  <2>1. <<w, i>> \in Walks \X Nat /\ <<w, i>>[1] = w /\ <<w, i>>[2] = i
        OBVIOUS
  <2> HIDE DEF n
  <2> QED BY <2>1
<1> HIDE DEF step
<1>5. PICK f \in [0 .. n -> Walks] : Follows(f, n, a, step)
      BY <1>1, <1>3, WalkExists
<1>6. \A i \in 0 .. n : i # 0 => f[i] = F(f[i - 1], i)
  <2> SUFFICES ASSUME NEW i \in 0 .. n, i # 0 PROVE f[i] = F(f[i - 1], i)
      OBVIOUS
  <2>1. i \in 1 .. n /\ i - 1 \in 0 .. n
        BY <1>1
  <2>2. f[i - 1] \in Walks
        BY <2>1
  <2> QED BY <1>4, <1>5, <2>1, <2>2 DEF Follows
<1> DEFINE Unfolds(g) == g = [i \in 0 .. n |-> IF i = 0 THEN a ELSE F(g[i - 1], i)]
<1>7. Unfolds(f)
      BY <1>5, <1>6 DEF Follows
<1>8. FlushWalk = CHOOSE g : Unfolds(g)
      BY DEF FlushWalk, a, F
<1>9. Unfolds(FlushWalk)
  <2> HIDE DEF Unfolds
  <2> QED BY <1>7, <1>8
<1>10. \A i \in 0 .. n : FlushWalk[i] = IF i = 0 THEN a ELSE F(FlushWalk[i - 1], i)
       BY <1>9
<1>11. 0 \in 0 .. n
       BY <1>1
<1> QED BY <1>10, <1>11 DEF a, F

\* What Flush leaves, from what the loop ends with.
LEMMA FlushedIs ==
    ASSUME outbox \in Seq(Msgs), NEW w \in Walks, w = FlushWalk[Len(outbox)]
    PROVE  /\ Flushed \in Seq(Msgs) /\ Len(Flushed) = w.len /\ DOMAIN Flushed = 1 .. w.len
           /\ \A i \in 1 .. w.len : Flushed[i] = w.arr[i]
<1> DEFINE n == Len(outbox)
           k == w.len
<1>1. Flushed = SubSeq(w.arr, 1, k)
      BY DEF Flushed
<1>2. w.arr \in [1 .. n -> Msgs] /\ k \in 0 .. n /\ k \in Nat
      BY DEF Walks
<1>3. Flushed = [i \in 1 .. k |-> w.arr[i]]
      BY <1>1, <1>2
<1>4. \A i \in 1 .. k : w.arr[i] \in Msgs
      BY <1>2
<1> HIDE DEF k
<1>5. Flushed \in Seq(Msgs) /\ Len(Flushed) = k /\ DOMAIN Flushed = 1 .. k
      BY <1>2, <1>3, <1>4
<1> QED BY <1>3, <1>5 DEF k

\* What holds at the start of the range and is kept by its elements holds at its end.
LEMMA WalkEnds ==
    ASSUME outbox \in Seq(Msgs), now \in Nat, NEW S,
           [arr |-> outbox, len |-> Len(outbox)] \in S,
           \A w \in S : \A i \in 1 .. Len(outbox) : FlushStep(w, i, Cutoff) \in S
    PROVE  FlushWalk[Len(outbox)] \in S
<1> DEFINE n == Len(outbox)
           T == {i \in 0 .. n : FlushWalk[i] \in S}
<1>1. n \in Nat
      OBVIOUS
<1>2. 0 \in T
      BY <1>1, WalkUnfolds
<1>3. ASSUME NEW i \in 0 .. n, i < n, i \in T
      PROVE  i + 1 \in T
  <2>1. i + 1 \in 1 .. n /\ i + 1 \in 0 .. n /\ i + 1 # 0 /\ (i + 1) - 1 = i
        BY <1>1, <1>3
  <2>2. FlushWalk[i + 1] = FlushStep(FlushWalk[i], i + 1, Cutoff)
        BY <2>1, WalkUnfolds
  <2> QED BY <1>3, <2>1, <2>2
<1> HIDE DEF T
<1>4. \A i \in 0 .. n : i \in T
      BY <1>1, <1>2, <1>3, BoundedInduction
<1> QED BY <1>1, <1>4 DEF T

\* The range starts with the queue itself.
LEMMA WalkStarts ==
    ASSUME outbox \in Seq(Msgs), NEW a, a = [arr |-> outbox, len |-> Len(outbox)]
    PROVE  /\ a \in Walks /\ a.arr = outbox /\ a.len = Len(outbox)
           /\ \A j \in 1 .. Len(outbox) : outbox[j] \in ToSet(outbox)
           /\ \A m \in ToSet(outbox) : \E j \in 1 .. Len(outbox) : outbox[j] = m
<1>1. a \in Walks /\ a.arr = outbox /\ a.len = Len(outbox)
      BY DEF Walks
<1>2. DOMAIN outbox = 1 .. Len(outbox)
      OBVIOUS
<1> QED BY <1>1, <1>2 DEF ToSet

\* Flush leaves messages.
LEMMA FlushedTyped ==
    ASSUME outbox \in Seq(Msgs), now \in Nat
    PROVE  Flushed \in Seq(Msgs)
<1>1. \A w \in Walks : \A i \in 1 .. Len(outbox) : FlushStep(w, i, Cutoff) \in Walks
      BY FlushStepCases
<1>2. [arr |-> outbox, len |-> Len(outbox)] \in Walks
      BY WalkStarts
<1>3. FlushWalk[Len(outbox)] \in Walks
      BY <1>1, <1>2, WalkEnds
<1> QED BY <1>3, FlushedIs

\* They are of the queue and in its order.
LEMMA FlushedInOrder ==
    ASSUME outbox \in Seq(Msgs), now \in Nat, AsPosted(outbox, Len(outbox))
    PROVE  AsPosted(Flushed, Len(Flushed)) /\ ToSet(Flushed) \subseteq ToSet(outbox)
<1> DEFINE S == {w \in Walks : SubQueue(w)}
           a == [arr |-> outbox, len |-> Len(outbox)]
<1>1. \A w \in S : \A i \in 1 .. Len(outbox) : FlushStep(w, i, Cutoff) \in S
  <2> SUFFICES ASSUME NEW w \in S, NEW i \in 1 .. Len(outbox)
               PROVE  FlushStep(w, i, Cutoff) \in S
      OBVIOUS
  <2>1. SubQueue(FlushStep(w, i, Cutoff))
        BY SubQueueStep
  <2> QED BY <2>1 DEF SubQueue
<1>2. a \in S
  <2>1. SubQueue(a)
        BY WalkStarts DEF SubQueue
  <2> QED BY <2>1 DEF SubQueue
<1> HIDE DEF S
<1>3. FlushWalk[Len(outbox)] \in S
      BY <1>1, <1>2, WalkEnds
<1>4. PICK w \in Walks : w = FlushWalk[Len(outbox)] /\ SubQueue(w)
      BY <1>3 DEF S
<1>5. /\ Len(Flushed) = w.len /\ DOMAIN Flushed = 1 .. w.len
      /\ \A i \in 1 .. w.len : Flushed[i] = w.arr[i]
      BY <1>4, FlushedIs
<1>6. AsPosted(Flushed, Len(Flushed))
      BY <1>4, <1>5 DEF SubQueue, AsPosted
<1>7. ASSUME NEW i \in 1 .. w.len PROVE Flushed[i] \in ToSet(outbox)
  <2>1. i \in 1 .. Len(outbox)
        BY DEF Walks
  <2> QED BY <1>4, <1>5, <2>1 DEF SubQueue
<1> QED BY <1>5, <1>6, <1>7 DEF ToSet

\* No young message is missing, unless the last of the queue is old.
LEMMA FlushedFresh ==
    ASSUME outbox \in Seq(Msgs), now \in Nat, NEW m \in ToSet(outbox), ~IsOld(m),
           ~IsOld(outbox[Len(outbox)])
    PROVE  m \in ToSet(Flushed)
<1> DEFINE S == {w \in Walks : FreshKept(w)}
           a == [arr |-> outbox, len |-> Len(outbox)]
           n == Len(outbox)
<1>1. \A w \in S : \A i \in 1 .. Len(outbox) : FlushStep(w, i, Cutoff) \in S
  <2> SUFFICES ASSUME NEW w \in S, NEW i \in 1 .. Len(outbox)
               PROVE  FlushStep(w, i, Cutoff) \in S
      OBVIOUS
  <2>1. FreshKept(FlushStep(w, i, Cutoff))
        BY FreshStep
  <2> QED BY <2>1 DEF FreshKept
<1>2. a \in S
  <2>1. n # 0 /\ n \in Nat
        BY DEF ToSet
  <2>2. \A j \in 1 .. n : n <= j => outbox[j] = outbox[n]
        BY <2>1
  <2>3. /\ a \in Walks /\ a.arr = outbox /\ a.len = n
        /\ \A x \in ToSet(outbox) : \E j \in 1 .. n : outbox[j] = x
        BY WalkStarts
  <2> HIDE DEF a, n
  <2>4. FreshKept(a)
        BY <2>1, <2>2, <2>3 DEF FreshKept, n
  <2> QED BY <2>3, <2>4
<1> HIDE DEF S
<1>3. FlushWalk[Len(outbox)] \in S
      BY <1>1, <1>2, WalkEnds
<1>4. PICK w \in Walks : w = FlushWalk[Len(outbox)] /\ FreshKept(w)
      BY <1>3 DEF S
<1>5. DOMAIN Flushed = 1 .. w.len /\ \A i \in 1 .. w.len : Flushed[i] = w.arr[i]
      BY <1>4, FlushedIs
<1>6. PICK j \in 1 .. w.len : w.arr[j] = m
      BY <1>4 DEF FreshKept
<1> QED BY <1>5, <1>6 DEF ToSet

-----------------------------------------------------------------------------
(***************************************************************************)
(* What MsgsSince takes.                                                   *)
(***************************************************************************)
\* The range of a sequence that grew.
LEMMA RangeOfAppend ==
    ASSUME NEW S, NEW q \in Seq(S), NEW m \in S
    PROVE  /\ Append(q, m) \in Seq(S) /\ Len(Append(q, m)) = Len(q) + 1
           /\ \A i \in 1 .. Len(q) : Append(q, m)[i] = q[i]
           /\ Append(q, m)[Len(q) + 1] = m
           /\ ToSet(Append(q, m)) = ToSet(q) \cup {m}
<1>1. /\ Append(q, m) \in Seq(S) /\ Len(Append(q, m)) = Len(q) + 1
      /\ \A i \in 1 .. Len(q) : Append(q, m)[i] = q[i]
      /\ Append(q, m)[Len(q) + 1] = m
      OBVIOUS
<1> DEFINE p == Append(q, m)
<1>2. DOMAIN p = 1 .. Len(q) + 1 /\ DOMAIN q = 1 .. Len(q) /\ Len(q) \in Nat
      OBVIOUS
<1> HIDE DEF p
<1>3. \A x \in ToSet(p) : x \in ToSet(q) \cup {m}
  <2> SUFFICES ASSUME NEW i \in 1 .. Len(q) + 1 PROVE p[i] \in ToSet(q) \cup {m}
      BY <1>2 DEF ToSet
  <2>1. CASE i = Len(q) + 1
        BY <1>1, <2>1 DEF p
  <2>2. CASE i # Len(q) + 1
    <3>1. i \in 1 .. Len(q)
          BY <1>2, <2>2
    <3> QED BY <1>1, <1>2, <3>1 DEF p, ToSet
  <2> QED BY <2>1, <2>2
<1>4. \A x \in ToSet(q) \cup {m} : x \in ToSet(p)
  <2>1. m \in ToSet(p)
    <3>1. Len(q) + 1 \in DOMAIN p /\ p[Len(q) + 1] = m
          BY <1>1, <1>2 DEF p
    <3> QED BY <3>1 DEF ToSet
  <2>2. ASSUME NEW i \in 1 .. Len(q) PROVE q[i] \in ToSet(p)
    <3>1. i \in DOMAIN p /\ p[i] = q[i]
          BY <1>1, <1>2 DEF p
    <3> QED BY <3>1 DEF ToSet
  <2> QED BY <1>2, <2>1, <2>2 DEF ToSet
<1> QED BY <1>1, <1>3, <1>4 DEF p

\* The loop stops at the first message that does not fit.
LEMMA PickedIsPrefix ==
    ASSUME NEW r \in Readers, NEW i \in Picked(r), NEW j \in Candidates(r), j <= i,
           outbox \in Seq(Msgs)
    PROVE  j \in Picked(r)
<1>1. i \in Nat /\ j \in Nat
      BY DEF Picked, Candidates
<1>2. ASSUME NEW x \in Candidates(r), x <= j PROVE Fits(r, x)
  <2>1. x \in Nat /\ x <= i
        BY <1>1, <1>2 DEF Candidates
  <2> QED BY <2>1 DEF Picked
<1> QED BY <1>2 DEF Picked

\* The time returned is that of the last message taken, or the one given.
LEMMA CursorMoves ==
    ASSUME TypeOK, NEW r \in Readers
    PROVE  LET next == NextCursor(r, Picked(r)) IN
           /\ Picked(r) \subseteq 1 .. Len(outbox)
           /\ next \in 0 .. MaxTime /\ cursor[r] <= next
           /\ Picked(r) = {} => next = cursor[r]
           /\ Picked(r) # {} => /\ cursor[r] < next
                                /\ \E i \in Picked(r) : /\ next = outbox[i].timeStamp
                                                        /\ \A j \in Picked(r) : j <= i
<1> DEFINE P == Picked(r)
           next == NextCursor(r, P)
           n == Len(outbox)
<1>1. outbox \in Seq(Msgs) /\ n \in Nat /\ cursor[r] \in 0 .. MaxTime
      BY DEF TypeOK
<1>2. P \subseteq 1 .. n /\ \A i \in P : cursor[r] < outbox[i].timeStamp
      BY <1>1 DEF Picked, Candidates
<1> HIDE DEF P, n
<1>3. CASE P = {}
      BY <1>1, <1>2, <1>3, OutboxAssumption DEF NextCursor, P, n
<1>4. CASE P # {}
  <2>1. P \in SUBSET (0 .. n)
        BY <1>1, <1>2
  <2> DEFINE x == Max(P)
  <2>2. x \in P /\ \A j \in P : j <= x
        BY <1>1, <1>4, <2>1, MaxOfBounded
  <2>3. next = outbox[x].timeStamp
        BY <1>4 DEF NextCursor
  <2> HIDE DEF x
  <2>4. x \in 1 .. n
        BY <1>2, <2>2
  <2>5. outbox[x] \in Msgs
        BY <1>1, <2>4 DEF n
  <2>6. next \in 0 .. MaxTime /\ next \in Nat
        BY <2>3, <2>5, Stamps
  <2>7. cursor[r] < next
        BY <1>2, <2>2, <2>3
  <2> HIDE DEF next
  <2>8. cursor[r] <= next
        BY <1>1, <2>6, <2>7
  <2> QED BY <1>2, <1>4, <2>2, <2>3, <2>6, <2>7, <2>8 DEF P, n, next
<1> QED BY <1>3, <1>4

-----------------------------------------------------------------------------
(***************************************************************************)
(* Types.                                                                  *)
(***************************************************************************)
\* What a writer holds is a message, or nothing.
LEMMA PendingTyped ==
    ASSUME TypeOK, NEW w \in Writers, pending[w] # None
    PROVE  pending[w] \in Msgs
BY DEF TypeOK

\* The variables stay typed.
LEMMA TypeStep == TypeOK /\ [Next]_vars => TypeOK'
<1> SUFFICES ASSUME TypeOK, [Next]_vars PROVE TypeOK'
    OBVIOUS
<1> USE DEF queue, history
<1>1. ASSUME NEW w \in Writers, NEW c \in Channels, NEW s \in Sizes, Stamp(w, c, s)
      PROVE  TypeOK'
  <2>1. PICK t \in Readings :
          /\ now' = t
          /\ pending' = [pending EXCEPT ![w] =
                           [id |-> made + 1, channel |-> c, size |-> s, timeStamp |-> t]]
        BY <1>1 DEF Stamp
  <2> DEFINE m == [id |-> made + 1, channel |-> c, size |-> s, timeStamp |-> t]
  <2>2. t \in 1 .. MaxTime /\ t \in 0 .. MaxTime
        BY OutboxAssumption DEF Readings, TypeOK
  <2>3. made' = made + 1 /\ made + 1 \in 1 .. MaxMsgs
        BY <1>1, OutboxAssumption DEF Stamp, TypeOK
  <2>4. m \in Msgs
        BY <2>2, <2>3 DEF Msgs
  <2> HIDE DEF m
  <2>5. pending' \in [Writers -> Msgs \cup {None}]
        BY <2>1, <2>4 DEF TypeOK, m
  <2>6. made' \in 0 .. MaxMsgs
        BY <2>3, OutboxAssumption
  <2>7. UNCHANGED <<outbox, cursor, panicked, posted, got>>
        BY <1>1 DEF Stamp
  <2> QED BY <2>1, <2>2, <2>5, <2>6, <2>7 DEF TypeOK
<1>2. ASSUME NEW w \in Writers, AppendMsg(w) PROVE TypeOK'
  <2>1. pending[w] \in Msgs
        BY <1>2, PendingTyped DEF AppendMsg
  <2>2. outbox' \in Seq(Msgs) /\ posted' \in Seq(Msgs)
        BY <1>2, <2>1, RangeOfAppend DEF AppendMsg, TypeOK
  <2> QED BY <1>2, <2>2 DEF AppendMsg, TypeOK
<1>3. ASSUME NEW r \in Readers, MsgsSince(r) PROVE TypeOK'
  <2>1. Picked(r) \subseteq 1 .. Len(outbox) /\ NextCursor(r, Picked(r)) \in 0 .. MaxTime
        BY CursorMoves
  <2>2. {outbox[i] : i \in Picked(r)} \subseteq Msgs
    <3>1. \A i \in 1 .. Len(outbox) : outbox[i] \in Msgs
          BY DEF TypeOK
    <3> QED BY <2>1, <3>1
  <2>3. got' \in [Readers -> SUBSET Msgs] /\ cursor' \in [Readers -> 0 .. MaxTime]
        BY <1>3, <2>1, <2>2 DEF MsgsSince, TypeOK
  <2>4. panicked' \in BOOLEAN
        BY <1>3 DEF MsgsSince
  <2> QED BY <1>3, <2>3, <2>4 DEF MsgsSince, TypeOK
<1>4. CASE Flush
  <2>1. outbox' \in Seq(Msgs)
        BY <1>4, FlushedTyped DEF Flush, TypeOK
  <2> QED BY <1>4, <2>1 DEF Flush, TypeOK
<1>5. CASE Tick
      BY <1>5, OutboxAssumption DEF Tick, TypeOK
<1>6. CASE UNCHANGED vars
      BY <1>6 DEF vars, TypeOK
<1> QED BY <1>1, <1>2, <1>3, <1>4, <1>5, <1>6 DEF Next

\* They are typed from the start.
LEMMA TypeInit == Init => TypeOK
<1> SUFFICES ASSUME Init PROVE TypeOK
    OBVIOUS
<1>1. << >> \in Seq(Msgs) /\ 1 \in 1 .. MaxTime /\ 0 \in 0 .. MaxTime /\ 0 \in 0 .. MaxMsgs
      BY OutboxAssumption
<1> QED BY <1>1 DEF Init, TypeOK

\* The messages of a queue have time stamps.
LEMMA RangeStamps ==
    ASSUME NEW q \in Seq(Msgs)
    PROVE  \A m \in ToSet(q) : m \in Msgs /\ m.timeStamp \in Nat
<1>1. \A m \in ToSet(q) : m \in Msgs
      BY DEF ToSet
<1> QED BY <1>1, Stamps

-----------------------------------------------------------------------------
(***************************************************************************)
(* The invariant, for any writers and clock readings.                      *)
(***************************************************************************)
\* The queue is in the order in which its messages were appended.
Order == AsPosted(outbox, Len(outbox)) /\ ToSet(outbox) \subseteq ToSet(posted)

\* No two messages are the same.
Distinct ==
    /\ \A i, j \in DOMAIN posted : posted[i].id = posted[j].id => i = j
    /\ \A i \in DOMAIN posted : posted[i].id <= made
    /\ \A w \in Writers : pending[w] # None =>
         /\ pending[w].id <= made
         /\ \A i \in DOMAIN posted : posted[i].id # pending[w].id
         /\ \A v \in Writers : pending[v] # None /\ pending[v].id = pending[w].id => v = w

\* A cursor is the time of a message that was appended, or the initial one.
Cursors ==
    \A r \in Readers : cursor[r] = 0 \/ \E i \in DOMAIN posted : cursor[r] = StampOf(posted[i])

\* What a reader was given is not after its cursor, unless it was overtaken.
Given ==
    \A r \in Readers :
        /\ got[r] \subseteq ToSet(posted)
        /\ \A i \in DOMAIN posted :
             posted[i] \in got[r] => StampOf(posted[i]) <= cursor[r] \/ Overtaken(i)

QueueInv == TypeOK /\ Order /\ Distinct /\ Cursors /\ Given /\ NothingSkipped

\* What is posted has a place, a time and, with it, a type.
LEMMA PostedTyped ==
    ASSUME TypeOK
    PROVE  /\ DOMAIN posted = 1 .. Len(posted) /\ Len(posted) \in Nat
           /\ \A i \in DOMAIN posted : posted[i] \in Msgs /\ StampOf(posted[i]) \in Nat
           /\ \A r \in Readers : cursor[r] \in Nat
<1>1. posted \in Seq(Msgs)
      BY DEF TypeOK
<1>2. \A i \in DOMAIN posted : posted[i] \in Msgs
      BY <1>1
<1>3. \A r \in Readers : cursor[r] \in 0 .. MaxTime
      BY DEF TypeOK
<1> QED BY <1>1, <1>2, <1>3, Stamps, OutboxAssumption DEF StampOf

\* So has what is in the queue.
LEMMA QueueTypes ==
    ASSUME TypeOK
    PROVE  /\ DOMAIN outbox = 1 .. Len(outbox) /\ Len(outbox) \in Nat
           /\ \A i \in DOMAIN outbox : /\ outbox[i] \in Msgs /\ outbox[i] \in ToSet(outbox)
                                       /\ outbox[i].timeStamp \in Nat
<1>1. outbox \in Seq(Msgs)
      BY DEF TypeOK
<1>2. \A i \in DOMAIN outbox : outbox[i] \in Msgs
      BY <1>1
<1> QED BY <1>1, <1>2, Stamps DEF ToSet

\* Two places of the posted messages have different messages.
LEMMA PostedOnce ==
    ASSUME TypeOK, Distinct, NEW i \in DOMAIN posted, NEW j \in DOMAIN posted,
           posted[i] = posted[j]
    PROVE  i = j
BY DEF Distinct

\* A writer reads the clock: nothing changes for those that have appended.
LEMMA StampStep ==
    ASSUME QueueInv, TypeOK', NEW w \in Writers, NEW c \in Channels, NEW s \in Sizes,
           Stamp(w, c, s)
    PROVE  QueueInv'
<1>1. PICK t \in Readings :
        pending' = [pending EXCEPT ![w] =
                      [id |-> made + 1, channel |-> c, size |-> s, timeStamp |-> t]]
      BY DEF Stamp
<1>2. UNCHANGED <<outbox, cursor, posted, got>> /\ made' = made + 1 /\ made \in Nat
      BY OutboxAssumption DEF Stamp, QueueInv, TypeOK
<1> DEFINE m == [id |-> made + 1, channel |-> c, size |-> s, timeStamp |-> t]
<1>3. m.id = made + 1
      OBVIOUS
<1> HIDE DEF m
<1>4. \A v \in Writers : pending'[v] = IF v = w THEN m ELSE pending[v]
      BY <1>1 DEF QueueInv, TypeOK, m
<1>5. Order'
      BY <1>2 DEF QueueInv, Order, AsPosted, CameIn
<1>6. Distinct'
  <2>1. \A i \in DOMAIN posted : posted[i].id \in Nat /\ posted[i].id <= made
    <3>1. \A i \in DOMAIN posted : posted[i].id \in 1 .. MaxMsgs
          BY PostedTyped, Stamps DEF QueueInv
    <3> QED BY <3>1, OutboxAssumption DEF QueueInv, Distinct
  <2>2. \A v \in Writers : pending[v] # None => pending[v].id \in Nat /\ pending[v].id <= made
    <3>1. \A v \in Writers : pending[v] # None => pending[v].id \in 1 .. MaxMsgs
          BY PendingTyped, Stamps DEF QueueInv
    <3> QED BY <3>1, OutboxAssumption DEF QueueInv, Distinct
  <2>3. \A i \in DOMAIN posted : posted[i].id <= made + 1 /\ posted[i].id # m.id
        BY <1>2, <1>3, <2>1
  <2>4. ASSUME NEW v \in Writers, pending'[v] # None
        PROVE  /\ pending'[v].id <= made + 1
               /\ \A i \in DOMAIN posted : posted[i].id # pending'[v].id
               /\ \A x \in Writers :
                    pending'[x] # None /\ pending'[x].id = pending'[v].id => x = v
    <3>1. CASE v = w
          BY <1>2, <1>3, <1>4, <2>2, <2>3, <3>1
    <3>2. CASE v # w
      <4>1. pending'[v] = pending[v] /\ pending[v] # None
            BY <1>4, <2>4, <3>2
      <4>2. pending[v].id <= made + 1 /\ pending[v].id # m.id
            BY <1>2, <1>3, <2>2, <4>1
      <4>3. \A i \in DOMAIN posted : posted[i].id # pending[v].id
            BY <4>1 DEF QueueInv, Distinct
      <4>4. \A x \in Writers : pending[x] # None /\ pending[x].id = pending[v].id => x = v
            BY <4>1 DEF QueueInv, Distinct
      <4> QED BY <1>4, <4>1, <4>2, <4>3, <4>4
    <3> QED BY <3>1, <3>2
  <2>5. \A i, j \in DOMAIN posted : posted[i].id = posted[j].id => i = j
        BY DEF QueueInv, Distinct
  <2> QED BY <1>2, <2>3, <2>4, <2>5 DEF Distinct
<1>7. Cursors' /\ Given' /\ NothingSkipped'
      BY <1>2 DEF QueueInv, Cursors, Given, NothingSkipped, InTurn, Overtaken, StampOf, Wants
<1> QED BY <1>5, <1>6, <1>7 DEF QueueInv

\* What an append does to the order of the posted messages.
LEMMA PostedGrows ==
    ASSUME QueueInv, NEW w \in Writers, AppendMsg(w), NEW m, m = pending[w],
           NEW n, n = Len(posted)
    PROVE  /\ m \in Msgs /\ m.timeStamp \in Nat /\ n \in Nat
           /\ DOMAIN posted = 1 .. n /\ DOMAIN posted' = 1 .. n + 1
           /\ posted'[n + 1] = m /\ \A i \in 1 .. n : posted'[i] = posted[i]
           /\ ToSet(posted') = ToSet(posted) \cup {m} /\ m \notin ToSet(posted)
           /\ \A i \in 1 .. n : (InTurn(i)' <=> InTurn(i)) /\ (Overtaken(i) => Overtaken(i)')
           /\ InTurn(n + 1)' => \A r \in Readers : cursor[r] < m.timeStamp
<1>1. posted' = Append(posted, m) /\ posted \in Seq(Msgs) /\ m # None
      BY DEF AppendMsg, QueueInv, TypeOK
<1>2. m \in Msgs /\ m.timeStamp \in Nat /\ m.timeStamp > 0
      BY <1>1, PendingTyped, Stamps DEF QueueInv
<1>3. /\ posted' \in Seq(Msgs) /\ Len(posted') = n + 1
      /\ posted'[n + 1] = m /\ \A i \in 1 .. n : posted'[i] = posted[i]
      /\ ToSet(posted') = ToSet(posted) \cup {m}
      BY <1>1, <1>2, RangeOfAppend
<1>4. n \in Nat /\ DOMAIN posted = 1 .. n /\ DOMAIN posted' = 1 .. n + 1
      BY <1>1, <1>3
<1>5. m \notin ToSet(posted)
      BY <1>1 DEF QueueInv, Distinct, ToSet
<1>6. \A i \in 1 .. n : InTurn(i)' <=> InTurn(i)
      BY <1>3, <1>4 DEF InTurn, StampOf
<1>7. \A i \in 1 .. n : Overtaken(i) => Overtaken(i)'
      BY <1>3, <1>4 DEF Overtaken, StampOf
<1>8. ASSUME InTurn(n + 1)', NEW r \in Readers PROVE cursor[r] < m.timeStamp
  <2>1. CASE cursor[r] = 0
        BY <1>2, <2>1
  <2>2. CASE \E i \in DOMAIN posted : cursor[r] = StampOf(posted[i])
    <3>1. PICK i \in 1 .. n : cursor[r] = StampOf(posted[i])
          BY <1>4, <2>2
    <3>2. i \in 1 .. (n + 1) - 1 /\ posted'[i] = posted[i]
          BY <1>3, <1>4
    <3> QED BY <1>3, <1>8, <3>1, <3>2 DEF InTurn, StampOf
  <2> QED BY <2>1, <2>2 DEF QueueInv, Cursors
<1> QED BY <1>2, <1>3, <1>4, <1>5, <1>6, <1>7, <1>8

\* A writer appends what it stamped, in its turn or not.
LEMMA AppendStep ==
    ASSUME QueueInv, TypeOK', NEW w \in Writers, AppendMsg(w)
    PROVE  QueueInv'
<1> DEFINE q == Len(outbox)
<1>0. PICK m, n : m = pending[w] /\ n = Len(posted)
      OBVIOUS
<1>1. /\ outbox' = Append(outbox, m) /\ UNCHANGED <<now, cursor, got, made>> /\ m # None
      /\ pending' = [pending EXCEPT ![w] = None]
      BY <1>0 DEF AppendMsg
<1>2. /\ m \in Msgs /\ m.timeStamp \in Nat /\ n \in Nat
      /\ DOMAIN posted = 1 .. n /\ DOMAIN posted' = 1 .. n + 1
      /\ posted'[n + 1] = m /\ \A i \in 1 .. n : posted'[i] = posted[i]
      /\ ToSet(posted') = ToSet(posted) \cup {m} /\ m \notin ToSet(posted)
      BY <1>0, PostedGrows
<1>3. \A i \in 1 .. n : (InTurn(i)' <=> InTurn(i)) /\ (Overtaken(i) => Overtaken(i)')
      BY <1>0, PostedGrows
<1>4. InTurn(n + 1)' => \A r \in Readers : cursor[r] < m.timeStamp
      BY <1>0, PostedGrows
<1>5. \A v \in Writers : pending'[v] = IF v = w THEN None ELSE pending[v]
      BY <1>1 DEF QueueInv, TypeOK
<1>6. /\ DOMAIN outbox = 1 .. q /\ q \in Nat /\ Len(outbox') = q + 1 /\ outbox'[q + 1] = m
      /\ \A i \in 1 .. q : outbox'[i] = outbox[i]
      /\ ToSet(outbox') = ToSet(outbox) \cup {m}
  <2>1. outbox \in Seq(Msgs)
        BY DEF QueueInv, TypeOK
  <2> QED BY <1>1, <1>2, <2>1, RangeOfAppend, QueueTypes DEF QueueInv
<1>7. /\ m.id <= made /\ \A i \in DOMAIN posted : posted[i].id # m.id
      /\ \A v \in Writers : pending[v] # None /\ pending[v].id = m.id => v = w
      BY <1>0, <1>1 DEF QueueInv, Distinct
<1>8. AsPosted(outbox, q) /\ ToSet(outbox) \subseteq ToSet(posted)
      BY DEF QueueInv, Order
<1> HIDE DEF q
<1>9. Order'
  <2>1. ASSUME NEW j \in 1 .. q + 1, NEW k \in 1 .. q + 1, j < k
        PROVE  \E a, b \in DOMAIN posted' :
                 a < b /\ posted'[a] = outbox'[j] /\ posted'[b] = outbox'[k]
    <3>1. j \in 1 .. q /\ outbox'[j] = outbox[j]
          BY <1>6, <2>1
    <3>2. CASE k = q + 1
      <4>1. outbox[j] \in ToSet(posted)
            BY <1>6, <1>8, <3>1 DEF ToSet
      <4>2. PICK a \in 1 .. n : posted[a] = outbox[j]
            BY <1>2, <4>1 DEF ToSet
      <4>3. /\ a \in DOMAIN posted' /\ n + 1 \in DOMAIN posted' /\ a < n + 1
            /\ posted'[a] = outbox'[j] /\ posted'[n + 1] = outbox'[k]
            BY <1>2, <1>6, <3>1, <3>2, <4>2
      <4> QED BY <4>3
    <3>3. CASE k # q + 1
      <4>1. k \in 1 .. q /\ outbox'[k] = outbox[k]
            BY <1>6, <3>3
      <4>2. CameIn(outbox[j], outbox[k])
            BY <1>8, <2>1, <3>1, <4>1 DEF AsPosted
      <4>3. PICK a, b \in 1 .. n : a < b /\ posted[a] = outbox[j] /\ posted[b] = outbox[k]
            BY <1>2, <4>2 DEF CameIn
      <4>4. /\ a \in DOMAIN posted' /\ b \in DOMAIN posted'
            /\ posted'[a] = outbox'[j] /\ posted'[b] = outbox'[k]
            BY <1>2, <3>1, <4>1, <4>3
      <4> QED BY <4>3, <4>4
    <3> QED BY <3>2, <3>3
  <2>2. ToSet(outbox') \subseteq ToSet(posted')
        BY <1>2, <1>6, <1>8
  <2> QED BY <1>6, <2>1, <2>2 DEF Order, AsPosted, CameIn
<1>10. Distinct'
  <2>1. ASSUME NEW i \in 1 .. n + 1 PROVE posted'[i].id <= made'
    <3>1. CASE i = n + 1
          BY <1>1, <1>2, <1>7, <3>1
    <3>2. CASE i # n + 1
      <4>1. i \in 1 .. n
            BY <1>2, <3>2
      <4> QED BY <1>1, <1>2, <4>1 DEF QueueInv, Distinct
    <3> QED BY <3>1, <3>2
  <2>2. ASSUME NEW i \in 1 .. n + 1, NEW j \in 1 .. n + 1, posted'[i].id = posted'[j].id
        PROVE  i = j
    <3>1. CASE i = n + 1 /\ j # n + 1
      <4>1. j \in 1 .. n
            BY <1>2, <3>1
      <4> QED BY <1>2, <1>7, <2>2, <3>1, <4>1
    <3>2. CASE i # n + 1 /\ j = n + 1
      <4>1. i \in 1 .. n
            BY <1>2, <3>2
      <4> QED BY <1>2, <1>7, <2>2, <3>2, <4>1
    <3>3. CASE i # n + 1 /\ j # n + 1
      <4>1. i \in 1 .. n /\ j \in 1 .. n
            BY <1>2, <3>3
      <4>2. posted[i].id = posted[j].id
            BY <1>2, <2>2, <4>1
      <4> QED BY <1>2, <4>1, <4>2 DEF QueueInv, Distinct
    <3> QED BY <3>1, <3>2, <3>3
  <2>3. ASSUME NEW v \in Writers, pending'[v] # None
        PROVE  /\ pending'[v].id <= made'
               /\ \A i \in 1 .. n + 1 : posted'[i].id # pending'[v].id
               /\ \A x \in Writers :
                    pending'[x] # None /\ pending'[x].id = pending'[v].id => x = v
    <3>1. v # w /\ pending'[v] = pending[v] /\ pending[v] # None
          BY <1>5, <2>3
    <3>2. /\ pending[v].id <= made
          /\ \A i \in DOMAIN posted : posted[i].id # pending[v].id
          /\ \A x \in Writers : pending[x] # None /\ pending[x].id = pending[v].id => x = v
          BY <3>1 DEF QueueInv, Distinct
    <3>3. pending[v].id # m.id
          BY <1>7, <3>1
    <3>4. ASSUME NEW i \in 1 .. n + 1 PROVE posted'[i].id # pending'[v].id
      <4>1. CASE i = n + 1
            BY <1>2, <3>1, <3>3, <4>1
      <4>2. CASE i # n + 1
        <5>1. i \in 1 .. n
              BY <1>2, <4>2
        <5> QED BY <1>2, <3>1, <3>2, <5>1
      <4> QED BY <4>1, <4>2
    <3> QED BY <1>1, <1>5, <3>1, <3>2, <3>4
  <2> QED BY <1>2, <2>1, <2>2, <2>3 DEF Distinct
<1>11. Cursors'
  <2>1. ASSUME NEW r \in Readers, NEW i \in 1 .. n, cursor[r] = StampOf(posted[i])
        PROVE  \E j \in 1 .. n + 1 : cursor[r] = StampOf(posted'[j])
    <3>1. i \in 1 .. n + 1 /\ posted'[i] = posted[i]
          BY <1>2
    <3> QED BY <2>1, <3>1
  <2> QED BY <1>1, <1>2, <2>1 DEF QueueInv, Cursors, StampOf
<1>12. Given'
  <2> SUFFICES ASSUME NEW r \in Readers
               PROVE  /\ got[r] \subseteq ToSet(posted')
                      /\ \A i \in 1 .. n + 1 :
                           posted'[i] \in got[r]
                             => StampOf(posted'[i]) <= cursor[r] \/ Overtaken(i)'
      BY <1>1, <1>2 DEF Given, StampOf
  <2>1. got[r] \subseteq ToSet(posted)
        BY DEF QueueInv, Given
  <2>2. ASSUME NEW i \in 1 .. n + 1, posted'[i] \in got[r]
        PROVE  StampOf(posted'[i]) <= cursor[r] \/ Overtaken(i)'
    <3>1. i \in 1 .. n /\ posted'[i] = posted[i]
          BY <1>2, <2>1, <2>2
    <3> QED BY <1>2, <1>3, <2>2, <3>1 DEF QueueInv, Given
  <2> QED BY <1>2, <2>1, <2>2
<1>13. NothingSkipped'
  <2> SUFFICES ASSUME NEW r \in Readers, NEW i \in 1 .. n + 1, InTurn(i)',
                      posted'[i] \in ToSet(outbox'), Wants(r, posted'[i]),
                      StampOf(posted'[i]) <= cursor[r]
               PROVE  posted'[i] \in got[r]
      BY <1>1, <1>2 DEF NothingSkipped, Wants, StampOf
  <2>1. i # n + 1
    <3>1. cursor[r] \in Nat
          BY PostedTyped DEF QueueInv
    <3> QED BY <1>2, <1>4, <3>1 DEF StampOf
  <2>2. i \in 1 .. n /\ posted'[i] = posted[i] /\ InTurn(i)
        BY <1>2, <1>3, <2>1
  <2>3. posted[i] \in ToSet(outbox)
    <3>1. posted[i] # m
          BY <1>2, <2>2 DEF ToSet
    <3> QED BY <1>6, <2>2, <3>1
  <2> QED BY <1>2, <2>2, <2>3 DEF QueueInv, NothingSkipped
<1> QED BY <1>9, <1>10, <1>11, <1>12, <1>13 DEF QueueInv

\* What MsgsSince takes: messages after the cursor; not after the next one unless
\* overtaken; and all in between that came in their turn.
LEMMA Takes ==
    ASSUME QueueInv, NEW r \in Readers,
           NEW next, next = NextCursor(r, Picked(r)),
           NEW taken, taken = {outbox[i] : i \in Picked(r)}
    PROVE  /\ \A m \in taken : m \in ToSet(outbox) /\ Wants(r, m) /\ cursor[r] < StampOf(m)
           /\ \A i \in DOMAIN posted :
                posted[i] \in taken => StampOf(posted[i]) <= next \/ Overtaken(i)
           /\ \A i \in DOMAIN posted :
                InTurn(i) /\ posted[i] \in ToSet(outbox) /\ Wants(r, posted[i])
                /\ cursor[r] < StampOf(posted[i]) /\ StampOf(posted[i]) <= next
                => posted[i] \in taken
<1> DEFINE n == Len(outbox)
<1>1. TypeOK
      BY DEF QueueInv
<1>2. /\ Picked(r) \subseteq 1 .. n /\ next \in 0 .. MaxTime
      /\ Picked(r) = {} => next = cursor[r]
      /\ Picked(r) # {} => \E i \in Picked(r) : /\ next = outbox[i].timeStamp
                                                /\ \A j \in Picked(r) : j <= i
      BY <1>1, CursorMoves
<1>3. /\ DOMAIN outbox = 1 .. n /\ n \in Nat
      /\ \A i \in 1 .. n : /\ outbox[i] \in Msgs /\ outbox[i] \in ToSet(outbox)
                           /\ outbox[i].timeStamp \in Nat
      BY <1>1, QueueTypes
<1>4. \A i \in Picked(r) : Wants(r, outbox[i]) /\ cursor[r] < StampOf(outbox[i])
      BY DEF Picked, Candidates, StampOf
<1>5. /\ DOMAIN posted = 1 .. Len(posted) /\ Len(posted) \in Nat
      /\ \A i \in DOMAIN posted : StampOf(posted[i]) \in Nat
      /\ cursor[r] \in Nat /\ next \in Nat
      BY <1>1, <1>2, PostedTyped
<1>6. \A i, j \in DOMAIN posted : posted[i] = posted[j] => i = j
      BY <1>1, PostedOnce DEF QueueInv
<1>7. AsPosted(outbox, n)
      BY DEF QueueInv, Order
<1> HIDE DEF n
<1>8. \A m \in taken : m \in ToSet(outbox) /\ Wants(r, m) /\ cursor[r] < StampOf(m)
      BY <1>2, <1>3, <1>4
<1>9. ASSUME NEW i \in DOMAIN posted, posted[i] \in taken
      PROVE  StampOf(posted[i]) <= next \/ Overtaken(i)
  <2>1. PICK j \in Picked(r) : posted[i] = outbox[j]
        BY <1>9
  <2>2. PICK p \in Picked(r) : next = StampOf(outbox[p]) /\ j <= p
        BY <1>2 DEF StampOf
  <2>3. j \in 1 .. n /\ p \in 1 .. n
        BY <1>2
  <2>4. CASE j = p
        BY <1>5, <2>1, <2>2, <2>4
  <2>5. CASE j # p
    <3>1. j < p
          BY <2>2, <2>3, <2>5
    <3>2. CameIn(outbox[j], outbox[p])
          BY <1>7, <2>3, <3>1 DEF AsPosted
    <3>3. PICK a \in DOMAIN posted, b \in DOMAIN posted :
            a < b /\ posted[a] = outbox[j] /\ posted[b] = outbox[p]
          BY <3>2 DEF CameIn
    <3>4. a = i
          BY <1>6, <2>1, <3>3
    <3>5. ~(StampOf(posted[i]) <= next) => StampOf(posted[b]) < StampOf(posted[i])
          BY <1>5, <2>2, <3>3
    <3> QED BY <3>3, <3>4, <3>5 DEF Overtaken
  <2> QED BY <2>4, <2>5
<1>10. ASSUME NEW i \in DOMAIN posted, InTurn(i), posted[i] \in ToSet(outbox),
              Wants(r, posted[i]), cursor[r] < StampOf(posted[i]), StampOf(posted[i]) <= next
       PROVE  posted[i] \in taken
  <2>1. PICK j \in 1 .. n : posted[i] = outbox[j]
        BY <1>3, <1>10 DEF ToSet
  <2>2. j \in Candidates(r)
        BY <1>3, <1>10, <2>1 DEF Candidates, StampOf
  <2>3. Picked(r) # {}
        BY <1>2, <1>5, <1>10
  <2>4. PICK p \in Picked(r) : next = StampOf(outbox[p])
        BY <1>2, <2>3 DEF StampOf
  <2>5. p \in 1 .. n
        BY <1>2
  <2>6. CASE j <= p
    <3>1. j \in Picked(r)
          BY <1>1, <2>2, <2>6, PickedIsPrefix DEF TypeOK
    <3> QED BY <2>1, <3>1
  <2>7. CASE ~(j <= p)
    <3>1. p < j
          BY <2>5, <2>7
    <3>2. CameIn(outbox[p], outbox[j])
          BY <1>7, <2>5, <3>1 DEF AsPosted
    <3>3. PICK a \in DOMAIN posted, b \in DOMAIN posted :
            a < b /\ posted[a] = outbox[p] /\ posted[b] = outbox[j]
          BY <3>2 DEF CameIn
    <3>4. b = i
          BY <1>6, <2>1, <3>3
    <3>5. a \in 1 .. i - 1
          BY <1>5, <3>3, <3>4
    <3>6. StampOf(posted[a]) < StampOf(posted[i])
          BY <1>10, <3>5 DEF InTurn
    <3>7. StampOf(posted[a]) = next
          BY <2>4, <3>3
    <3> QED BY <1>5, <1>10, <3>6, <3>7
  <2> QED BY <2>6, <2>7
<1> QED BY <1>8, <1>9, <1>10

\* A reader fetches.
LEMMA FetchStep ==
    ASSUME QueueInv, TypeOK', NEW r \in Readers, MsgsSince(r)
    PROVE  QueueInv'
<1> DEFINE next == NextCursor(r, Picked(r))
           taken == {outbox[i] : i \in Picked(r)}
<1>1. /\ got' = [got EXCEPT ![r] = @ \cup taken] /\ cursor' = [cursor EXCEPT ![r] = next]
      /\ UNCHANGED <<outbox, pending, now, posted, made>>
      BY DEF MsgsSince
<1>2. /\ next \in Nat /\ cursor[r] \in Nat /\ cursor[r] <= next
      /\ next = cursor[r] \/ \E i \in ToSet(outbox) : next = StampOf(i)
  <2>1. TypeOK
        BY DEF QueueInv
  <2>2. next \in 0 .. MaxTime /\ cursor[r] <= next
        BY <2>1, CursorMoves
  <2>3. Picked(r) = {} => next = cursor[r]
        BY <2>1, CursorMoves
  <2>4. Picked(r) # {} => \E i \in 1 .. Len(outbox) : next = outbox[i].timeStamp
        BY <2>1, CursorMoves
  <2> HIDE DEF next
  <2>5. cursor[r] \in Nat
        BY <2>1, PostedTyped
  <2>6. \A i \in 1 .. Len(outbox) : outbox[i] \in ToSet(outbox)
        BY <2>1, QueueTypes
  <2> QED BY <2>2, <2>3, <2>4, <2>5, <2>6, OutboxAssumption DEF StampOf
<1>3. /\ \A m \in taken : m \in ToSet(outbox)
      /\ \A i \in DOMAIN posted :
           posted[i] \in taken => StampOf(posted[i]) <= next \/ Overtaken(i)
      /\ \A i \in DOMAIN posted :
           InTurn(i) /\ posted[i] \in ToSet(outbox) /\ Wants(r, posted[i])
           /\ cursor[r] < StampOf(posted[i]) /\ StampOf(posted[i]) <= next
           => posted[i] \in taken
      BY Takes
<1>4. \A p \in Readers : /\ cursor'[p] = IF p = r THEN next ELSE cursor[p]
                         /\ got'[p] = IF p = r THEN got[r] \cup taken ELSE got[p]
      BY <1>1 DEF QueueInv, TypeOK
<1> HIDE DEF next, taken
<1>5. \A i \in DOMAIN posted : StampOf(posted[i]) \in Nat
      BY PostedTyped DEF QueueInv
<1>6. Order' /\ Distinct'
      BY <1>1 DEF QueueInv, Order, AsPosted, CameIn, Distinct
<1>7. Cursors'
  <2>1. \A m \in ToSet(outbox) : \E i \in DOMAIN posted : m = posted[i]
        BY DEF QueueInv, Order, ToSet
  <2>2. next = 0 \/ \E i \in DOMAIN posted : next = StampOf(posted[i])
        BY <1>2, <2>1 DEF QueueInv, Cursors
  <2> QED BY <1>1, <1>4, <2>2 DEF QueueInv, Cursors, StampOf
<1>8. Given'
  <2>1. ASSUME NEW p \in Readers PROVE got'[p] \subseteq ToSet(posted)
        BY <1>3, <1>4 DEF QueueInv, Given, Order
  <2>2. ASSUME NEW p \in Readers, NEW i \in DOMAIN posted, posted[i] \in got'[p]
        PROVE  StampOf(posted[i]) <= cursor'[p] \/ Overtaken(i)
    <3>1. CASE p # r
          BY <1>4, <2>2, <3>1 DEF QueueInv, Given
    <3>2. CASE p = r /\ posted[i] \in taken
          BY <1>3, <1>4, <3>2
    <3>3. CASE p = r /\ posted[i] \in got[r]
      <4>1. StampOf(posted[i]) <= cursor[r] \/ Overtaken(i)
            BY <3>3 DEF QueueInv, Given
      <4> QED BY <1>2, <1>4, <1>5, <3>3, <4>1
    <3> QED BY <1>4, <2>2, <3>1, <3>2, <3>3
  <2> QED BY <1>1, <2>1, <2>2 DEF Given, Overtaken, StampOf
<1>9. NothingSkipped'
  <2>1. ASSUME NEW p \in Readers, NEW i \in DOMAIN posted, InTurn(i),
               posted[i] \in ToSet(outbox), Wants(p, posted[i]),
               StampOf(posted[i]) <= cursor'[p]
        PROVE  posted[i] \in got'[p]
    <3>1. CASE p # r
          BY <1>4, <2>1, <3>1 DEF QueueInv, NothingSkipped
    <3>2. CASE p = r /\ StampOf(posted[i]) <= cursor[r]
          BY <1>4, <2>1, <3>2 DEF QueueInv, NothingSkipped
    <3>3. CASE p = r /\ ~(StampOf(posted[i]) <= cursor[r])
      <4>1. cursor[r] < StampOf(posted[i]) /\ StampOf(posted[i]) <= next
            BY <1>2, <1>4, <1>5, <2>1, <3>3
      <4> QED BY <1>3, <1>4, <2>1, <3>3, <4>1
    <3> QED BY <3>1, <3>2, <3>3
  <2> QED BY <1>1, <2>1 DEF NothingSkipped, InTurn, StampOf, Wants
<1> QED BY <1>6, <1>7, <1>8, <1>9 DEF QueueInv

\* Flush takes messages away, and leaves the order.
LEMMA FlushOutbox ==
    ASSUME QueueInv, TypeOK', Flush
    PROVE  QueueInv' /\ ToSet(outbox') \subseteq ToSet(outbox)
<1>1. outbox' = Flushed /\ UNCHANGED <<pending, now, cursor, made, posted, got>>
      BY DEF Flush, history
<1>2. AsPosted(outbox', Len(outbox')) /\ ToSet(outbox') \subseteq ToSet(outbox)
  <2>1. outbox \in Seq(Msgs) /\ now \in Nat /\ AsPosted(outbox, Len(outbox))
        BY DEF QueueInv, TypeOK, Order
  <2> QED BY <1>1, <2>1, FlushedInOrder
<1>3. Order'
      BY <1>1, <1>2 DEF QueueInv, Order, AsPosted, CameIn
<1>4. Distinct' /\ Cursors' /\ Given'
      BY <1>1 DEF QueueInv, Distinct, Cursors, Given, Overtaken, StampOf
<1>5. NothingSkipped'
      BY <1>1, <1>2 DEF QueueInv, NothingSkipped, InTurn, StampOf, Wants
<1> QED BY <1>2, <1>3, <1>4, <1>5 DEF QueueInv

\* Flush loses a young message only if the last of the queue is old.
LEMMA FlushLoses ==
    ASSUME TypeOK, Flush, NEW m \in ToSet(outbox), ~IsOld(m), m \notin ToSet(outbox')
    PROVE  IsOld(outbox[Len(outbox)])
<1>1. outbox \in Seq(Msgs) /\ now \in Nat /\ outbox' = Flushed
      BY DEF TypeOK, Flush
<1> QED BY <1>1, FlushedFresh

\* A step keeps the invariant.
LEMMA QueueStep == QueueInv /\ [Next]_vars => QueueInv'
<1> SUFFICES ASSUME QueueInv, [Next]_vars PROVE QueueInv'
    OBVIOUS
<1>0. TypeOK'
      BY TypeStep DEF QueueInv
<1>1. ASSUME NEW w \in Writers, NEW c \in Channels, NEW s \in Sizes, Stamp(w, c, s)
      PROVE  QueueInv'
      BY <1>0, <1>1, StampStep
<1>2. ASSUME NEW w \in Writers, AppendMsg(w) PROVE QueueInv'
      BY <1>0, <1>2, AppendStep
<1>3. ASSUME NEW r \in Readers, MsgsSince(r) PROVE QueueInv'
      BY <1>0, <1>3, FetchStep
<1>4. CASE Flush
      BY <1>0, <1>4, FlushOutbox
<1>5. CASE Tick \/ UNCHANGED vars
  <2>1. UNCHANGED <<outbox, pending, cursor, made, posted, got>>
        BY <1>5 DEF Tick, history, vars, queue
  <2>2. Order' /\ Distinct'
        BY <2>1 DEF QueueInv, Order, AsPosted, CameIn, Distinct
  <2>3. Cursors' /\ Given' /\ NothingSkipped'
        BY <2>1 DEF QueueInv, Cursors, Given, NothingSkipped, InTurn, Overtaken, StampOf, Wants
  <2> QED BY <1>0, <2>2, <2>3 DEF QueueInv
<1> QED BY <1>1, <1>2, <1>3, <1>4, <1>5 DEF Next

\* The invariant holds at first.
LEMMA QueueInit == Init => QueueInv
<1> SUFFICES ASSUME Init PROVE QueueInv
    OBVIOUS
<1>1. /\ outbox = << >> /\ posted = << >> /\ ToSet(outbox) = {} /\ ToSet(posted) = {}
      /\ Len(outbox) = 0 /\ DOMAIN posted = {}
      BY DEF Init, ToSet
<1>2. Order /\ NothingSkipped
      BY <1>1 DEF Order, AsPosted, NothingSkipped
<1>3. Distinct /\ Cursors /\ Given
      BY <1>1 DEF Init, Distinct, Cursors, Given
<1> QED BY <1>2, <1>3, TypeInit DEF QueueInv

-----------------------------------------------------------------------------
(***************************************************************************)
(* The theorems.                                                           *)
(***************************************************************************)
\* The invariant holds for ever.
LEMMA QueueInvariant == Spec => []QueueInv
<1>1. QueueInv /\ [Next]_vars => QueueInv'
      BY QueueStep
<1> QED BY QueueInit, <1>1, PTL DEF Spec

\* The variables are typed (RamOutbox.TypeOK), whatever the writers do.
THEOREM QueueTyped == Spec => []TypeOK
BY TypeInit, TypeStep, PTL DEF Spec

\* Pickup passes over no message of the outbox that came in its turn and that the
\* reader wants (RamOutbox.NothingSkipped), whatever the other writers do.
THEOREM PickupSkipsNothing == Spec => []NothingSkipped
<1>1. QueueInv => NothingSkipped
      BY DEF QueueInv
<1> QED BY QueueInvariant, <1>1, PTL

\* Flush, though it deletes under its own range loop, drops no message that is
\* younger than the limit it was given, unless the last of the queue is older
\* (RamOutbox.FlushKeepsFresh).
THEOREM FlushLosesOnlyOld == Spec => FlushKeepsFresh
<1>1. ASSUME TypeOK, Flush, NEW m \in ToSet(outbox), ~IsOld(m)
      PROVE  m \in ToSet(outbox') \/ IsOld(Last(outbox))
  <2>1. m \notin ToSet(outbox') => IsOld(outbox[Len(outbox)])
        BY <1>1, FlushLoses
  <2> QED BY <2>1 DEF Last
<1>2. QueueInv /\ [Next]_vars
        => [Flush => \A m \in ToSet(outbox) :
              ~IsOld(m) => m \in ToSet(outbox') \/ IsOld(Last(outbox))]_vars
      BY <1>1 DEF QueueInv
<1> QED BY QueueInvariant, <1>2, PTL DEF Spec, FlushKeepsFresh

\* MsgsSince hands no message out twice that was not overtaken
\* (RamOutbox.NothingTwice).
THEOREM PickupRepeatsNothing == Spec => NothingTwice
<1>1. ASSUME QueueInv, NEW r \in Readers, NEW i \in DOMAIN posted,
             posted[i] \in {outbox[j] : j \in Picked(r)} \cap got[r]
      PROVE  Overtaken(i)
  <2> DEFINE next == NextCursor(r, Picked(r))
             taken == {outbox[j] : j \in Picked(r)}
  <2>1. \A m \in taken : cursor[r] < StampOf(m)
        BY <1>1, Takes
  <2>2. StampOf(posted[i]) \in Nat /\ cursor[r] \in Nat
        BY <1>1, PostedTyped DEF QueueInv
  <2>3. StampOf(posted[i]) <= cursor[r] \/ Overtaken(i)
        BY <1>1 DEF QueueInv, Given
  <2> QED BY <1>1, <2>1, <2>2, <2>3
<1>2. QueueInv /\ [Next]_vars
        => [\A r \in Readers : MsgsSince(r) =>
              \A i \in DOMAIN posted :
                  posted[i] \in {outbox[j] : j \in Picked(r)} \cap got[r] => Overtaken(i)]_vars
      BY <1>1
<1> QED BY QueueInvariant, <1>2, PTL DEF Spec, NothingTwice

-----------------------------------------------------------------------------
(***************************************************************************)
(* The outbox implements the mailbox.                                      *)
(***************************************************************************)
BoxPos == [r \in Readers |-> LastSeen(cursor[r])]
BoxOld == {m \in ToSet(posted) : IsOld(m)}

\* The two speak of the same turns.
LEMMA SameTurns ==
    /\ \A i : Box!InTurn(i) = InTurn(i)
    /\ \A i : Box!Overtaken(i) = Overtaken(i)
    /\ Box!Posted = ToSet(posted)
BY DEF Box!InTurn, InTurn, Box!Overtaken, Overtaken, Box!Posted, ToSet

\* The messages in turn up to a time are those up to the last of them.
LEMMA SeenInTurn ==
    ASSUME TypeOK, NEW c \in Nat
    PROVE  /\ LastSeen(c) \in 0 .. Len(posted)
           /\ LastSeen(c) # 0 => /\ InTurn(LastSeen(c))
                                 /\ StampOf(posted[LastSeen(c)]) <= c
           /\ \A i \in DOMAIN posted :
                InTurn(i) => (StampOf(posted[i]) <= c <=> i <= LastSeen(c))
<1> DEFINE n == Len(posted)
           I == {i \in DOMAIN posted : InTurn(i) /\ StampOf(posted[i]) <= c}
           k == LastSeen(c)
<1>1. /\ DOMAIN posted = 1 .. n /\ n \in Nat
      /\ \A i \in DOMAIN posted : StampOf(posted[i]) \in Nat
      BY PostedTyped
<1>2. I \cup {0} \in SUBSET (0 .. n) /\ I \cup {0} # {}
      BY <1>1
<1>3. k = Max(I \cup {0})
      BY DEF LastSeen
<1> HIDE DEF I, k
<1>4. k \in I \cup {0} /\ \A x \in I \cup {0} : x <= k
      BY <1>1, <1>2, <1>3, MaxOfBounded
<1>5. k \in 0 .. n /\ (k # 0 => k \in I)
      BY <1>2, <1>4
<1>6. k # 0 => k \in DOMAIN posted /\ InTurn(k) /\ StampOf(posted[k]) <= c
      BY <1>5 DEF I
<1>7. ASSUME NEW i \in DOMAIN posted, InTurn(i)
      PROVE  StampOf(posted[i]) <= c <=> i <= k
  <2>1. StampOf(posted[i]) <= c => i <= k
        BY <1>4, <1>7 DEF I
  <2>2. ASSUME i <= k PROVE StampOf(posted[i]) <= c
    <3>1. k # 0 /\ i \in 1 .. n
          BY <1>1, <2>2
    <3>2. CASE i = k
          BY <1>6, <3>1, <3>2
    <3>3. CASE i # k
      <4>1. i \in 1 .. k - 1
            BY <1>5, <2>2, <3>1, <3>3
      <4>2. StampOf(posted[i]) < StampOf(posted[k])
            BY <1>6, <3>1, <4>1 DEF InTurn
      <4> QED BY <1>1, <1>6, <3>1, <4>2
    <3> QED BY <3>2, <3>3
  <2> QED BY <2>1, <2>2
<1> QED BY <1>5, <1>6, <1>7 DEF k

\* The mailbox starts empty.
LEMMA BoxInit == Init => Box!Init
<1> SUFFICES ASSUME Init PROVE Box!Init
    OBVIOUS
<1>1. outbox = << >> /\ posted = << >> /\ ToSet(outbox) = {} /\ ToSet(posted) = {}
      BY DEF Init, ToSet
<1>2. \A r \in Readers : LastSeen(cursor[r]) = 0
  <2>1. TypeOK /\ Len(posted) = 0
        BY <1>1, TypeInit
  <2>2. \A r \in Readers : cursor[r] \in Nat
        BY <2>1, PostedTyped
  <2>3. \A r \in Readers : LastSeen(cursor[r]) \in 0 .. Len(posted)
        BY <2>1, <2>2, SeenInTurn
  <2> QED BY <2>1, <2>3
<1> QED BY <1>1, <1>2 DEF Box!Init, Init

\* Time goes on: messages may become old.
LEMMA ClockAges ==
    ASSUME QueueInv, now' \in Nat, now <= now', UNCHANGED <<outbox, posted, cursor, got>>
    PROVE  Box!Age
<1>1. BoxOld \subseteq BoxOld' /\ BoxOld' \subseteq ToSet(posted)
  <2>1. \A m \in ToSet(posted) : m.timeStamp \in Nat
        BY RangeStamps DEF QueueInv, TypeOK
  <2>2. now \in Nat
        BY DEF QueueInv, TypeOK
  <2> QED BY <2>1, <2>2, OutboxAssumption DEF BoxOld, IsOld, Cutoff
<1>2. BoxOld' = BoxOld \cup BoxOld'
      BY <1>1
<1>3. UNCHANGED <<ToSet(outbox), BoxPos>>
      BY DEF BoxPos, LastSeen, InTurn, StampOf, ToSet
<1> QED BY <1>1, <1>2, <1>3, SameTurns DEF Box!Age, BoxOld, BoxPos

\* A writer posts.
LEMMA AppendPosts ==
    ASSUME QueueInv, QueueInv', NEW w \in Writers, AppendMsg(w)
    PROVE  \E m \in Msgs : Box!Post(m)
<1>0. PICK m, n : m = pending[w] /\ n = Len(posted)
      OBVIOUS
<1>1. outbox' = Append(outbox, m) /\ posted' = Append(posted, m) /\ UNCHANGED <<now, cursor, got>>
      BY <1>0 DEF AppendMsg
<1>2. /\ m \in Msgs /\ m.timeStamp \in Nat /\ n \in Nat
      /\ DOMAIN posted = 1 .. n /\ DOMAIN posted' = 1 .. n + 1
      /\ posted'[n + 1] = m /\ \A i \in 1 .. n : posted'[i] = posted[i]
      /\ ToSet(posted') = ToSet(posted) \cup {m} /\ m \notin ToSet(posted)
      BY <1>0, PostedGrows
<1>3. \A i \in 1 .. n : InTurn(i)' <=> InTurn(i)
      BY <1>0, PostedGrows
<1>4. InTurn(n + 1)' => \A r \in Readers : cursor[r] < m.timeStamp
      BY <1>0, PostedGrows
<1>5. ToSet(outbox') = ToSet(outbox) \cup {m}
  <2>1. outbox \in Seq(Msgs)
        BY DEF QueueInv, TypeOK
  <2> QED BY <1>1, <1>2, <2>1, RangeOfAppend
<1>6. BoxOld' = BoxOld \cup {x \in {m} : IsOld(x)}
      BY <1>1, <1>2 DEF BoxOld, IsOld, Cutoff
<1>7. BoxPos' = BoxPos
  <2> SUFFICES ASSUME NEW r \in Readers
               PROVE  LastSeen(cursor[r])' = LastSeen(cursor[r])
      BY <1>1 DEF BoxPos
  <2>1. cursor'[r] = cursor[r] /\ cursor[r] \in Nat
        BY <1>1, PostedTyped DEF QueueInv
  <2>2. ASSUME NEW i \in 1 .. n + 1
        PROVE  (InTurn(i)' /\ StampOf(posted'[i]) <= cursor[r])
                 <=> (i \in 1 .. n /\ InTurn(i) /\ StampOf(posted[i]) <= cursor[r])
    <3>1. CASE i = n + 1
          BY <1>2, <1>4, <2>1, <3>1 DEF StampOf
    <3>2. CASE i # n + 1
      <4>1. i \in 1 .. n
            BY <1>2, <3>2
      <4> QED BY <1>2, <1>3, <4>1
    <3> QED BY <3>1, <3>2
  <2>3. 1 .. n \subseteq 1 .. n + 1
        BY <1>2
  <2>4. {i \in 1 .. n + 1 : InTurn(i)' /\ StampOf(posted'[i]) <= cursor[r]}
          = {i \in 1 .. n : InTurn(i) /\ StampOf(posted[i]) <= cursor[r]}
        BY <2>2, <2>3
  <2> QED BY <1>2, <2>1, <2>4 DEF LastSeen, StampOf
<1>8. Box!Post(m)
      BY <1>1, <1>2, <1>5, <1>6, <1>7, SameTurns DEF Box!Post, BoxOld, BoxPos
<1> QED BY <1>2, <1>8

\* A reader fetches, up to the time it is given.
LEMMA PickupFetches ==
    ASSUME QueueInv, NEW r \in Readers, MsgsSince(r)
    PROVE  Box!Fetch(r)
<1> DEFINE next == NextCursor(r, Picked(r))
           taken == {outbox[i] : i \in Picked(r)}
           k == LastSeen(next)
           p == LastSeen(cursor[r])
           D == DOMAIN posted
           Loose == {i \in D : ~InTurn(i) \/ Overtaken(i)}
           Due == {i \in p + 1 .. k : InTurn(i)}
           S == {x \in taken : \E i \in Loose : x = posted[i]}
<1>1. /\ got' = [got EXCEPT ![r] = @ \cup taken] /\ cursor' = [cursor EXCEPT ![r] = next]
      /\ UNCHANGED <<outbox, now, posted>>
      BY DEF MsgsSince
<1>2. next \in Nat /\ cursor[r] \in Nat /\ cursor[r] <= next
  <2>1. TypeOK
        BY DEF QueueInv
  <2>2. next \in 0 .. MaxTime /\ cursor[r] <= next
        BY <2>1, CursorMoves
  <2> HIDE DEF next
  <2> QED BY <2>1, <2>2, PostedTyped, OutboxAssumption
<1>3. /\ \A m \in taken : m \in ToSet(outbox) /\ Wants(r, m) /\ cursor[r] < StampOf(m)
      /\ \A i \in D : posted[i] \in taken => StampOf(posted[i]) <= next \/ Overtaken(i)
      /\ \A i \in D :
           InTurn(i) /\ posted[i] \in ToSet(outbox) /\ Wants(r, posted[i])
           /\ cursor[r] < StampOf(posted[i]) /\ StampOf(posted[i]) <= next
           => posted[i] \in taken
      BY Takes
<1> HIDE DEF next, taken
<1>4. /\ k \in 0 .. Len(posted)
      /\ \A i \in D : InTurn(i) => (StampOf(posted[i]) <= next <=> i <= k)
      BY <1>2, SeenInTurn DEF QueueInv
<1>5. /\ p \in 0 .. Len(posted)
      /\ p # 0 => InTurn(p) /\ StampOf(posted[p]) <= cursor[r]
      /\ \A i \in D : InTurn(i) => (StampOf(posted[i]) <= cursor[r] <=> i <= p)
      BY <1>2, SeenInTurn DEF QueueInv
<1>6. BoxPos' = [BoxPos EXCEPT ![r] = k] /\ BoxPos[r] = p
  <2>1. \A x \in Readers : cursor'[x] = IF x = r THEN next ELSE cursor[x]
        BY <1>1 DEF QueueInv, TypeOK
  <2> QED BY <1>1, <2>1 DEF BoxPos, LastSeen, InTurn, StampOf
<1> HIDE DEF k, p
<1>7. /\ D = 1 .. Len(posted) /\ Len(posted) \in Nat
      /\ \A i \in D : StampOf(posted[i]) \in Nat
      BY PostedTyped DEF QueueInv
<1> HIDE DEF D
<1>8. k \in p .. Len(posted)
  <2>1. p # 0 => p \in D /\ StampOf(posted[p]) <= next
        BY <1>2, <1>5, <1>7
  <2>2. p # 0 => p <= k
        BY <1>4, <1>5, <2>1
  <2> QED BY <1>4, <1>5, <1>7, <2>2
<1>9. \A i \in p + 1 .. k : i \in D /\ i <= k /\ ~(i <= p)
      BY <1>4, <1>5, <1>7
<1>10. ASSUME NEW x \in taken
       PROVE  x \in S \cup {posted[i] : i \in {j \in Due : posted[j] \in ToSet(outbox)
                                                           /\ Wants(r, posted[j])}}
  <2>1. PICK i \in D : x = posted[i]
    <3>1. x \in ToSet(posted)
          BY <1>3 DEF QueueInv, Order
    <3> QED BY <3>1 DEF D, ToSet
  <2>2. CASE i \in Loose
        BY <2>1, <2>2
  <2>3. CASE i \notin Loose
    <3>1. InTurn(i) /\ ~Overtaken(i)
          BY <2>3
    <3>2. StampOf(posted[i]) <= next /\ cursor[r] < StampOf(posted[i])
          BY <1>3, <2>1, <3>1
    <3>3. i <= k /\ ~(i <= p)
          BY <1>2, <1>4, <1>5, <1>7, <3>1, <3>2
    <3>4. i \in p + 1 .. k
          BY <1>4, <1>5, <1>7, <3>3
    <3> QED BY <1>3, <2>1, <3>1, <3>4
  <2> QED BY <2>2, <2>3
<1>11. ASSUME NEW j \in Due, posted[j] \in ToSet(outbox), Wants(r, posted[j])
       PROVE  posted[j] \in taken
  <2>1. j \in D /\ InTurn(j) /\ j <= k /\ ~(j <= p)
        BY <1>9
  <2>2. StampOf(posted[j]) <= next /\ cursor[r] < StampOf(posted[j])
        BY <1>2, <1>4, <1>5, <1>7, <2>1
  <2> QED BY <1>3, <1>11, <2>1, <2>2
<1>12. taken = S \cup Box!For(r, Due)
  <2>1. Box!For(r, Due) = {posted[i] : i \in {j \in Due : posted[j] \in ToSet(outbox)
                                                         /\ Wants(r, posted[j])}}
        BY DEF Box!For
  <2> HIDE DEF Due
  <2>2. \A x \in S \cup Box!For(r, Due) : x \in taken
        BY <1>11, <2>1
  <2> QED BY <1>10, <2>1, <2>2
<1>13. S \in SUBSET Box!For(r, Loose)
  <2>1. Box!For(r, Loose) = {posted[i] : i \in {j \in Loose : posted[j] \in ToSet(outbox)
                                                         /\ Wants(r, posted[j])}}
        BY DEF Box!For
  <2> HIDE DEF Loose
  <2> QED BY <1>3, <2>1
<1>14. BoxOld' = BoxOld /\ ToSet(outbox)' = ToSet(outbox)
       BY <1>1 DEF BoxOld, IsOld, Cutoff
<1>15. got' = [got EXCEPT ![r] = @ \cup S \cup Box!For(r, Due)]
  <2> HIDE DEF S, Due
  <2>1. got[r] \cup taken = got[r] \cup S \cup Box!For(r, Due)
        BY <1>12
  <2> QED BY <1>1, <2>1
<1>16. /\ Loose = {i \in DOMAIN posted : ~Box!InTurn(i) \/ Box!Overtaken(i)}
       /\ Due = {i \in BoxPos[r] + 1 .. k : Box!InTurn(i)}
       BY <1>6, SameTurns DEF D
<1> HIDE DEF S, Loose, Due
<1> QED BY <1>1, <1>6, <1>8, <1>13, <1>14, <1>15, <1>16 DEF Box!Fetch, BoxOld, BoxPos

\* Flush drops messages that are old or were overtaken.
LEMMA FlushExpires ==
    ASSUME QueueInv, TypeOK', Flush
    PROVE  Box!Expire
<1> DEFINE gone == ToSet(outbox) \ ToSet(outbox')
           late == {posted[i] : i \in {j \in DOMAIN posted : Overtaken(j)}}
           n == Len(outbox)
<1>1. UNCHANGED <<now, cursor, posted, got>>
      BY DEF Flush, history
<1>2. ToSet(outbox') \subseteq ToSet(outbox)
      BY FlushOutbox
<1>3. /\ DOMAIN outbox = 1 .. n /\ n \in Nat
      /\ \A i \in DOMAIN outbox : outbox[i].timeStamp \in Nat
      BY QueueTypes DEF QueueInv
<1>4. ASSUME NEW m \in gone PROVE m \in BoxOld \cup late
  <2>1. m \in ToSet(posted)
        BY DEF QueueInv, Order
  <2>2. CASE IsOld(m)
        BY <2>1, <2>2 DEF BoxOld
  <2>3. CASE ~IsOld(m)
    <3>1. IsOld(outbox[n])
          BY <2>3, FlushLoses DEF QueueInv
    <3>2. PICK j \in 1 .. n : m = outbox[j]
          BY <1>3 DEF ToSet
    <3>3. j < n
          BY <1>3, <2>3, <3>1, <3>2
    <3>4. CameIn(outbox[j], outbox[n])
          BY <1>3, <3>3 DEF QueueInv, Order, AsPosted
    <3>5. PICK a \in DOMAIN posted, b \in DOMAIN posted :
            a < b /\ posted[a] = outbox[j] /\ posted[b] = outbox[n]
          BY <3>4 DEF CameIn
    <3>6. outbox[n].timeStamp < outbox[j].timeStamp
      <4>1. outbox[n].timeStamp \in Nat /\ outbox[j].timeStamp \in Nat
            BY <1>3, <3>3
      <4>2. Cutoff \in Int
            BY OutboxAssumption DEF Cutoff, QueueInv, TypeOK
      <4> QED BY <2>3, <3>1, <3>2, <4>1, <4>2 DEF IsOld
    <3>7. Overtaken(a)
          BY <3>5, <3>6 DEF Overtaken, StampOf
    <3> QED BY <3>2, <3>5, <3>7
  <2> QED BY <2>2, <2>3
<1>5. ToSet(outbox') = ToSet(outbox) \ gone
      BY <1>2
<1>6. BoxOld' = BoxOld /\ BoxPos' = BoxPos
      BY <1>1 DEF BoxOld, BoxPos, LastSeen, InTurn, StampOf, IsOld, Cutoff
<1>7. late = {posted[i] : i \in {j \in DOMAIN posted : Box!Overtaken(j)}}
      BY SameTurns
<1>8. gone \in SUBSET (ToSet(outbox) \cap (BoxOld \cup late))
      BY <1>4
<1> HIDE DEF gone, late
<1> QED BY <1>1, <1>5, <1>6, <1>7, <1>8 DEF Box!Expire, BoxOld, BoxPos

\* Every step of the outbox is one of the mailbox, or none.
LEMMA BoxStep ==
    ASSUME QueueInv, QueueInv', [Next]_vars
    PROVE  [Box!Next]_(Box!vars)
<1>1. ASSUME NEW w \in Writers, NEW c \in Channels, NEW s \in Sizes, Stamp(w, c, s)
      PROVE  Box!Next
  <2>1. now' \in Nat /\ now <= now' /\ UNCHANGED <<outbox, posted, cursor, got>>
        BY <1>1, OutboxAssumption DEF Stamp, Readings, QueueInv, TypeOK
  <2> QED BY <2>1, ClockAges DEF Box!Next
<1>2. ASSUME NEW w \in Writers, AppendMsg(w) PROVE Box!Next
      BY <1>2, AppendPosts DEF Box!Next
<1>3. ASSUME NEW r \in Readers, MsgsSince(r) PROVE Box!Next
      BY <1>3, PickupFetches DEF Box!Next
<1>4. CASE Flush
      BY <1>4, FlushExpires DEF Box!Next, QueueInv
<1>5. CASE Tick
  <2>1. now' \in Nat /\ now <= now' /\ UNCHANGED <<outbox, posted, cursor, got>>
        BY <1>5 DEF Tick, history, QueueInv, TypeOK
  <2> QED BY <2>1, ClockAges DEF Box!Next
<1>6. CASE UNCHANGED vars
  <2>1. UNCHANGED <<outbox, posted, cursor, got, now>>
        BY <1>6 DEF vars, queue, history
  <2>2. BoxOld' = BoxOld /\ BoxPos' = BoxPos /\ ToSet(outbox)' = ToSet(outbox)
        BY <2>1 DEF BoxOld, BoxPos, LastSeen, InTurn, StampOf, IsOld, Cutoff
  <2> QED BY <2>1, <2>2 DEF Box!vars, BoxOld, BoxPos
<1> QED BY <1>1, <1>2, <1>3, <1>4, <1>5, <1>6 DEF Next

\* The outbox of nodes/ram keeps what an outbox promises (RamOutbox.BoxSpec), for
\* any writers and readers: messages in the order they were posted, no reader
\* passing over one that came in its turn, and nothing dropped that is not old and
\* was not overtaken.
THEOREM OutboxIsMailbox == Spec => BoxSpec
<1>1. QueueInv /\ QueueInv' /\ [Next]_vars => [Box!Next]_(Box!vars)
      BY BoxStep
<1> QED BY BoxInit, QueueInvariant, <1>1, PTL DEF Spec, BoxSpec, Box!Spec

-----------------------------------------------------------------------------
(***************************************************************************)
(* Cutting and joining.                                                    *)
(***************************************************************************)
\* The chunks cover the message, and the last of them is not empty.
LEMMA ChunksCover ==
    ASSUME NEW n \in Nat, NEW s \in Nat, n > 0, s > 0
    PROVE  LET t == TotalChunks(n, s) IN
           t \in Nat /\ t > 0 /\ n <= t * s /\ (t - 1) * s < n
<1> DEFINE q == n \div s
           r == n % s
<1>1. q \in Nat /\ r \in 0 .. s - 1 /\ n = s * q + r
      OBVIOUS
<1>2. TotalChunks(n, s) = q + IF r = 0 THEN 0 ELSE 1
      BY DEF TotalChunks
<1> HIDE DEF q, r
<1>3. s * q = q * s
      BY <1>1
<1>4. CASE r = 0
  <2>1. q > 0
        BY <1>1, <1>4
  <2>2. (q - 1) * s = q * s - s
        BY <1>1
  <2> QED BY <1>1, <1>2, <1>3, <1>4, <2>1, <2>2
<1>5. CASE r # 0
  <2>1. (q + 1) * s = q * s + s /\ (q + 1) - 1 = q
        BY <1>1
  <2>2. TotalChunks(n, s) = q + 1
        BY <1>2, <1>5
  <2> QED BY <1>1, <1>3, <1>5, <2>1, <2>2
<1> QED BY <1>4, <1>5

\* Two neighbouring parts of a sequence, joined.
LEMMA PartsJoin ==
    ASSUME NEW S, NEW q \in Seq(S), NEW a \in 0 .. Len(q), NEW b \in a .. Len(q)
    PROVE  SubSeq(q, 1, a) \o SubSeq(q, a + 1, b) = SubSeq(q, 1, b)
<1>1. Len(q) \in Nat /\ a \in Nat /\ b \in Nat
      OBVIOUS
<1>2. \A i \in 1 .. Len(q) : q[i] \in S
      OBVIOUS
<1> DEFINE x == SubSeq(q, 1, a)
           y == SubSeq(q, a + 1, b)
           z == SubSeq(q, 1, b)
<1>3. x \in Seq(S) /\ Len(x) = a /\ \A i \in 1 .. a : x[i] = q[i]
  <2>1. \A i \in 1 .. a : q[i] \in S
        BY <1>1, <1>2
  <2> QED BY <1>1, <2>1, SubSeqProperties
<1>4. y \in Seq(S) /\ Len(y) = b - a /\ \A i \in 1 .. b - a : y[i] = q[a + i]
  <2>1. \A i \in a + 1 .. b : q[i] \in S
        BY <1>1, <1>2
  <2>2. /\ y \in Seq(S)
        /\ Len(y) = IF a + 1 <= b THEN b - (a + 1) + 1 ELSE 0
        /\ \A i \in 1 .. b - (a + 1) + 1 : y[i] = q[(a + 1) + i - 1]
        BY <1>1, <2>1, SubSeqProperties
  <2> HIDE DEF y
  <2> QED BY <1>1, <2>2
<1>5. z \in Seq(S) /\ Len(z) = b /\ \A i \in 1 .. b : z[i] = q[i]
  <2>1. \A i \in 1 .. b : q[i] \in S
        BY <1>1, <1>2
  <2> QED BY <1>1, <2>1, SubSeqProperties
<1> HIDE DEF x, y, z
<1>6. /\ x \o y \in Seq(S) /\ Len(x \o y) = b
      /\ \A i \in 1 .. b : (x \o y)[i] = IF i <= a THEN x[i] ELSE y[i - a]
  <2>1. /\ x \o y \in Seq(S) /\ Len(x \o y) = Len(x) + Len(y)
        /\ \A i \in 1 .. Len(x) + Len(y) :
             (x \o y)[i] = IF i <= Len(x) THEN x[i] ELSE y[i - Len(x)]
        BY <1>3, <1>4, ConcatProperties
  <2>2. Len(x) + Len(y) = b
        BY <1>1, <1>3, <1>4
  <2>3. Len(x) = a
        BY <1>3
  <2> QED BY <2>1, <2>2, <2>3
<1>7. \A i \in 1 .. b : (x \o y)[i] = z[i]
  <2> SUFFICES ASSUME NEW i \in 1 .. b PROVE (x \o y)[i] = z[i]
      OBVIOUS
  <2>1. CASE i <= a
        BY <1>1, <1>3, <1>5, <1>6, <2>1
  <2>2. CASE ~(i <= a)
    <3>1. i - a \in 1 .. b - a /\ a + (i - a) = i
          BY <1>1, <2>2
    <3> QED BY <1>4, <1>5, <1>6, <2>2, <3>1
  <2> QED BY <2>1, <2>2
<1> DEFINE u == x \o y
<1>8. u \in Seq(S) /\ Len(u) = b /\ \A i \in 1 .. b : u[i] = z[i]
      BY <1>6, <1>7
<1> HIDE DEF u
<1>9. u = z
      BY <1>5, <1>8
<1> QED BY <1>9 DEF u, x, y, z

\* A message is a sequence of its bytes.
LEMMA ContentIsSeq ==
    ASSUME NEW m \in Messages
    PROVE  /\ Size[m] \in Nat /\ Size[m] > 0
           /\ Content(m) \in Seq(Messages \X Nat) /\ Len(Content(m)) = Size[m]
<1>1. Size[m] \in Nat /\ Size[m] > 0
      BY ReassemblyAssumption
<1>2. \A k \in 1 .. Size[m] : <<m, k>> \in Messages \X Nat
      BY <1>1
<1> QED BY <1>1, <1>2 DEF Content

\* The chunks of a message, joined in the order of their numbers, are the message.
LEMMA ChunksJoin ==
    ASSUME NEW m \in Messages, NEW s \in Nat, s > 0, NEW cs,
           DOMAIN cs = 0 .. TotalChunks(Size[m], s) - 1,
           \A i \in DOMAIN cs : cs[i] = Data(m, s, i)
    PROVE  Joined(cs) = Content(m)
<1> DEFINE n == Size[m]
           t == TotalChunks(n, s)
           C == Content(m)
           F(g, i) == IF i = 0 THEN << >>
                      ELSE IF i - 1 \in DOMAIN cs THEN g[i - 1] \o cs[i - 1] ELSE g[i - 1]
           Unfolds(g) == g = [i \in 0 .. t |-> F(g, i)]
           f == [i \in 0 .. t |-> SubSeq(C, 1, Lesser(i * s, n))]
<1>1. n \in Nat /\ n > 0 /\ C \in Seq(Messages \X Nat) /\ Len(C) = n
      BY ContentIsSeq
<1>2. t \in Nat /\ t > 0 /\ n <= t * s /\ (t - 1) * s < n
  <2> HIDE DEF n
  <2> QED BY <1>1, ChunksCover
<1>0. t \in Nat /\ t > 0
      BY <1>2
<1> HIDE DEF n, C, t
<1> DEFINE D == DOMAIN cs
<1>3. D = 0 .. t - 1
      BY DEF t, n
<1> HIDE DEF D
<1>4. ASSUME NEW i \in 1 .. t
      PROVE  f[i] = f[i - 1] \o cs[i - 1]
  <2> DEFINE a == (i - 1) * s
             b == Lesser(i * s, n)
  <2>1. i \in Nat /\ i - 1 \in 0 .. t /\ i - 1 \in D /\ i \in 0 .. t /\ (i - 1) + 1 = i
        BY <1>0, <1>3
  <2>2. a \in Nat /\ i * s = a + s /\ a <= (t - 1) * s
    <3>1. i - 1 \in Nat /\ i - 1 <= t - 1
          BY <1>2
    <3>2. \A x, y, z \in Nat : x <= y => x * z <= y * z
          OBVIOUS
    <3>3. t - 1 \in Nat
          BY <1>2
    <3>4. a <= (t - 1) * s
          BY <3>1, <3>2, <3>3
    <3>5. i * s = (i - 1) * s + s /\ (i - 1) * s \in Nat
          BY <2>1, <3>1
    <3> QED BY <3>4, <3>5
  <2>3. a < n
    <3>1. t - 1 \in Nat /\ (t - 1) * s \in Nat
          BY <1>2
    <3> HIDE DEF a
    <3> QED BY <1>1, <1>2, <2>2, <3>1
  <2>4. Lesser((i - 1) * s, n) = a
        BY <2>3 DEF Lesser
  <2>5. b \in a .. n /\ a \in 0 .. n
    <3> HIDE DEF a
    <3>1. i * s \in Nat
          BY <2>2
    <3> QED BY <1>1, <2>2, <2>3, <3>1 DEF Lesser
  <2>6. cs[i - 1] = SubSeq(C, a + 1, b)
    <3>1. cs[i - 1] = Data(m, s, i - 1)
          BY <2>1 DEF D
    <3> QED BY <2>1, <3>1 DEF Data, C, n
  <2>7. f[i - 1] = SubSeq(C, 1, a) /\ f[i] = SubSeq(C, 1, b)
        BY <2>1, <2>4
  <2> HIDE DEF a, b, f
  <2>8. SubSeq(C, 1, a) \o SubSeq(C, a + 1, b) = SubSeq(C, 1, b)
        BY <1>1, <2>5, PartsJoin
  <2> QED BY <2>6, <2>7, <2>8
<1>5. f[0] = << >> /\ f[t] = C
  <2>1. 0 \in 0 .. t /\ t \in 0 .. t /\ 0 * s = 0 /\ t * s \in Nat
        BY <1>2
  <2>2. Lesser(0 * s, n) = 0 /\ Lesser(t * s, n) = n
        BY <1>1, <1>2, <2>1 DEF Lesser
  <2>3. SubSeq(C, 1, 0) = << >>
        BY SubSeqEmpty
  <2>4. SubSeq(C, 1, n) = C
        BY <1>1, SubSeqFull
  <2> QED BY <2>1, <2>2, <2>3, <2>4
<1>6. DOMAIN f = 0 .. t
      OBVIOUS
<1> HIDE DEF f
<1>7. Unfolds(f)
  <2>1. \A i \in 0 .. t : f[i] = F(f, i)
    <3> SUFFICES ASSUME NEW i \in 0 .. t PROVE f[i] = F(f, i)
        OBVIOUS
    <3>1. CASE i = 0
          BY <1>5, <3>1
    <3>2. CASE i # 0
      <4>1. i \in 1 .. t /\ i - 1 \in D
            BY <1>0, <1>3, <3>2
      <4> QED BY <1>4, <3>2, <4>1 DEF D
    <3> QED BY <3>1, <3>2
  <2>2. f = [i \in 0 .. t |-> f[i]]
        BY <1>6 DEF f
  <2> HIDE DEF F
  <2> QED BY <2>1, <2>2
<1> DEFINE buf == CHOOSE g : Unfolds(g)
<1>8. Unfolds(buf)
  <2> HIDE DEF Unfolds
  <2> QED BY <1>7
<1>9. \A i \in 0 .. t : buf[i] = F(buf, i)
  <2> HIDE DEF buf
  <2> QED BY <1>8
<1> HIDE DEF buf
<1> DEFINE S == {i \in 0 .. t : buf[i] = f[i]}
<1>10. 0 \in S
       BY <1>2, <1>5, <1>9
<1>11. \A i \in 0 .. t : i < t /\ i \in S => i + 1 \in S
  <2> SUFFICES ASSUME NEW i \in 0 .. t, i < t, i \in S PROVE i + 1 \in S
      OBVIOUS
  <2>1. i + 1 \in 1 .. t /\ i + 1 \in 0 .. t /\ (i + 1) - 1 = i /\ i \in D /\ i + 1 # 0
        BY <1>0, <1>3
  <2>2. buf[i + 1] = buf[i] \o cs[i]
        BY <1>9, <2>1 DEF D
  <2>3. f[i + 1] = f[i] \o cs[i]
        BY <1>4, <2>1
  <2> QED BY <2>1, <2>2, <2>3
<1> HIDE DEF S
<1>12. t \in S
  <2>1. \A i \in 0 .. t : i \in S
        BY <1>0, <1>10, <1>11, BoundedInduction
  <2>2. t \in 0 .. t
        BY <1>0
  <2> QED BY <2>1, <2>2
<1>13. Joined(cs) = buf[t]
  <2>1. (IF DOMAIN cs = {} THEN 0 ELSE Max(DOMAIN cs) + 1) = t
    <3> DEFINE l == t - 1
    <3>0. l \in Nat /\ l \in 0 .. l
          BY <1>0
    <3>1. l \in Nat /\ l \in D /\ D # {}
          BY <1>3, <3>0
    <3>2. D \in SUBSET (0 .. l)
          BY <1>3
    <3>3. Max(D) \in D /\ \A x \in D : x <= Max(D)
          BY <3>1, <3>2, MaxOfBounded
    <3> DEFINE x == Max(D)
    <3>4. x \in 0 .. l /\ l <= x
          BY <1>3, <3>1, <3>3
    <3> HIDE DEF x
    <3>5. x + 1 = t
          BY <1>0, <3>4
    <3> QED BY <3>1, <3>5 DEF D, x
  <2> QED BY <2>1 DEF Joined, buf
<1> QED BY <1>5, <1>12, <1>13 DEF S, C

-----------------------------------------------------------------------------
(***************************************************************************)
(* The types, for any sender and receiver.                                 *)
(***************************************************************************)
IsSeq(q) == \E S : q \in Seq(S)

\* The sender's types; a stream that is being sent has a size for its chunks.
Progress == [at : {"new", "stream", "failed", "done"}, s : Nat, next : Nat]

Total(m) == TotalChunks(Size[m], sending[m].s)

SenderTyped ==
    /\ limit \in Limits
    /\ sending \in [Messages -> Progress]
    /\ senderPanic \in {"none", "limit", "divide"}
    /\ net \subseteq Pieces
    /\ \A m \in Messages :
         /\ sending[m].at = "new" => sending[m].s = 0 /\ sending[m].next = 0
         /\ sending[m].at = "stream" => sending[m].s > 0 /\ sending[m].next <= Total(m)

\* The receiver's types, with those of what only the properties read.
TablesTyped ==
    /\ streams \in [IDs -> Nat \cup {NoHeader}]
    /\ chunks = [id \in IDs |-> chunks[id]]
    /\ \A id \in IDs : \A i \in DOMAIN chunks[id] :
         i \in Nat /\ chunks[id][i] \in Seq(Messages \X Nat)

FlagsTyped ==
    /\ stage \in {"stopped", "policies", "running", "ready", "stopping"}
    /\ running \in BOOLEAN
    /\ debouncer \in {"nil", "idle", "armed"}
    /\ receiverPanic \in {"none", "nil debouncer", "miscount", "bad update"}

CountsTyped == handles \in Nat /\ out \in 0 .. OutCap /\ crashes \in Nat

PutsAreSeqs == puts = [id \in IDs |-> puts[id]] /\ \A id \in IDs : IsSeq(puts[id])

ReceiverTyped == FlagsTyped /\ CountsTyped /\ PutsAreSeqs

StreamsTyped == SenderTyped /\ TablesTyped /\ ReceiverTyped

\* A chunk is a sequence of bytes, whatever its number.
LEMMA DataIsSeq ==
    ASSUME NEW m \in Messages, NEW s \in Nat, NEW i \in Nat
    PROVE  Data(m, s, i) \in Seq(Messages \X Nat)
<1> DEFINE a == i * s
           b == Lesser((i + 1) * s, Size[m])
           C == Content(m)
<1>1. a \in Nat /\ (i + 1) * s \in Nat
      OBVIOUS
<1>2. /\ Size[m] \in Nat /\ C \in Seq(Messages \X Nat) /\ Len(C) = Size[m]
      BY ContentIsSeq
<1>3. b \in Nat /\ b <= Size[m]
      BY <1>1, <1>2 DEF Lesser
<1>4. Data(m, s, i) = SubSeq(C, a + 1, b)
      BY DEF Data
<1> HIDE DEF a, b, C
<1>5. a + 1 \in Int /\ b \in Int /\ \A k \in a + 1 .. b : k \in 1 .. Len(C)
      BY <1>1, <1>2, <1>3
<1>6. \A k \in a + 1 .. b : C[k] \in Messages \X Nat
      BY <1>2, <1>5
<1> QED BY <1>4, <1>5, <1>6, SubSeqProperties

\* A stream has at least one chunk.
LEMMA SomeChunks ==
    ASSUME NEW m \in Messages, NEW s \in Nat, s > 0
    PROVE  TotalChunks(Size[m], s) \in Nat /\ TotalChunks(Size[m], s) > 0
<1>1. Size[m] \in Nat /\ Size[m] > 0
      BY ReassemblyAssumption
<1> QED BY <1>1, ChunksCover

\* What a sender sends are pieces.
LEMMA PiecesTyped ==
    ASSUME NEW m \in Messages
    PROVE  /\ Plain(m) \in Pieces
           /\ \A s \in Nat : s > 0 => Header(m, s) \in Pieces
           /\ \A s, i \in Nat : Chunk(m, s, i) \in Pieces
<1>1. StreamID[m] \in IDs
      BY ReassemblyAssumption
<1>2. Content(m) \in Seq(Messages \X Nat)
      BY ContentIsSeq
<1>3. Plain(m) \in Pieces
      BY <1>1, <1>2 DEF Plain, Pieces
<1>4. ASSUME NEW s \in Nat, s > 0 PROVE Header(m, s) \in Pieces
  <2>1. TotalChunks(Size[m], s) \in Nat /\ << >> \in Seq(Messages \X Nat)
        BY <1>4, SomeChunks
  <2> QED BY <1>1, <2>1 DEF Header, Pieces
<1>5. ASSUME NEW s \in Nat, NEW i \in Nat PROVE Chunk(m, s, i) \in Pieces
      BY <1>1, DataIsSeq DEF Chunk, Pieces
<1> QED BY <1>3, <1>4, <1>5

\* A sequence stays one when something is appended.
LEMMA SeqGrows ==
    ASSUME NEW q, IsSeq(q), NEW x
    PROVE  /\ IsSeq(Append(q, x)) /\ Len(q) \in Nat /\ Len(Append(q, x)) = Len(q) + 1
           /\ DOMAIN q = 1 .. Len(q) /\ DOMAIN Append(q, x) = 1 .. Len(q) + 1
           /\ \A i \in 1 .. Len(q) : Append(q, x)[i] = q[i]
           /\ Append(q, x)[Len(q) + 1] = x
<1>1. PICK S : q \in Seq(S)
      BY DEF IsSeq
<1> DEFINE T == S \cup {x}
<1>2. q \in Seq(T) /\ x \in T
      BY <1>1
<1> HIDE DEF T
<1>3. Append(q, x) \in Seq(T)
      BY <1>2
<1>4. IsSeq(Append(q, x))
      BY <1>3 DEF IsSeq
<1> QED BY <1>2, <1>4

\* The streams that are complete are finitely many.
LEMMA CompletedFinite ==
    /\ IsFiniteSet(Completed) /\ Cardinality(Completed) \in Nat
    /\ \A S \in SUBSET Completed : IsFiniteSet(S) /\ Cardinality(S) \in Nat
<1>1. Completed \subseteq IDs /\ IsFiniteSet(IDs)
      BY ReassemblyAssumption DEF Completed
<1>2. \A S \in SUBSET IDs : IsFiniteSet(S) /\ Cardinality(S) \in Nat
      BY <1>1, FS_Subset, FS_CardinalityType
<1> QED BY <1>1, <1>2

\* What is put on Out are sequences.
LEMMA PutsTyped ==
    ASSUME ReceiverTyped, NEW S \in SUBSET IDs, Puts(S)
    PROVE  PutsAreSeqs'
<1>1. puts' = [id \in IDs |-> IF id \in S THEN Append(puts[id], Assembled(id)) ELSE puts[id]]
      BY DEF Puts
<1>2. \A id \in IDs : puts'[id] = IF id \in S THEN Append(puts[id], Assembled(id)) ELSE puts[id]
      BY <1>1
<1>3. \A id \in IDs : IsSeq(puts[id])
      BY DEF ReceiverTyped, PutsAreSeqs
<1>4. \A id \in IDs : IsSeq(puts'[id])
      BY <1>2, <1>3, SeqGrows
<1>5. puts' = [id \in IDs |-> puts'[id]]
      BY <1>1
<1> QED BY <1>4, <1>5 DEF PutsAreSeqs

\* The pieces of a message that SendPiece may send.
LEMMA NextPieceTyped ==
    ASSUME SenderTyped, NEW m \in Messages, sending[m].at = "stream"
    PROVE  NextPiece(m) \in Pieces
<1>1. sending[m].s \in Nat /\ sending[m].s > 0 /\ sending[m].next \in Nat
      BY DEF SenderTyped, Progress
<1>2. CASE sending[m].next = 0
      BY <1>1, <1>2, PiecesTyped DEF NextPiece
<1>3. CASE sending[m].next # 0
  <2>1. sending[m].next - 1 \in Nat
        BY <1>1, <1>3
  <2> QED BY <1>1, <1>3, <2>1, PiecesTyped DEF NextPiece
<1> QED BY <1>2, <1>3

\* What a step of the sender does to one message.
Sends(m) ==
    \/ UNCHANGED <<sending, net>>
    \/ /\ net' = net \cup {Plain(m)} /\ sending[m].at = "new"
       /\ sending' = [sending EXCEPT ![m].at = "done"]
    \/ /\ UNCHANGED net /\ sending[m].at = "new"
       /\ \E s \in Nat \ {0} :
            sending' = [sending EXCEPT ![m] = [at |-> "stream", s |-> s, next |-> 0]]
    \/ /\ UNCHANGED net /\ sending[m].at = "stream"
       /\ sending' = [sending EXCEPT ![m].at = "failed"]
    \/ /\ net' = net \cup {NextPiece(m)} /\ sending[m].at = "stream"
       /\ sending' = [sending EXCEPT
            ![m].next = @ + 1,
            ![m].at = IF sending[m].next = Total(m) THEN "done" ELSE "stream"]

\* The size of a chunk is a natural number.
LEMMA DataSizeTyped ==
    ASSUME limit \in Limits, ~TooLow(limit)
    PROVE  DataSize(ChunkSize(limit)) \in Nat
<1>1. limit \in Nat /\ MaxChunk \in Nat /\ Overhead \in Nat /\ ChunkHeader \in Nat
      /\ Word \in Nat \ {0}
      BY ReassemblyAssumption
<1>2. Effective(limit) \in Nat
      BY <1>1 DEF Effective, Lesser
<1> DEFINE x == ChunkSize(limit) - ChunkHeader
<1>3. x \in Int
      BY <1>1, <1>2 DEF ChunkSize
<1>4. DataSize(ChunkSize(limit)) = x % Word
      BY DEF DataSize
<1> HIDE DEF x
<1> QED BY <1>1, <1>3, <1>4

\* SendMsg and SendPiece are such steps.
LEMMA SenderSteps ==
    ASSUME limit \in Limits, NEW m \in Messages, SendMsg(m) \/ SendPiece(m)
    PROVE  /\ Sends(m) /\ senderPanic' \in {senderPanic, "limit", "divide"}
           /\ UNCHANGED <<limit, receiverVars, streamHistory>>
<1>1. CASE SendMsg(m)
  <2> DEFINE c == ChunkSize(limit)
             s == DataSize(c)
  <2>1. CASE SenderPanics("limit") \/ SenderPanics("divide")
        BY <2>1 DEF SenderPanics, Sends
  <2>2. CASE /\ net' = net \cup {Plain(m)}
             /\ sending' = [sending EXCEPT ![m].at = "done"]
             /\ UNCHANGED <<limit, senderPanic, changes, receiverVars, streamHistory>>
        BY <1>1, <2>2 DEF SendMsg, Sends
  <2>3. CASE /\ ~TooLow(limit) /\ s # 0
             /\ sending' = [sending EXCEPT ![m] = [at |-> "stream", s |-> s, next |-> 0]]
             /\ UNCHANGED <<limit, senderPanic, changes, net, receiverVars, streamHistory>>
    <3>1. s \in Nat \ {0}
          BY <2>3, DataSizeTyped
    <3> HIDE DEF s
    <3> QED BY <1>1, <2>3, <3>1 DEF SendMsg, Sends
  <2> QED BY <1>1, <2>1, <2>2, <2>3 DEF SendMsg
<1>2. CASE SendPiece(m)
  <2>1. CASE SenderPanics("limit")
        BY <2>1 DEF SenderPanics, Sends
  <2>2. CASE /\ sending' = [sending EXCEPT ![m].at = "failed"]
             /\ UNCHANGED <<limit, senderPanic, changes, net, receiverVars, streamHistory>>
        BY <1>2, <2>2 DEF SendPiece, Sends
  <2>3. CASE /\ net' = net \cup {NextPiece(m)}
             /\ sending' = [sending EXCEPT
                  ![m].next = @ + 1,
                  ![m].at = IF sending[m].next = TotalChunks(Size[m], sending[m].s)
                              THEN "done" ELSE "stream"]
             /\ UNCHANGED <<limit, senderPanic, changes, receiverVars, streamHistory>>
        BY <1>2, <2>3 DEF SendPiece, Sends, Total
  <2> QED BY <1>2, <2>1, <2>2, <2>3 DEF SendPiece
<1> QED BY <1>1, <1>2

\* What it sends.
LEMMA SendsPieces ==
    ASSUME NEW m \in Messages, Sends(m)
    PROVE  \A p \in net' : \/ p \in net \/ p = Plain(m)
                           \/ p = NextPiece(m) /\ sending[m].at = "stream"
BY DEF Sends

\* What becomes of the sender's variables.
LEMMA SendsChange ==
    ASSUME SenderTyped, NEW m \in Messages, Sends(m)
    PROVE  /\ sending' \in [Messages -> Progress]
           /\ \A k \in Messages : k # m => sending'[k] = sending[k]
           /\ sending'[m].s = sending[m].s \/ (sending[m].at = "new" /\ net' = net)
           /\ sending'[m].at = "new" => sending'[m] = sending[m]
           /\ sending'[m].at = "stream" =>
                \/ sending'[m] = sending[m]
                \/ sending'[m].s > 0 /\ sending'[m].next = 0 /\ sending[m].at = "new"
                \/ /\ sending[m].at = "stream" /\ sending[m].next # Total(m)
                   /\ sending'[m].s = sending[m].s
                   /\ sending'[m].next = sending[m].next + 1
<1>1. sending \in [Messages -> Progress] /\ sending[m] \in Progress
      BY DEF SenderTyped
<1>2. sending[m].next + 1 \in Nat
      BY <1>1 DEF Progress
<1>3. CASE UNCHANGED <<sending, net>>
      BY <1>1, <1>3
<1>4. CASE /\ net' = net \cup {Plain(m)} /\ sending[m].at = "new"
           /\ sending' = [sending EXCEPT ![m].at = "done"]
      BY <1>1, <1>4 DEF Progress
<1>5. CASE /\ UNCHANGED net /\ sending[m].at = "new"
           /\ \E s \in Nat \ {0} :
                sending' = [sending EXCEPT ![m] = [at |-> "stream", s |-> s, next |-> 0]]
      BY <1>1, <1>5 DEF Progress
<1>6. CASE /\ UNCHANGED net /\ sending[m].at = "stream"
           /\ sending' = [sending EXCEPT ![m].at = "failed"]
      BY <1>1, <1>6 DEF Progress
<1>7. CASE /\ net' = net \cup {NextPiece(m)} /\ sending[m].at = "stream"
           /\ sending' = [sending EXCEPT
                ![m].next = @ + 1,
                ![m].at = IF sending[m].next = Total(m) THEN "done" ELSE "stream"]
      BY <1>1, <1>2, <1>7 DEF Progress
<1> QED BY <1>3, <1>4, <1>5, <1>6, <1>7 DEF Sends

\* The sender's variables stay typed.
LEMMA SenderTypedStep ==
    ASSUME SenderTyped,
           \/ \E l \in Limits : SetByteLimit(l)
           \/ \E m \in Messages : SendMsg(m) \/ SendPiece(m)
           \/ net' \subseteq net /\ UNCHANGED <<limit, sending, senderPanic>>
    PROVE  SenderTyped'
<1>1. CASE \E l \in Limits : SetByteLimit(l)
      BY <1>1 DEF SetByteLimit, SenderTyped, Total
<1>2. ASSUME NEW m \in Messages, SendMsg(m) \/ SendPiece(m)
      PROVE  SenderTyped'
  <2>1. limit \in Limits
        BY DEF SenderTyped
  <2>2. Sends(m) /\ senderPanic' \in {senderPanic, "limit", "divide"} /\ limit' = limit
        BY <1>2, <2>1, SenderSteps
  <2>3. /\ sending' \in [Messages -> Progress]
        /\ \A k \in Messages : k # m => sending'[k] = sending[k]
        /\ sending'[m].at = "new" => sending'[m] = sending[m]
        /\ sending'[m].at = "stream" =>
             \/ sending'[m] = sending[m]
             \/ sending'[m].s > 0 /\ sending'[m].next = 0 /\ sending[m].at = "new"
             \/ /\ sending[m].at = "stream" /\ sending[m].next # Total(m)
                /\ sending'[m].s = sending[m].s
                /\ sending'[m].next = sending[m].next + 1
        /\ \A p \in net' : \/ p \in net \/ p = Plain(m)
                           \/ p = NextPiece(m) /\ sending[m].at = "stream"
        BY <2>2, SendsChange, SendsPieces
  <2>4. net' \subseteq Pieces
        BY <2>3, PiecesTyped, NextPieceTyped DEF SenderTyped
  <2>5. \A k \in Messages : k # m => Total(k)' = Total(k)
        BY <2>3 DEF Total
  <2>6. /\ sending'[m].at = "new" => sending'[m].s = 0 /\ sending'[m].next = 0
        BY <2>3 DEF SenderTyped
  <2>7. ASSUME sending'[m].at = "stream"
        PROVE  sending'[m].s > 0 /\ sending'[m].next <= Total(m)'
    <3>1. CASE sending'[m] = sending[m]
          BY <2>7, <3>1 DEF SenderTyped, Total
    <3>2. CASE sending'[m].s > 0 /\ sending'[m].next = 0
      <4>1. sending'[m].s \in Nat
            BY <2>3 DEF Progress
      <4>2. Total(m)' \in Nat
            BY <3>2, <4>1, SomeChunks DEF Total
      <4> QED BY <3>2, <4>2
    <3>3. CASE /\ sending[m].at = "stream" /\ sending[m].next # Total(m)
               /\ sending'[m].s = sending[m].s
               /\ sending'[m].next = sending[m].next + 1
      <4>1. sending[m].s \in Nat /\ sending[m].s > 0 /\ sending[m].next \in Nat
            /\ sending[m].next <= Total(m)
            BY <3>3 DEF SenderTyped, Progress
      <4>2. Total(m) \in Nat /\ Total(m)' = Total(m)
            BY <3>3, <4>1, SomeChunks DEF Total
      <4> QED BY <3>3, <4>1, <4>2
    <3> QED BY <2>3, <2>7, <3>1, <3>2, <3>3
  <2>8. ASSUME NEW k \in Messages
        PROVE  /\ sending'[k].at = "new" => sending'[k].s = 0 /\ sending'[k].next = 0
               /\ sending'[k].at = "stream" => sending'[k].s > 0 /\ sending'[k].next <= Total(k)'
    <3>1. CASE k = m
          BY <2>6, <2>7, <3>1
    <3>2. CASE k # m
          BY <2>3, <2>5, <3>2 DEF SenderTyped
    <3> QED BY <3>1, <3>2
  <2> QED BY <2>2, <2>3, <2>4, <2>8 DEF SenderTyped
<1>3. CASE net' \subseteq net /\ UNCHANGED <<limit, sending, senderPanic>>
      BY <1>3 DEF SenderTyped, Total
<1> QED BY <1>1, <1>2, <1>3

\* The steps of the receiver: none of them changes the sender, nor adds a piece.
ReceiverSteps ==
    \/ \E p \in net : Handle(p)
    \/ EndHandle \/ Callback \/ ReadOut \/ Crash \/ CrashInCallback \/ Start \/ Stop

\* They leave the sender alone.
LEMMA ReceiverKeepsSender ==
    ASSUME ReceiverSteps
    PROVE  net' \subseteq net /\ UNCHANGED <<limit, sending, senderPanic>>
<1> USE DEF senderVars, receiverVars, streamHistory
<1>1. ASSUME NEW p \in net, Handle(p)
      PROVE  net' \subseteq net /\ UNCHANGED <<limit, sending, senderPanic>>
      BY <1>1 DEF Handle, HandlePlain, AddStream, AddChunk, Arrives
<1>2. CASE EndHandle \/ Callback \/ ReadOut
      BY <1>2 DEF EndHandle, Callback, ReadOut
<1>3. CASE Crash \/ CrashInCallback
      BY <1>3 DEF Crash, CrashInCallback, Dies
<1>4. CASE Start \/ Stop
      BY <1>4 DEF Start, Stop
<1> QED BY <1>1, <1>2, <1>3, <1>4 DEF ReceiverSteps

\* A chunk is filed.
LEMMA FilesChunk ==
    ASSUME TablesTyped, NEW p \in Pieces,
           chunks' = [chunks EXCEPT ![p.id] =
                        [i \in DOMAIN @ \cup {p.num} |-> IF i = p.num THEN p.data ELSE @[i]]]
    PROVE  /\ chunks' = [id \in IDs |-> chunks'[id]]
           /\ \A id \in IDs : id # p.id => chunks'[id] = chunks[id]
           /\ DOMAIN chunks'[p.id] = DOMAIN chunks[p.id] \cup {p.num}
           /\ \A i \in DOMAIN chunks'[p.id] :
                chunks'[p.id][i] = IF i = p.num THEN p.data ELSE chunks[p.id][i]
<1>1. p.id \in IDs
      BY DEF Pieces
<1> DEFINE f == [i \in DOMAIN chunks[p.id] \cup {p.num} |->
                   IF i = p.num THEN p.data ELSE chunks[p.id][i]]
<1>2. DOMAIN chunks = IDs
      BY DEF TablesTyped
<1>3. chunks' = [chunks EXCEPT ![p.id] = f]
      OBVIOUS
<1>4. /\ DOMAIN f = DOMAIN chunks[p.id] \cup {p.num}
      /\ \A i \in DOMAIN f : f[i] = IF i = p.num THEN p.data ELSE chunks[p.id][i]
      OBVIOUS
<1> HIDE DEF f
<1>5. chunks' = [id \in IDs |-> IF id = p.id THEN f ELSE chunks[id]]
      BY <1>2, <1>3
<1>6. \A id \in IDs : chunks'[id] = IF id = p.id THEN f ELSE chunks[id]
      BY <1>5
<1> QED BY <1>1, <1>4, <1>5, <1>6

\* The tables stay typed.
LEMMA TablesTypedStep ==
    ASSUME SenderTyped, TablesTyped, ReceiverSteps
    PROVE  TablesTyped'
<1> USE DEF senderVars, receiverVars, streamHistory, filed
<1>0. NoHeader \in Nat \cup {NoHeader}
      OBVIOUS
<1>1. CASE UNCHANGED <<streams, chunks>>
      BY <1>1 DEF TablesTyped
<1>2. ASSUME NEW p \in net, AddStream(p) PROVE TablesTyped'
  <2>1. p.num \in Nat
        BY DEF SenderTyped, Pieces
  <2>2. streams' = [streams EXCEPT ![p.id] = p.num] /\ UNCHANGED chunks
        BY <1>2 DEF AddStream
  <2>3. streams' \in [IDs -> Nat \cup {NoHeader}]
        BY <2>1, <2>2 DEF TablesTyped
  <2> QED BY <2>2, <2>3 DEF TablesTyped
<1>3. ASSUME NEW p \in net, AddChunk(p) PROVE TablesTyped'
  <2>1. p \in Pieces /\ p.num \in Nat /\ p.data \in Seq(Messages \X Nat)
        BY DEF SenderTyped, Pieces
  <2>2. UNCHANGED streams
        BY <1>3 DEF AddChunk
  <2>3. chunks' = [chunks EXCEPT ![p.id] =
                     [i \in DOMAIN @ \cup {p.num} |-> IF i = p.num THEN p.data ELSE @[i]]]
        BY <1>3 DEF AddChunk
  <2>4. /\ chunks' = [id \in IDs |-> chunks'[id]]
        /\ \A id \in IDs : id # p.id => chunks'[id] = chunks[id]
        /\ DOMAIN chunks'[p.id] = DOMAIN chunks[p.id] \cup {p.num}
        /\ \A i \in DOMAIN chunks'[p.id] :
             chunks'[p.id][i] = IF i = p.num THEN p.data ELSE chunks[p.id][i]
        BY <2>1, <2>3, FilesChunk
  <2>5. ASSUME NEW id \in IDs, NEW i \in DOMAIN chunks'[id]
        PROVE  i \in Nat /\ chunks'[id][i] \in Seq(Messages \X Nat)
    <3>1. CASE id # p.id
          BY <2>4, <2>5, <3>1 DEF TablesTyped
    <3>2. CASE id = p.id
          BY <2>1, <2>4, <2>5, <3>2 DEF TablesTyped
    <3> QED BY <3>1, <3>2
  <2> QED BY <2>2, <2>4, <2>5 DEF TablesTyped
<1>4. CASE Callback
  <2>1. CASE UNCHANGED <<streams, chunks>>
        BY <1>1, <2>1
  <2>2. ASSUME NEW S \in SUBSET Completed, PutOut(S) PROVE TablesTyped'
    <3>1. /\ streams' = [id \in IDs |-> IF id \in S THEN NoHeader ELSE streams[id]]
          /\ chunks' = [id \in IDs |-> IF id \in S THEN << >> ELSE chunks[id]]
          BY <2>2 DEF PutOut
    <3>2. /\ \A id \in IDs : chunks'[id] = IF id \in S THEN << >> ELSE chunks[id]
          /\ chunks' = [id \in IDs |-> chunks'[id]]
          BY <3>1
    <3>3. \A id \in IDs : streams[id] \in Nat \cup {NoHeader}
          BY DEF TablesTyped
    <3>4. streams' \in [IDs -> Nat \cup {NoHeader}]
          BY <1>0, <3>1, <3>3
    <3>5. DOMAIN << >> = {}
          OBVIOUS
    <3>6. ASSUME NEW id \in IDs, NEW i \in DOMAIN chunks'[id]
          PROVE  i \in Nat /\ chunks'[id][i] \in Seq(Messages \X Nat)
      <4>1. chunks'[id] = chunks[id]
            BY <3>2, <3>5, <3>6
      <4> QED BY <3>6, <4>1 DEF TablesTyped
    <3> QED BY <3>2, <3>4, <3>6 DEF TablesTyped
  <2> QED BY <1>4, <2>1, <2>2 DEF Callback
<1>5. CASE Crash
  <2>1. CASE /\ streams' = [id \in IDs |-> NoHeader]
             /\ chunks' = [id \in IDs |-> << >>]
    <3>1. streams' \in [IDs -> Nat \cup {NoHeader}] /\ chunks' = [id \in IDs |-> chunks'[id]]
          BY <1>0, <2>1
    <3>2. \A id \in IDs : DOMAIN chunks'[id] = {}
          BY <2>1
    <3> QED BY <3>1, <3>2 DEF TablesTyped
  <2> QED BY <1>1, <1>5, <2>1 DEF Crash
<1>6. CASE CrashInCallback
  <2>1. UNCHANGED streams
        BY <1>6 DEF CrashInCallback
  <2>2. PICK id \in Completed : chunks' \in {chunks, [chunks EXCEPT ![id] = << >>]}
        BY <1>6 DEF CrashInCallback
  <2>3. CASE chunks' = chunks
        BY <1>1, <2>1, <2>3
  <2>4. CASE chunks' = [chunks EXCEPT ![id] = << >>]
    <3>1. DOMAIN chunks = IDs /\ id \in IDs
          BY DEF TablesTyped, Completed
    <3>2. /\ chunks' = [k \in IDs |-> chunks'[k]]
          /\ \A k \in IDs : chunks'[k] = IF k = id THEN << >> ELSE chunks[k]
          BY <2>4, <3>1
    <3>3. DOMAIN << >> = {}
          OBVIOUS
    <3>4. ASSUME NEW k \in IDs, NEW i \in DOMAIN chunks'[k]
          PROVE  i \in Nat /\ chunks'[k][i] \in Seq(Messages \X Nat)
      <4>1. chunks'[k] = chunks[k]
            BY <3>2, <3>3, <3>4
      <4> QED BY <3>4, <4>1 DEF TablesTyped
    <3> QED BY <2>1, <3>2, <3>4 DEF TablesTyped
  <2> QED BY <2>2, <2>3, <2>4
<1>7. CASE EndHandle \/ ReadOut \/ Start \/ Stop
      BY <1>1, <1>7 DEF EndHandle, ReadOut, Start, Stop
<1>8. ASSUME NEW p \in net, HandlePlain(p) PROVE TablesTyped'
      BY <1>1, <1>8 DEF HandlePlain
<1> QED BY <1>2, <1>3, <1>4, <1>5, <1>6, <1>7, <1>8 DEF ReceiverSteps, Handle

\* The flags stay typed.
LEMMA FlagsTypedStep ==
    ASSUME FlagsTyped, ReceiverSteps
    PROVE  FlagsTyped'
<1> USE DEF senderVars, receiverVars, streamHistory, FlagsTyped
<1>1. ASSUME NEW p \in net, Handle(p) PROVE FlagsTyped'
      BY <1>1 DEF Handle, HandlePlain, AddStream, AddChunk, FileTrigger, Trigger
<1>2. CASE EndHandle \/ Callback \/ ReadOut
      BY <1>2 DEF EndHandle, Trigger, Callback, ReadOut
<1>3. CASE Crash \/ CrashInCallback
      BY <1>3 DEF Crash, CrashInCallback, Dies
<1>4. CASE Start \/ Stop
      BY <1>4 DEF Start, Stop
<1> QED BY <1>1, <1>2, <1>3, <1>4 DEF ReceiverSteps

\* The counts do, and Out is never fuller than its capacity.
LEMMA CountsTypedStep ==
    ASSUME CountsTyped, ReceiverSteps
    PROVE  CountsTyped'
<1> USE DEF senderVars, receiverVars, streamHistory, CountsTyped
<1>0. OutCap \in Nat /\ OutCap > 0
      BY ReassemblyAssumption
<1>1. ASSUME NEW p \in net, Handle(p) PROVE CountsTyped'
  <2>1. CASE HandlePlain(p)
        BY <1>0, <2>1 DEF HandlePlain, Lesser
  <2>2. CASE AddStream(p) \/ AddChunk(p)
    <3>1. handles' = handles + 1 /\ UNCHANGED <<out, crashes>>
          BY <2>2 DEF AddStream, AddChunk
    <3> QED BY <3>1
  <2> QED BY <1>1, <2>1, <2>2 DEF Handle
<1>2. CASE EndHandle
  <2>1. handles > 0 /\ handles' = handles - 1 /\ UNCHANGED <<out, crashes>>
        BY <1>2 DEF EndHandle
  <2> QED BY <2>1
<1>3. CASE Callback
  <2>1. UNCHANGED <<handles, crashes>>
        BY <1>3 DEF Callback
  <2>2. CASE UNCHANGED out
        BY <2>1, <2>2
  <2>3. ASSUME NEW S \in SUBSET Completed,
               Cardinality(S) = Lesser(Room, Cardinality(Completed)), PutOut(S)
        PROVE  out' \in 0 .. OutCap
    <3>1. out' = out + Cardinality(S)
          BY <2>3 DEF PutOut
    <3>2. Cardinality(Completed) \in Nat /\ Cardinality(S) \in Nat
          BY CompletedFinite
    <3>3. Cardinality(S) <= OutCap - out
          BY <1>0, <2>3, <3>2 DEF Lesser, Room
    <3> QED BY <1>0, <3>1, <3>2, <3>3
  <2>4. out' \in 0 .. OutCap
        BY <1>3, <2>2, <2>3 DEF Callback
  <2> QED BY <2>1, <2>4
<1>4. CASE ReadOut
  <2>1. out > 0 /\ out' = out - 1 /\ UNCHANGED <<handles, crashes>>
        BY <1>4 DEF ReadOut
  <2> QED BY <1>0, <2>1
<1>5. CASE Crash \/ CrashInCallback
  <2>1. crashes' = crashes + 1 /\ handles' = 0 /\ out' = 0
        BY <1>5 DEF Crash, CrashInCallback, Dies
  <2> QED BY <1>0, <2>1
<1>6. CASE Start \/ Stop
  <2>1. UNCHANGED <<out, handles, crashes>>
        BY <1>6 DEF Start, Stop
  <2> QED BY <2>1
<1> QED BY <1>1, <1>2, <1>3, <1>4, <1>5, <1>6 DEF ReceiverSteps

\* So does what was put on Out.
LEMMA PutsTypedStep ==
    ASSUME ReceiverTyped, ReceiverSteps
    PROVE  PutsAreSeqs'
<1> USE DEF senderVars, receiverVars, streamHistory
<1>1. ASSUME UNCHANGED puts PROVE PutsAreSeqs'
      BY <1>1 DEF PutsAreSeqs, ReceiverTyped
<1>2. ASSUME NEW p \in net, Handle(p) PROVE UNCHANGED puts
      BY <1>2 DEF Handle, HandlePlain, AddStream, AddChunk
<1>3. ASSUME EndHandle \/ ReadOut \/ Crash \/ Start \/ Stop PROVE UNCHANGED puts
      BY <1>3 DEF EndHandle, ReadOut, Crash, Start, Stop
<1>4. CASE Callback
  <2>1. ASSUME NEW S \in SUBSET Completed, PutOut(S) PROVE PutsAreSeqs'
    <3>1. S \in SUBSET IDs /\ Puts(S)
          BY <2>1 DEF Completed, PutOut
    <3> QED BY <3>1, PutsTyped
  <2> QED BY <1>1, <1>4, <2>1 DEF Callback
<1>5. CASE CrashInCallback
  <2>1. PICK id \in Completed : Puts({id})
        BY <1>5 DEF CrashInCallback
  <2>2. {id} \in SUBSET IDs
        BY DEF Completed
  <2> QED BY <2>1, <2>2, PutsTyped
<1> QED BY <1>1, <1>2, <1>3, <1>4, <1>5 DEF ReceiverSteps

\* A step is one of the sender, one of the receiver, or none.
LEMMA StepsAre ==
    ASSUME StreamNext
    PROVE  \/ \E l \in Limits : SetByteLimit(l)
           \/ \E m \in Messages : SendMsg(m) \/ SendPiece(m)
           \/ ReceiverSteps
BY DEF StreamNext, ReceiverSteps

\* Steps of the sender leave the receiver and the history alone.
LEMMA SenderKeepsReceiver ==
    ASSUME limit \in Limits,
           \/ \E l \in Limits : SetByteLimit(l)
           \/ \E m \in Messages : SendMsg(m) \/ SendPiece(m)
    PROVE  UNCHANGED <<receiverVars, streamHistory>>
BY SenderSteps DEF SetByteLimit

\* Every step keeps the types.
LEMMA StreamsTypedStep == StreamsTyped /\ [StreamNext]_streamVars => StreamsTyped'
<1> SUFFICES ASSUME StreamsTyped, [StreamNext]_streamVars PROVE StreamsTyped'
    OBVIOUS
<1>0. SenderTyped /\ TablesTyped /\ ReceiverTyped /\ limit \in Limits
      BY DEF StreamsTyped, SenderTyped
<1>1. CASE \/ \E l \in Limits : SetByteLimit(l)
           \/ \E m \in Messages : SendMsg(m) \/ SendPiece(m)
  <2>1. UNCHANGED <<receiverVars, streamHistory>>
        BY <1>0, <1>1, SenderKeepsReceiver
  <2>2. TablesTyped' /\ ReceiverTyped'
        BY <1>0, <2>1 DEF TablesTyped, ReceiverTyped, FlagsTyped, CountsTyped, PutsAreSeqs,
               receiverVars, filed, streamHistory
  <2> QED BY <1>0, <1>1, <2>2, SenderTypedStep DEF StreamsTyped
<1>2. CASE ReceiverSteps
      BY <1>0, <1>2, ReceiverKeepsSender, SenderTypedStep, TablesTypedStep, FlagsTypedStep,
         CountsTypedStep, PutsTypedStep
      DEF StreamsTyped, ReceiverTyped
<1>3. CASE UNCHANGED streamVars
      BY <1>0, <1>3 DEF StreamsTyped, SenderTyped, Total, TablesTyped, ReceiverTyped, FlagsTyped,
                        CountsTyped, PutsAreSeqs, streamVars,
                        senderVars, receiverVars, filed, streamHistory
<1> QED BY <1>1, <1>2, <1>3, StepsAre

\* The types hold at first.
LEMMA StreamsTypedInit == StreamInit => StreamsTyped
<1> SUFFICES ASSUME StreamInit PROVE StreamsTyped
    OBVIOUS
<1>1. SenderTyped
      BY DEF StreamInit, SenderTyped, Progress
<1>2. TablesTyped
      BY DEF StreamInit, TablesTyped
<1>3. FlagsTyped
      BY DEF StreamInit, FlagsTyped
<1>4. CountsTyped
  <2>1. OutCap \in Nat
        BY ReassemblyAssumption
  <2> QED BY <2>1 DEF StreamInit, CountsTyped
<1>5. PutsAreSeqs
  <2>1. << >> \in Seq({})
        OBVIOUS
  <2>2. IsSeq(<< >>)
        BY <2>1 DEF IsSeq
  <2> QED BY <2>2 DEF StreamInit, PutsAreSeqs
<1> QED BY <1>1, <1>2, <1>3, <1>4, <1>5 DEF StreamsTyped, ReceiverTyped

\* The sender and the receiver keep their types (Reassembly.StreamTypeOK): what
\* travels are pieces, and Out is never fuller than its capacity.
THEOREM StreamsAreTyped == StreamSpec => []StreamTypeOK
<1>1. StreamsTyped => StreamTypeOK
      BY DEF StreamsTyped, SenderTyped, TablesTyped, ReceiverTyped, FlagsTyped, CountsTyped,
             StreamTypeOK, Progress
<1> QED BY <1>1, StreamsTypedInit, StreamsTypedStep, PTL DEF StreamSpec

-----------------------------------------------------------------------------
(***************************************************************************)
(* What comes out is whole.  The chunks that are filed under a number are  *)
(* some of those its message was cut into, if no other message has the     *)
(* number; as many as the header says are then all of them.                *)
(***************************************************************************)
OwnNumbers == \A m, k \in Messages : StreamID[m] = StreamID[k] => m = k

Numbers(m) == 0 .. Total(m) - 1

\* p is a piece of m.
PieceOf(p, m) ==
    /\ p.id = StreamID[m]
    /\ \/ p.kind = "plain"
       \/ p.kind = "header" /\ sending[m].s > 0 /\ p.num = Total(m)
       \/ /\ p.kind = "chunk" /\ sending[m].s > 0
          /\ p.num \in Numbers(m) /\ p.data = Data(m, sending[m].s, p.num)

PiecesInv == \A p \in net : \E m \in Messages : PieceOf(p, m)

HeaderOf(id, m) == StreamID[m] = id /\ sending[m].s > 0 /\ streams[id] = Total(m)

ChunkOf(id, i, m) ==
    /\ StreamID[m] = id /\ sending[m].s > 0
    /\ i \in Numbers(m) /\ chunks[id][i] = Data(m, sending[m].s, i)

FiledInv ==
    \A id \in IDs :
        /\ streams[id] # NoHeader => \E m \in Messages : HeaderOf(id, m)
        /\ \A i \in DOMAIN chunks[id] : \E m \in Messages : ChunkOf(id, i, m)

WholeInv ==
    /\ StreamsTyped /\ PiecesInv /\ FiledInv
    /\ WholeMessages /\ CountsAreRight

\* A stream that is complete has all its chunks, and they make up its message.
LEMMA CompleteIsWhole ==
    ASSUME OwnNumbers, WholeInv, NEW id \in IDs, Complete(id)
    PROVE  /\ ~Missing(id)
           /\ \E m \in Messages : StreamID[m] = id /\ Assembled(id) = Content(m)
<1>1. PICK m \in Messages : HeaderOf(id, m)
      BY DEF WholeInv, FiledInv, Complete
<1> DEFINE s == sending[m].s
           t == Total(m)
           D == DOMAIN chunks[id]
<1>2. s \in Nat /\ s > 0 /\ StreamID[m] = id /\ streams[id] = t
      BY <1>1 DEF HeaderOf, WholeInv, StreamsTyped, SenderTyped, Progress
<1>3. t \in Nat /\ t > 0
      BY <1>2, SomeChunks DEF Total
<1>4. \A i \in D : i \in 0 .. t - 1 /\ chunks[id][i] = Data(m, s, i)
      BY <1>2 DEF WholeInv, FiledInv, ChunkOf, OwnNumbers, Numbers
<1>5. Cardinality(D) = t
      BY <1>2 DEF Complete
<1> HIDE DEF D, t
<1>6. D = 0 .. t - 1
  <2>1. IsFiniteSet(0 .. t - 1) /\ Cardinality(0 .. t - 1) = t
    <3>1. 0 \in Int /\ t - 1 \in Int /\ ~(0 > t - 1) /\ (t - 1) - 0 + 1 = t
          BY <1>3
    <3> QED BY <3>1, FS_Interval
  <2>2. D \in SUBSET (0 .. t - 1)
        BY <1>4
  <2> QED BY <1>5, <2>1, <2>2, FS_Subset
<1>7. ~Missing(id)
      BY <1>2, <1>6 DEF Missing, D
<1>8. Joined(chunks[id]) = Content(m)
  <2> DEFINE cs == chunks[id]
  <2>1. DOMAIN cs = 0 .. TotalChunks(Size[m], s) - 1 /\ \A i \in DOMAIN cs : cs[i] = Data(m, s, i)
        BY <1>4, <1>6 DEF D, t, Total
  <2> HIDE DEF cs, s
  <2>2. Joined(cs) = Content(m)
        BY <1>2, <2>1, ChunksJoin
  <2> QED BY <2>2 DEF cs
<1> QED BY <1>2, <1>7, <1>8 DEF Assembled

\* The size of a stream's chunks does not change any more.
SizesKept ==
    \A m \in Messages : sending[m].s > 0 => sending'[m].s = sending[m].s

\* Then its pieces stay its pieces.
LEMMA KeepsPieces ==
    ASSUME SizesKept, NEW m \in Messages
    PROVE  /\ \A p : PieceOf(p, m) => PieceOf(p, m)'
           /\ sending[m].s > 0 => sending'[m].s > 0 /\ Total(m)' = Total(m)
BY DEF SizesKept, PieceOf, Total, Numbers

\* The sender keeps them, and sends such pieces only.
LEMMA SenderPieces ==
    ASSUME SenderTyped, PiecesInv,
           \/ \E l \in Limits : SetByteLimit(l)
           \/ \E m \in Messages : SendMsg(m) \/ SendPiece(m)
    PROVE  SizesKept /\ PiecesInv'
<1>1. CASE \E l \in Limits : SetByteLimit(l)
      BY <1>1 DEF SetByteLimit, SizesKept, PiecesInv, PieceOf, Total, Numbers
<1>2. ASSUME NEW m \in Messages, SendMsg(m) \/ SendPiece(m)
      PROVE  SizesKept /\ PiecesInv'
  <2>1. Sends(m)
        BY <1>2, SenderSteps DEF SenderTyped
  <2>2. /\ sending' \in [Messages -> Progress]
        /\ \A k \in Messages : k # m => sending'[k] = sending[k]
        /\ sending'[m].s = sending[m].s \/ (sending[m].at = "new" /\ net' = net)
        /\ \A p \in net' : \/ p \in net \/ p = Plain(m)
                           \/ p = NextPiece(m) /\ sending[m].at = "stream"
        BY <2>1, SendsChange, SendsPieces
  <2>3. SizesKept
    <3>1. sending[m].at = "new" => sending[m].s = 0
          BY DEF SenderTyped
    <3> QED BY <2>2, <3>1 DEF SizesKept
  <2>4. ASSUME NEW p \in net'
        PROVE  \E k \in Messages : PieceOf(p, k)'
    <3>1. CASE p \in net
          BY <2>3, <3>1, KeepsPieces DEF PiecesInv
    <3>2. CASE p = Plain(m)
          BY <3>2 DEF Plain, PieceOf
    <3>3. CASE p = NextPiece(m) /\ sending[m].at = "stream"
      <4>1. /\ sending[m].s \in Nat /\ sending[m].s > 0 /\ sending[m].next \in Nat
            /\ sending[m].next <= Total(m)
            BY <3>3 DEF SenderTyped, Progress
      <4>2. Total(m) \in Nat
            BY <4>1, SomeChunks DEF Total
      <4>3. CASE sending[m].next = 0
        <5>1. PieceOf(p, m)
              BY <3>3, <4>1, <4>3 DEF NextPiece, Header, PieceOf, Total
        <5> QED BY <2>3, <5>1, KeepsPieces
      <4>4. CASE sending[m].next # 0
        <5> DEFINE i == sending[m].next - 1
        <5>1. i \in Numbers(m)
              BY <4>1, <4>2, <4>4 DEF Numbers
        <5>2. p = Chunk(m, sending[m].s, i)
              BY <3>3, <4>4 DEF NextPiece
        <5> HIDE DEF i
        <5>3. PieceOf(p, m)
              BY <4>1, <5>1, <5>2 DEF Chunk, PieceOf
        <5> QED BY <2>3, <5>3, KeepsPieces
      <4> QED BY <4>3, <4>4
    <3> QED BY <2>2, <2>4, <3>1, <3>2, <3>3
  <2> QED BY <2>3, <2>4 DEF PiecesInv
<1> QED BY <1>1, <1>2

\* What is filed stays a part of its message when the sender goes on.
LEMMA KeepsFiled ==
    ASSUME FiledInv, SizesKept, UNCHANGED <<streams, chunks>>
    PROVE  FiledInv'
<1>1. ASSUME NEW id \in IDs, NEW m \in Messages, HeaderOf(id, m)
      PROVE  HeaderOf(id, m)'
  <2>1. sending'[m].s > 0 /\ Total(m)' = Total(m)
        BY <1>1, KeepsPieces DEF HeaderOf
  <2> QED BY <1>1, <2>1 DEF HeaderOf
<1>2. ASSUME NEW id \in IDs, NEW i \in DOMAIN chunks[id], NEW m \in Messages, ChunkOf(id, i, m)
      PROVE  ChunkOf(id, i, m)'
  <2>1. sending'[m].s = sending[m].s /\ Total(m)' = Total(m)
        BY <1>2, KeepsPieces DEF ChunkOf, SizesKept
  <2> QED BY <1>2, <2>1 DEF ChunkOf, Numbers
<1>3. ASSUME NEW id \in IDs, streams'[id] # NoHeader
      PROVE  \E m \in Messages : HeaderOf(id, m)'
  <2>1. PICK m \in Messages : HeaderOf(id, m)
        BY <1>3 DEF FiledInv
  <2> QED BY <1>1, <2>1
<1>4. ASSUME NEW id \in IDs, NEW i \in DOMAIN chunks'[id]
      PROVE  \E m \in Messages : ChunkOf(id, i, m)'
  <2>1. i \in DOMAIN chunks[id]
        BY <1>4
  <2>2. PICK m \in Messages : ChunkOf(id, i, m)
        BY <2>1 DEF FiledInv
  <2> QED BY <1>2, <2>1, <2>2
<1> QED BY <1>3, <1>4 DEF FiledInv

\* Some streams lose their header or their chunks, and nothing else changes.
Cleared ==
    /\ UNCHANGED sending
    /\ \A id \in IDs : streams'[id] \in {streams[id], NoHeader}
    /\ \A id \in IDs : chunks'[id] \in {chunks[id], << >>}

\* A stream that is cleared, or a table that lost rows, has parts of its message.
LEMMA ClearingKeepsFiled ==
    ASSUME FiledInv, Cleared
    PROVE  FiledInv'
<1>0. /\ UNCHANGED sending
      /\ \A id \in IDs : streams'[id] \in {streams[id], NoHeader}
      /\ \A id \in IDs : chunks'[id] \in {chunks[id], << >>}
      BY DEF Cleared
<1>1. ASSUME NEW id \in IDs, streams'[id] # NoHeader
      PROVE  \E m \in Messages : HeaderOf(id, m)'
  <2>1. streams'[id] = streams[id]
        BY <1>0, <1>1
  <2>2. PICK m \in Messages : HeaderOf(id, m)
        BY <1>1, <2>1 DEF FiledInv
  <2> QED BY <1>0, <2>1, <2>2 DEF HeaderOf, Total
<1>2. ASSUME NEW id \in IDs, NEW i \in DOMAIN chunks'[id]
      PROVE  \E m \in Messages : ChunkOf(id, i, m)'
  <2>0. DOMAIN << >> = {}
        OBVIOUS
  <2>1. chunks'[id] = chunks[id]
        BY <1>0, <1>2, <2>0
  <2>2. PICK m \in Messages : ChunkOf(id, i, m)
        BY <1>2, <2>1 DEF FiledInv
  <2> QED BY <1>0, <2>1, <2>2 DEF ChunkOf, Total, Numbers
<1> QED BY <1>1, <1>2 DEF FiledInv

\* The receiver files parts of messages.
LEMMA ReceiverFiles ==
    ASSUME StreamsTyped, PiecesInv, FiledInv, ReceiverSteps
    PROVE  PiecesInv' /\ FiledInv'
<1> USE DEF senderVars, receiverVars, streamHistory, filed
<1>0. net' \subseteq net /\ UNCHANGED sending /\ SizesKept
      BY ReceiverKeepsSender DEF SizesKept
<1>1. PiecesInv'
      BY <1>0, KeepsPieces DEF PiecesInv
<1>2. ASSUME UNCHANGED <<streams, chunks>> PROVE FiledInv'
      BY <1>0, <1>2, KeepsFiled
<1>3. ASSUME NEW p \in net, AddStream(p) PROVE FiledInv'
  <2>1. /\ p.kind = "header" /\ UNCHANGED chunks /\ p.id \in IDs
        /\ streams' = [streams EXCEPT ![p.id] = p.num]
        BY <1>3 DEF AddStream, StreamsTyped, SenderTyped, Pieces
  <2>2. \A id \in IDs : streams'[id] = IF id = p.id THEN p.num ELSE streams[id]
        BY <2>1 DEF StreamsTyped, TablesTyped
  <2>3. PICK m \in Messages : p.id = StreamID[m] /\ sending[m].s > 0 /\ p.num = Total(m)
        BY <2>1 DEF PiecesInv, PieceOf
  <2>4. ASSUME NEW id \in IDs, streams'[id] # NoHeader
        PROVE  \E k \in Messages : HeaderOf(id, k)'
    <3>1. CASE id = p.id
      <4>1. HeaderOf(id, m)'
            BY <1>0, <2>2, <2>3, <3>1 DEF HeaderOf, Total
      <4> QED BY <4>1
    <3>2. CASE id # p.id
      <4>1. streams'[id] = streams[id]
            BY <2>2, <3>2
      <4>2. PICK k \in Messages : HeaderOf(id, k)
            BY <2>4, <4>1 DEF FiledInv
      <4> QED BY <1>0, <4>1, <4>2 DEF HeaderOf, Total
    <3> QED BY <3>1, <3>2
  <2>5. ASSUME NEW id \in IDs, NEW i \in DOMAIN chunks'[id]
        PROVE  \E k \in Messages : ChunkOf(id, i, k)'
    <3>1. PICK k \in Messages : ChunkOf(id, i, k)
          BY <2>1, <2>5 DEF FiledInv
    <3> QED BY <1>0, <2>1, <3>1 DEF ChunkOf, Total, Numbers
  <2> QED BY <2>4, <2>5 DEF FiledInv
<1>4. ASSUME NEW p \in net, AddChunk(p) PROVE FiledInv'
  <2>1. /\ p.kind = "chunk" /\ UNCHANGED streams /\ p \in Pieces
        /\ chunks' = [chunks EXCEPT ![p.id] =
                       [i \in DOMAIN @ \cup {p.num} |-> IF i = p.num THEN p.data ELSE @[i]]]
        BY <1>4 DEF AddChunk, StreamsTyped, SenderTyped
  <2>2. /\ \A id \in IDs : id # p.id => chunks'[id] = chunks[id]
        /\ DOMAIN chunks'[p.id] = DOMAIN chunks[p.id] \cup {p.num}
        /\ \A i \in DOMAIN chunks'[p.id] :
             chunks'[p.id][i] = IF i = p.num THEN p.data ELSE chunks[p.id][i]
        BY <2>1, FilesChunk DEF StreamsTyped
  <2>3. PICK m \in Messages : /\ p.id = StreamID[m] /\ sending[m].s > 0
                          /\ p.num \in Numbers(m) /\ p.data = Data(m, sending[m].s, p.num)
        BY <2>1 DEF PiecesInv, PieceOf
  <2>4. ASSUME NEW id \in IDs, streams'[id] # NoHeader
        PROVE  \E k \in Messages : HeaderOf(id, k)'
    <3>1. PICK k \in Messages : HeaderOf(id, k)
          BY <2>1, <2>4 DEF FiledInv
    <3> QED BY <1>0, <2>1, <3>1 DEF HeaderOf, Total
  <2>5. ASSUME NEW id \in IDs, NEW i \in DOMAIN chunks'[id]
        PROVE  \E k \in Messages : ChunkOf(id, i, k)'
    <3>1. CASE id = p.id /\ i = p.num
      <4>1. chunks'[id][i] = p.data
            BY <2>2, <2>5, <3>1
      <4>2. ChunkOf(id, i, m)'
            BY <1>0, <2>3, <3>1, <4>1 DEF ChunkOf, Total, Numbers
      <4> QED BY <4>2
    <3>2. CASE ~(id = p.id /\ i = p.num)
      <4>1. i \in DOMAIN chunks[id] /\ chunks'[id][i] = chunks[id][i]
            BY <2>2, <2>5, <3>2
      <4>2. PICK k \in Messages : ChunkOf(id, i, k)
            BY <4>1 DEF FiledInv
      <4> QED BY <1>0, <4>1, <4>2 DEF ChunkOf, Total, Numbers
    <3> QED BY <3>1, <3>2
  <2> QED BY <2>4, <2>5 DEF FiledInv
<1>5. ASSUME Callback PROVE FiledInv'
  <2>1. ASSUME NEW S \in SUBSET Completed, PutOut(S) PROVE FiledInv'
    <3>1. Cleared
          BY <1>0, <2>1 DEF PutOut, Cleared
    <3> QED BY <3>1, ClearingKeepsFiled
  <2>2. ASSUME UNCHANGED filed PROVE FiledInv'
    <3>1. UNCHANGED <<streams, chunks>>
          BY <2>2
    <3> QED BY <1>2, <3>1
  <2> QED BY <1>5, <2>1, <2>2 DEF Callback
<1>6. ASSUME Crash PROVE FiledInv'
  <2>1. CASE /\ streams' = [id \in IDs |-> NoHeader]
             /\ chunks' = [id \in IDs |-> << >>]
    <3>1. Cleared
          BY <1>0, <2>1 DEF Cleared
    <3> QED BY <3>1, ClearingKeepsFiled
  <2>2. CASE UNCHANGED filed
    <3>1. UNCHANGED <<streams, chunks>>
          BY <2>2
    <3> QED BY <1>2, <3>1
  <2> QED BY <1>6, <2>1, <2>2 DEF Crash
<1>7. ASSUME CrashInCallback PROVE FiledInv'
  <2>1. UNCHANGED streams
        BY <1>7 DEF CrashInCallback
  <2>2. PICK id \in Completed : chunks' \in {chunks, [chunks EXCEPT ![id] = << >>]}
        BY <1>7 DEF CrashInCallback
  <2>3. \A k \in IDs : chunks'[k] \in {chunks[k], << >>}
    <3>1. DOMAIN chunks = IDs
          BY DEF StreamsTyped, TablesTyped
    <3> QED BY <2>2, <3>1
  <2>4. Cleared
        BY <1>0, <2>1, <2>3 DEF Cleared
  <2> QED BY <2>4, ClearingKeepsFiled
<1>8. ASSUME EndHandle \/ ReadOut \/ Start \/ Stop PROVE FiledInv'
  <2>1. UNCHANGED <<streams, chunks>>
        BY <1>8 DEF EndHandle, ReadOut, Start, Stop
  <2> QED BY <1>2, <2>1
<1>9. ASSUME NEW p \in net, HandlePlain(p) PROVE FiledInv'
      BY <1>2, <1>9 DEF HandlePlain
<1> QED BY <1>1, <1>3, <1>4, <1>5, <1>6, <1>7, <1>8, <1>9 DEF ReceiverSteps, Handle

\* What is put on Out is whole.
LEMMA PutsWhole ==
    ASSUME OwnNumbers, WholeInv, NEW S \in SUBSET Completed, Puts(S)
    PROVE  WholeMessages'
<1>1. \A id \in IDs : puts'[id] = IF id \in S THEN Append(puts[id], Assembled(id)) ELSE puts[id]
      BY DEF Puts
<1> SUFFICES ASSUME NEW id \in IDs, NEW i \in DOMAIN puts'[id]
             PROVE  \E m \in Messages : StreamID[m] = id /\ puts'[id][i] = Content(m)
    BY DEF WholeMessages
<1>2. CASE id \notin S
      BY <1>1, <1>2 DEF WholeInv, WholeMessages
<1>3. CASE id \in S
  <2> DEFINE q == puts[id]
             x == Assembled(id)
  <2>1. puts'[id] = Append(q, x)
        BY <1>1, <1>3
  <2>2. IsSeq(q)
        BY DEF WholeInv, StreamsTyped, ReceiverTyped, PutsAreSeqs
  <2>3. \E m \in Messages : StreamID[m] = id /\ x = Content(m)
        BY <1>3, CompleteIsWhole DEF Completed
  <2>4. \A j \in DOMAIN q : \E m \in Messages : StreamID[m] = id /\ q[j] = Content(m)
        BY DEF WholeInv, WholeMessages
  <2> HIDE DEF q, x
  <2>5. /\ Len(q) \in Nat /\ DOMAIN q = 1 .. Len(q) /\ i \in 1 .. Len(q) + 1
        /\ \A j \in 1 .. Len(q) : Append(q, x)[j] = q[j]
        /\ Append(q, x)[Len(q) + 1] = x
        BY <2>1, <2>2, SeqGrows
  <2>6. CASE i \in 1 .. Len(q)
        BY <2>1, <2>4, <2>5, <2>6
  <2>7. CASE i = Len(q) + 1
        BY <2>1, <2>3, <2>5, <2>7
  <2>8. i \in 1 .. Len(q) \/ i = Len(q) + 1
        BY <2>5
  <2> QED BY <2>6, <2>7, <2>8
<1> QED BY <1>2, <1>3

\* Every step keeps the invariant.
LEMMA WholeStep == OwnNumbers /\ WholeInv /\ [StreamNext]_streamVars => WholeInv'
<1> SUFFICES ASSUME OwnNumbers, WholeInv, [StreamNext]_streamVars PROVE WholeInv'
    OBVIOUS
<1> USE DEF senderVars, receiverVars, streamHistory
<1>0. /\ StreamsTyped /\ SenderTyped /\ PiecesInv /\ FiledInv /\ WholeMessages /\ CountsAreRight
      /\ StreamsTyped'
      BY StreamsTypedStep DEF WholeInv, StreamsTyped
<1>1. CASE \/ \E l \in Limits : SetByteLimit(l)
           \/ \E m \in Messages : SendMsg(m) \/ SendPiece(m)
  <2>1. SizesKept /\ PiecesInv'
        BY <1>0, <1>1, SenderPieces
  <2>2. UNCHANGED <<streams, chunks, puts, receiverPanic>>
        BY <1>0, <1>1, SenderKeepsReceiver DEF SenderTyped, filed
  <2>3. FiledInv'
        BY <1>0, <2>1, <2>2, KeepsFiled
  <2>4. WholeMessages' /\ CountsAreRight'
        BY <1>0, <2>2 DEF WholeMessages, CountsAreRight
  <2> QED BY <1>0, <2>1, <2>3, <2>4 DEF WholeInv
<1>2. CASE ReceiverSteps
  <2>1. PiecesInv' /\ FiledInv'
        BY <1>0, <1>2, ReceiverFiles
  <2>2. ASSUME NEW p \in net, Handle(p) PROVE UNCHANGED puts /\ CountsAreRight'
    <3>1. CASE HandlePlain(p)
          BY <1>0, <3>1 DEF HandlePlain, CountsAreRight
    <3>2. CASE AddStream(p)
          BY <1>0, <3>2 DEF AddStream, FileTrigger, Trigger, CountsAreRight
    <3>3. CASE AddChunk(p)
          BY <1>0, <3>3 DEF AddChunk, FileTrigger, Trigger, CountsAreRight
    <3> QED BY <2>2, <3>1, <3>2, <3>3 DEF Handle
  <2>3. ASSUME EndHandle \/ ReadOut \/ Crash \/ Start \/ Stop
        PROVE  UNCHANGED puts /\ CountsAreRight'
        BY <1>0, <2>3 DEF EndHandle, Trigger, ReadOut, Crash, Dies, Start, Stop, CountsAreRight
  <2>4. ASSUME UNCHANGED puts PROVE WholeMessages'
        BY <1>0, <2>4 DEF WholeMessages
  <2>5. CASE Callback
    <3>1. \A id \in Completed : ~Missing(id)
          BY CompleteIsWhole DEF Completed
    <3>2. CountsAreRight'
          BY <1>0, <2>5, <3>1 DEF Callback, CountsAreRight
    <3>3. ASSUME NEW S \in SUBSET Completed, PutOut(S) PROVE WholeMessages'
          BY <3>3, PutsWhole DEF PutOut
    <3> QED BY <2>1, <2>4, <2>5, <3>2, <3>3, <1>0 DEF Callback, WholeInv
  <2>6. CASE CrashInCallback
    <3>1. PICK id \in Completed : Puts({id})
          BY <2>6 DEF CrashInCallback
    <3>2. WholeMessages'
      <4>1. {id} \in SUBSET Completed
            OBVIOUS
      <4> QED BY <3>1, <4>1, PutsWhole
    <3>3. CountsAreRight'
          BY <1>0, <2>6 DEF CrashInCallback, Dies, CountsAreRight
    <3> QED BY <1>0, <2>1, <3>2, <3>3 DEF WholeInv
  <2> QED BY <1>0, <1>2, <2>1, <2>2, <2>3, <2>4, <2>5, <2>6 DEF ReceiverSteps, WholeInv
<1>3. CASE UNCHANGED streamVars
      BY <1>0, <1>3 DEF WholeInv, PiecesInv, FiledInv, PieceOf, HeaderOf, ChunkOf, Total, Numbers,
                        WholeMessages, CountsAreRight, streamVars, filed
<1> QED BY <1>1, <1>2, <1>3, StepsAre

\* The invariant holds at first.
LEMMA WholeInit == StreamInit => WholeInv
<1> SUFFICES ASSUME StreamInit PROVE WholeInv
    OBVIOUS
<1>1. DOMAIN << >> = {}
      OBVIOUS
<1>2. FiledInv /\ WholeMessages
      BY <1>1 DEF StreamInit, FiledInv, WholeMessages
<1> QED BY <1>2, StreamsTypedInit DEF StreamInit, WholeInv, PiecesInv, CountsAreRight

\* What the callback puts on Out is a message that was sent, whole and in order
\* (Reassembly.WholeMessages), if no two messages have the same stream number;
\* whatever the sizes, the limits, their changes, the order of arrival, the
\* losses, the starts and the crashes.
THEOREM StreamsAreWhole ==
    ASSUME OwnNumbers
    PROVE  StreamSpec => []WholeMessages
<1>1. WholeInv => WholeMessages
      BY DEF WholeInv
<1>2. WholeInv /\ [StreamNext]_streamVars => WholeInv'
      BY WholeStep
<1> QED BY <1>1, <1>2, WholeInit, PTL DEF StreamSpec

\* Nor is the callback ever short of a chunk when it has counted as many as the
\* header says (Reassembly.CountsAreRight): it does not panic with "Chunk count
\* miscalculated".
THEOREM ChunksAreCounted ==
    ASSUME OwnNumbers
    PROVE  StreamSpec => []CountsAreRight
<1>1. WholeInv => CountsAreRight
      BY DEF WholeInv
<1>2. WholeInv /\ [StreamNext]_streamVars => WholeInv'
      BY WholeStep
<1> QED BY <1>1, <1>2, WholeInit, PTL DEF StreamSpec

-----------------------------------------------------------------------------
(***************************************************************************)
(* Once per stream.  Each message has one header: its sender has yet to    *)
(* send it, or it travels, or it is filed, or the stream was put on Out,   *)
(* or it was lost.  Only a crash between the two lets the callback put a   *)
(* stream on Out whose header stays filed.                                 *)
(***************************************************************************)
Senders(id) == {m \in Messages : StreamID[m] = id}

HeadersAhead(id) ==
    {m \in Senders(id) : sending[m].at \in {"new", "stream"} /\ sending[m].next = 0}

HeadersSent(id) == {p \in net : p.kind = "header" /\ p.id = id}

Filing(id) == IF streams[id] = NoHeader THEN 0 ELSE 1

\* What was put on Out, and what still may be.
Due(id) == Len(puts[id]) + Filing(id)

Travelling(id) == Cardinality(HeadersAhead(id)) + Cardinality(HeadersSent(id))

OnceInv ==
    /\ StreamsTyped
    /\ \A id \in IDs :
         /\ IsFiniteSet(HeadersSent(id))
         /\ Due(id) + Travelling(id) <= Cardinality(Senders(id)) + crashes

\* The counts are natural numbers.
LEMMA DueCounts ==
    ASSUME TablesTyped, ReceiverTyped, NEW id \in IDs
    PROVE  /\ Len(puts[id]) \in Nat /\ Filing(id) \in {0, 1} /\ Due(id) \in Nat
           /\ IsSeq(puts[id]) /\ crashes \in Nat
<1>1. IsSeq(puts[id]) /\ crashes \in Nat
      BY DEF ReceiverTyped, PutsAreSeqs, CountsTyped
<1>2. Len(puts[id]) \in Nat
      BY <1>1, SeqGrows
<1>3. Filing(id) \in {0, 1}
      BY DEF Filing
<1>4. Due(id) \in Nat
      BY <1>2, <1>3 DEF Due
<1> QED BY <1>1, <1>2, <1>3, <1>4

\* So are those of the headers.
LEMMA HeaderCounts ==
    ASSUME NEW id
    PROVE  /\ IsFiniteSet(Senders(id)) /\ IsFiniteSet(HeadersAhead(id))
           /\ Cardinality(Senders(id)) \in Nat /\ Cardinality(HeadersAhead(id)) \in Nat
           /\ IsFiniteSet(HeadersSent(id)) => Cardinality(HeadersSent(id)) \in Nat
<1>1. Senders(id) \in SUBSET Messages /\ HeadersAhead(id) \in SUBSET Messages
      /\ IsFiniteSet(Messages)
      BY ReassemblyAssumption DEF Senders, HeadersAhead
<1> QED BY <1>1, FS_Subset, FS_CardinalityType

\* A set that loses elements, and one that gains at most one.
LEMMA Fewer ==
    ASSUME NEW S, NEW T, IsFiniteSet(S), T \subseteq S
    PROVE  IsFiniteSet(T) /\ Cardinality(T) <= Cardinality(S)
BY FS_Subset

\* A set gains at most one element.
LEMMA OneMore ==
    ASSUME NEW S, NEW T, NEW x, IsFiniteSet(S), T \subseteq S \cup {x}
    PROVE  IsFiniteSet(T) /\ Cardinality(T) <= Cardinality(S) + 1
<1>1. IsFiniteSet(S \cup {x}) /\ Cardinality(S \cup {x}) <= Cardinality(S) + 1
  <2>1. Cardinality(S) \in Nat
        BY FS_CardinalityType
  <2>2. /\ IsFiniteSet(S \cup {x})
        /\ Cardinality(S \cup {x}) = IF x \in S THEN Cardinality(S) ELSE Cardinality(S) + 1
        BY FS_AddElement
  <2> QED BY <2>1, <2>2
<1>2. IsFiniteSet(T) /\ Cardinality(T) <= Cardinality(S \cup {x})
      BY <1>1, Fewer
<1>3. Cardinality(S) \in Nat /\ Cardinality(T) \in Nat /\ Cardinality(S \cup {x}) \in Nat
      BY <1>1, <1>2, FS_CardinalityType
<1> QED BY <1>1, <1>2, <1>3

\* A set loses one element.
LEMMA OneLess ==
    ASSUME NEW S, NEW T, NEW x \in S, IsFiniteSet(S), T \subseteq S \ {x}
    PROVE  IsFiniteSet(T) /\ Cardinality(T) + 1 <= Cardinality(S)
<1>1. IsFiniteSet(S \ {x}) /\ Cardinality(S \ {x}) = Cardinality(S) - 1
      BY FS_RemoveElement
<1>2. IsFiniteSet(T) /\ Cardinality(T) <= Cardinality(S \ {x})
      BY <1>1, Fewer
<1>3. Cardinality(S) \in Nat /\ Cardinality(T) \in Nat
      BY <1>2, FS_CardinalityType
<1> QED BY <1>1, <1>2, <1>3

\* The only header that SendMsg and SendPiece can send is the first piece of a stream.
LEMMA SendsHeader ==
    ASSUME SenderTyped, NEW m \in Messages, Sends(m)
    PROVE  \/ \A p \in net' : p.kind = "header" => p \in net
           \/ /\ sending[m].at = "stream" /\ sending[m].next = 0 /\ sending'[m].next = 1
              /\ net' = net \cup {Header(m, sending[m].s)}
<1>0. sending \in [Messages -> Progress] /\ sending[m] \in Progress
      BY DEF SenderTyped
<1>1. CASE net' = net
      BY <1>1
<1>2. CASE net' = net \cup {Plain(m)}
      BY <1>2 DEF Plain
<1>3. CASE /\ net' = net \cup {NextPiece(m)} /\ sending[m].at = "stream"
           /\ sending' = [sending EXCEPT
                ![m].next = @ + 1,
                ![m].at = IF sending[m].next = Total(m) THEN "done" ELSE "stream"]
  <2>1. CASE sending[m].next = 0
    <3>1. sending'[m].next = 1
          BY <1>0, <1>3, <2>1 DEF Progress
    <3>2. NextPiece(m) = Header(m, sending[m].s)
          BY <2>1 DEF NextPiece
    <3> QED BY <1>3, <2>1, <3>1, <3>2
  <2>2. CASE sending[m].next # 0
    <3>1. NextPiece(m).kind = "chunk"
          BY <2>2 DEF NextPiece, Chunk
    <3> QED BY <1>3, <3>1
  <2> QED BY <2>1, <2>2
<1> QED BY <1>1, <1>2, <1>3 DEF Sends

\* The sender makes no headers but those it had ahead.
LEMMA SenderTravels ==
    ASSUME SenderTyped, NEW id, IsFiniteSet(HeadersSent(id)),
           \/ \E l \in Limits : SetByteLimit(l)
           \/ \E m \in Messages : SendMsg(m) \/ SendPiece(m)
    PROVE  IsFiniteSet(HeadersSent(id)') /\ Travelling(id)' <= Travelling(id)
<1> DEFINE A == HeadersAhead(id)
           B == HeadersSent(id)
           A2 == HeadersAhead(id)'
           B2 == HeadersSent(id)'
<1>1. Travelling(id) = Cardinality(A) + Cardinality(B)
      /\ Travelling(id)' = Cardinality(A2) + Cardinality(B2)
      BY DEF Travelling
<1>2. IsFiniteSet(A) /\ IsFiniteSet(B) /\ Cardinality(A) \in Nat /\ Cardinality(B) \in Nat
      BY HeaderCounts
<1>3. ASSUME A2 \subseteq A, B2 \subseteq B
      PROVE  IsFiniteSet(B2) /\ Travelling(id)' <= Travelling(id)
  <2> HIDE DEF A, B, A2, B2
  <2>1. IsFiniteSet(A2) /\ Cardinality(A2) <= Cardinality(A)
        /\ IsFiniteSet(B2) /\ Cardinality(B2) <= Cardinality(B)
        BY <1>2, <1>3, Fewer
  <2>2. Cardinality(A2) \in Nat /\ Cardinality(B2) \in Nat
        BY <2>1, FS_CardinalityType
  <2> QED BY <1>1, <1>2, <2>1, <2>2
<1>4. CASE \E l \in Limits : SetByteLimit(l)
  <2>1. UNCHANGED <<sending, net>>
        BY <1>4 DEF SetByteLimit
  <2>2. A2 \subseteq A /\ B2 \subseteq B
        BY <2>1 DEF HeadersAhead, HeadersSent, Senders
  <2> QED BY <1>3, <2>2
<1>5. ASSUME NEW m \in Messages, SendMsg(m) \/ SendPiece(m)
      PROVE  IsFiniteSet(B2) /\ Travelling(id)' <= Travelling(id)
  <2>1. Sends(m)
        BY <1>5, SenderSteps DEF SenderTyped
  <2>2. /\ \A k \in Messages : k # m => sending'[k] = sending[k]
        /\ sending'[m].at = "new" => sending'[m] = sending[m]
        /\ sending'[m].at = "stream" =>
             \/ sending'[m] = sending[m]
             \/ sending'[m].s > 0 /\ sending'[m].next = 0 /\ sending[m].at = "new"
             \/ /\ sending[m].at = "stream" /\ sending[m].next # Total(m)
                /\ sending'[m].s = sending[m].s
                /\ sending'[m].next = sending[m].next + 1
        BY <2>1, SendsChange
  <2>3. A2 \subseteq A
    <3>1. ASSUME NEW k \in A2 PROVE k \in A
      <4>1. /\ k \in Messages /\ k \in Senders(id)
            /\ sending'[k].at \in {"new", "stream"} /\ sending'[k].next = 0
            BY DEF HeadersAhead, Senders
      <4>2. sending[m].next \in Nat
            BY DEF SenderTyped, Progress
      <4>3. sending[k].at \in {"new", "stream"} /\ sending[k].next = 0
            BY <2>2, <4>1, <4>2 DEF SenderTyped
      <4> QED BY <4>1, <4>3 DEF HeadersAhead
    <3> QED BY <3>1
  <2>4. CASE \A p \in net' : p.kind = "header" => p \in net
    <3>1. B2 \subseteq B
          BY <2>4 DEF HeadersSent
    <3> QED BY <1>3, <2>3, <3>1
  <2>5. CASE /\ sending[m].at = "stream" /\ sending[m].next = 0 /\ sending'[m].next = 1
             /\ net' = net \cup {Header(m, sending[m].s)}
    <3> DEFINE h == Header(m, sending[m].s)
    <3>1. CASE StreamID[m] # id
      <4>1. B2 \subseteq B
            BY <2>5, <3>1 DEF HeadersSent, Header
      <4> QED BY <1>3, <2>3, <4>1
    <3>2. CASE StreamID[m] = id
      <4>1. m \in A /\ m \notin A2
            BY <2>5, <3>2 DEF HeadersAhead, Senders
      <4>2. B2 \subseteq B \cup {h}
            BY <2>5 DEF HeadersSent
      <4> HIDE DEF A, B, A2, B2, h
      <4>3. IsFiniteSet(A2) /\ Cardinality(A2) + 1 <= Cardinality(A)
        <5>1. A2 \subseteq A \ {m}
              BY <2>3, <4>1
        <5> QED BY <1>2, <4>1, <5>1, OneLess
      <4>4. IsFiniteSet(B2) /\ Cardinality(B2) <= Cardinality(B) + 1
            BY <1>2, <4>2, OneMore
      <4>5. Cardinality(A2) \in Nat /\ Cardinality(B2) \in Nat
            BY <4>3, <4>4, FS_CardinalityType
      <4> QED BY <1>1, <1>2, <4>3, <4>4, <4>5
    <3> QED BY <3>1, <3>2
  <2> QED BY <2>1, <2>4, <2>5, SendsHeader
<1> QED BY <1>4, <1>5

\* A header is received: it was on its way, and is filed.
LEMMA ReceiverTravels ==
    ASSUME NEW id, IsFiniteSet(HeadersSent(id)), ReceiverSteps
    PROVE  /\ IsFiniteSet(HeadersSent(id)') /\ Travelling(id)' <= Travelling(id)
           /\ \A p \in net : AddStream(p) /\ p.id = id => Travelling(id)' + 1 <= Travelling(id)
<1> DEFINE A == HeadersAhead(id)
           B == HeadersSent(id)
           B2 == HeadersSent(id)'
<1>0. net' \subseteq net /\ UNCHANGED sending
      BY ReceiverKeepsSender
<1>1. HeadersAhead(id)' = A /\ B2 \subseteq B
      BY <1>0 DEF HeadersAhead, HeadersSent, Senders
<1>2. Travelling(id) = Cardinality(A) + Cardinality(B)
      /\ Travelling(id)' = Cardinality(A) + Cardinality(B2)
      BY <1>1 DEF Travelling
<1>3. IsFiniteSet(B) /\ Cardinality(A) \in Nat /\ Cardinality(B) \in Nat
      BY HeaderCounts
<1>4. ASSUME NEW p \in net, AddStream(p), p.id = id PROVE p \in B /\ B2 \subseteq B \ {p}
      BY <1>1, <1>4 DEF AddStream, Arrives, HeadersSent
<1> HIDE DEF A, B, B2
<1>5. IsFiniteSet(B2) /\ Cardinality(B2) <= Cardinality(B)
      BY <1>1, <1>3, Fewer
<1>6. Cardinality(B2) \in Nat
      BY <1>5, FS_CardinalityType
<1>7. ASSUME NEW p \in net, AddStream(p), p.id = id
      PROVE  Travelling(id)' + 1 <= Travelling(id)
  <2>1. Cardinality(B2) + 1 <= Cardinality(B)
        BY <1>3, <1>4, <1>7, OneLess
  <2> QED BY <1>2, <1>3, <1>6, <2>1
<1> QED BY <1>2, <1>3, <1>5, <1>6, <1>7 DEF B2

\* What a step of the receiver does to what is due: only a crash puts a stream
\* on Out whose header stays.
LEMMA ReceiverDue ==
    ASSUME TablesTyped, ReceiverTyped, SenderTyped, ReceiverSteps, NEW id \in IDs
    PROVE  \/ Due(id)' <= Due(id) /\ crashes' \in {crashes, crashes + 1}
           \/ Due(id)' <= Due(id) + 1 /\ crashes' = crashes + 1
           \/ /\ Due(id)' <= Due(id) + 1 /\ crashes' = crashes
              /\ \E p \in net : AddStream(p) /\ p.id = id
<1> USE DEF senderVars, receiverVars, streamHistory, filed
<1>0. /\ Len(puts[id]) \in Nat /\ Filing(id) \in {0, 1} /\ Due(id) \in Nat
      /\ IsSeq(puts[id]) /\ crashes \in Nat
      BY DueCounts
<1>1. ASSUME UNCHANGED <<streams, puts>>
      PROVE  Due(id)' <= Due(id)
  <2>1. Due(id)' = Due(id)
        BY <1>1 DEF Due, Filing
  <2> QED BY <1>0, <2>1
<1>2. \A S \in SUBSET Completed : Puts(S) =>
        puts'[id] = IF id \in S THEN Append(puts[id], Assembled(id)) ELSE puts[id]
      BY DEF Puts
<1>3. Len(Append(puts[id], Assembled(id))) = Len(puts[id]) + 1
      BY <1>0, SeqGrows
<1>4. ASSUME NEW p \in net, AddStream(p)
      PROVE  /\ crashes' = crashes
             /\ Due(id)' <= Due(id) \/ (Due(id)' <= Due(id) + 1 /\ p.id = id)
  <2>1. /\ UNCHANGED <<puts, crashes>>
        /\ streams' = [streams EXCEPT ![p.id] = p.num]
        BY <1>4 DEF AddStream
  <2>2. p.id # id => streams'[id] = streams[id]
        BY <2>1 DEF TablesTyped
  <2>3. CASE p.id # id
    <3>1. Due(id)' = Due(id)
          BY <2>1, <2>2, <2>3 DEF Due, Filing
    <3> QED BY <1>0, <2>1, <3>1
  <2>4. CASE p.id = id
    <3>1. Filing(id)' \in {0, 1}
          BY DEF Filing
    <3>2. Due(id)' = Len(puts[id]) + Filing(id)' /\ Due(id) = Len(puts[id]) + Filing(id)
          BY <2>1 DEF Due
    <3>3. Due(id)' <= Due(id) + 1
          BY <1>0, <3>1, <3>2
    <3> QED BY <2>1, <2>4, <3>3
  <2> QED BY <2>3, <2>4
<1>5. ASSUME NEW p \in net, HandlePlain(p) \/ AddChunk(p)
      PROVE  Due(id)' <= Due(id) /\ crashes' = crashes
  <2>1. UNCHANGED <<streams, puts>> /\ crashes' = crashes
        BY <1>5 DEF HandlePlain, AddChunk
  <2> QED BY <1>1, <2>1
<1>6. ASSUME EndHandle \/ ReadOut \/ Start \/ Stop
      PROVE  Due(id)' <= Due(id) /\ crashes' = crashes
  <2>1. UNCHANGED <<streams, puts>> /\ crashes' = crashes
        BY <1>6 DEF EndHandle, ReadOut, Start, Stop
  <2> QED BY <1>1, <2>1
<1>7. ASSUME Callback
      PROVE  Due(id)' <= Due(id) /\ crashes' = crashes
  <2>1. crashes' = crashes
        BY <1>7 DEF Callback
  <2>2. ASSUME UNCHANGED filed, UNCHANGED puts PROVE Due(id)' <= Due(id)
        BY <1>1, <2>2
  <2>3. ASSUME NEW S \in SUBSET Completed, PutOut(S) PROVE Due(id)' <= Due(id)
    <3>1. /\ Puts(S) /\ streams' = [k \in IDs |-> IF k \in S THEN NoHeader ELSE streams[k]]
          BY <2>3 DEF PutOut
    <3>2. CASE id \in S
      <4>1. puts'[id] = Append(puts[id], Assembled(id))
            BY <1>2, <3>1, <3>2
      <4>2. streams'[id] = NoHeader /\ streams[id] # NoHeader
            BY <3>1, <3>2 DEF Completed, Complete
      <4>3. Filing(id)' = 0 /\ Filing(id) = 1
            BY <4>2 DEF Filing
      <4>4. Due(id)' = Len(puts'[id]) + Filing(id)' /\ Due(id) = Len(puts[id]) + Filing(id)
            BY DEF Due
      <4>5. Len(puts'[id]) = Len(puts[id]) + 1
            BY <1>3, <4>1
      <4> QED BY <1>0, <4>3, <4>4, <4>5
    <3>3. CASE id \notin S
      <4>1. puts'[id] = puts[id] /\ streams'[id] = streams[id]
            BY <1>2, <3>1, <3>3
      <4>2. Due(id)' = Due(id)
            BY <4>1 DEF Due, Filing
      <4> QED BY <1>0, <4>2
    <3> QED BY <3>2, <3>3
  <2> QED BY <1>7, <2>1, <2>2, <2>3 DEF Callback
<1>8. ASSUME Crash
      PROVE  Due(id)' <= Due(id) /\ crashes' = crashes + 1
  <2>1. crashes' = crashes + 1 /\ UNCHANGED puts
        /\ (streams' = [k \in IDs |-> NoHeader] \/ UNCHANGED filed)
        BY <1>8 DEF Crash, Dies
  <2>2. streams'[id] = NoHeader \/ streams'[id] = streams[id]
        BY <2>1
  <2>3. Filing(id)' \in {0, Filing(id)}
        BY <2>2 DEF Filing
  <2>4. Due(id)' = Len(puts[id]) + Filing(id)' /\ Due(id) = Len(puts[id]) + Filing(id)
        BY <2>1 DEF Due
  <2> QED BY <1>0, <2>1, <2>3, <2>4
<1>9. ASSUME CrashInCallback
      PROVE  Due(id)' <= Due(id) + 1 /\ crashes' = crashes + 1
  <2>1. crashes' = crashes + 1 /\ UNCHANGED streams
        BY <1>9 DEF CrashInCallback, Dies
  <2>2. PICK k \in Completed : Puts({k})
        BY <1>9 DEF CrashInCallback
  <2>3. puts'[id] = Append(puts[id], Assembled(id)) \/ puts'[id] = puts[id]
    <3>1. {k} \in SUBSET Completed
          OBVIOUS
    <3> QED BY <1>2, <2>2, <3>1
  <2>4. Len(puts'[id]) \in {Len(puts[id]), Len(puts[id]) + 1}
        BY <1>3, <2>3
  <2>5. Filing(id)' = Filing(id)
        BY <2>1 DEF Filing
  <2>6. Due(id)' = Len(puts'[id]) + Filing(id)' /\ Due(id) = Len(puts[id]) + Filing(id)
        BY DEF Due
  <2> QED BY <1>0, <2>1, <2>4, <2>5, <2>6
<1>10. CASE \E p \in net : Handle(p)
  <2>1. PICK p \in net : HandlePlain(p) \/ AddChunk(p) \/ AddStream(p)
        BY <1>10 DEF Handle
  <2> QED BY <1>4, <1>5, <2>1
<1> QED BY <1>6, <1>7, <1>8, <1>9, <1>10 DEF ReceiverSteps

\* Every step keeps the count of headers.
LEMMA OnceStep == OnceInv /\ [StreamNext]_streamVars => OnceInv'
<1> SUFFICES ASSUME OnceInv, [StreamNext]_streamVars PROVE OnceInv'
    OBVIOUS
<1>0. /\ StreamsTyped /\ SenderTyped /\ TablesTyped /\ ReceiverTyped /\ StreamsTyped'
      /\ limit \in Limits
      BY StreamsTypedStep DEF OnceInv, StreamsTyped, SenderTyped
<1>1. StreamsTyped' /\ TablesTyped' /\ ReceiverTyped'
      BY <1>0 DEF StreamsTyped
<1> SUFFICES ASSUME NEW id \in IDs
             PROVE  /\ IsFiniteSet(HeadersSent(id)')
                    /\ Due(id)' + Travelling(id)' <= Cardinality(Senders(id)) + crashes'
    BY <1>0 DEF OnceInv, Senders
<1>2. /\ IsFiniteSet(HeadersSent(id))
      /\ Due(id) + Travelling(id) <= Cardinality(Senders(id)) + crashes
      BY DEF OnceInv
<1>3. Due(id) \in Nat /\ crashes \in Nat
      BY <1>0, DueCounts
<1>4. Due(id)' \in Nat /\ crashes' \in Nat
  <2>1. Len(puts'[id]) \in Nat
    <3>1. IsSeq(puts'[id])
          BY <1>1 DEF ReceiverTyped, PutsAreSeqs
    <3> QED BY <3>1, SeqGrows
  <2>2. Filing(id)' \in {0, 1}
        BY DEF Filing
  <2>3. Due(id)' = Len(puts'[id]) + Filing(id)'
        BY DEF Due
  <2>4. crashes' \in Nat
        BY <1>1 DEF ReceiverTyped, CountsTyped
  <2> QED BY <2>1, <2>2, <2>3, <2>4
<1>5. Cardinality(Senders(id)) \in Nat /\ Travelling(id) \in Nat
      BY <1>2, HeaderCounts DEF Travelling
<1>6. ASSUME IsFiniteSet(HeadersSent(id)') PROVE Travelling(id)' \in Nat
  <2>1. HeadersAhead(id)' \subseteq Messages
        BY DEF HeadersAhead, Senders
  <2>2. IsFiniteSet(HeadersAhead(id)')
        BY <2>1, ReassemblyAssumption, FS_Subset
  <2>3. Cardinality(HeadersAhead(id)') \in Nat /\ Cardinality(HeadersSent(id)') \in Nat
        BY <1>6, <2>2, FS_CardinalityType
  <2> QED BY <2>3 DEF Travelling
<1>7. CASE \/ \E l \in Limits : SetByteLimit(l)
           \/ \E m \in Messages : SendMsg(m) \/ SendPiece(m)
  <2>1. IsFiniteSet(HeadersSent(id)') /\ Travelling(id)' <= Travelling(id)
        BY <1>0, <1>2, <1>7, SenderTravels
  <2>2. UNCHANGED <<streams, puts, crashes>>
        BY <1>0, <1>7, SenderKeepsReceiver DEF receiverVars, streamHistory, filed
  <2>3. Due(id)' = Due(id) /\ crashes' = crashes
        BY <2>2 DEF Due, Filing
  <2>4. Travelling(id)' \in Nat
        BY <1>6, <2>1
  <2> QED BY <1>2, <1>3, <1>5, <2>1, <2>3, <2>4
<1>8. CASE ReceiverSteps
  <2>1. /\ IsFiniteSet(HeadersSent(id)') /\ Travelling(id)' <= Travelling(id)
        /\ \A p \in net : AddStream(p) /\ p.id = id => Travelling(id)' + 1 <= Travelling(id)
        BY <1>2, <1>8, ReceiverTravels
  <2>2. Travelling(id)' \in Nat
        BY <1>6, <2>1
  <2>3. \/ Due(id)' <= Due(id) /\ crashes' \in {crashes, crashes + 1}
        \/ Due(id)' <= Due(id) + 1 /\ crashes' = crashes + 1
        \/ /\ Due(id)' <= Due(id) + 1 /\ crashes' = crashes
           /\ \E p \in net : AddStream(p) /\ p.id = id
        BY <1>0, <1>8, ReceiverDue
  <2>4. \/ Due(id)' <= Due(id) /\ crashes' \in {crashes, crashes + 1}
        \/ Due(id)' <= Due(id) + 1 /\ crashes' = crashes + 1
        \/ /\ Due(id)' <= Due(id) + 1 /\ crashes' = crashes
           /\ Travelling(id)' + 1 <= Travelling(id)
        BY <2>1, <2>3
  <2> QED BY <1>2, <1>3, <1>4, <1>5, <2>1, <2>2, <2>4
<1>9. CASE UNCHANGED streamVars
  <2>1. UNCHANGED <<sending, net, streams, puts, crashes>>
        BY <1>9 DEF streamVars, senderVars, receiverVars, streamHistory, filed
  <2>2. /\ HeadersSent(id)' = HeadersSent(id) /\ HeadersAhead(id)' = HeadersAhead(id)
        /\ Due(id)' = Due(id) /\ crashes' = crashes
        BY <2>1 DEF HeadersSent, HeadersAhead, Senders, Due, Filing
  <2>3. Travelling(id)' = Travelling(id)
        BY <2>2 DEF Travelling
  <2> QED BY <1>2, <2>2, <2>3
<1> QED BY <1>7, <1>8, <1>9, StepsAre

\* At first every header is ahead.
LEMMA OnceInit == StreamInit => OnceInv
<1> SUFFICES ASSUME StreamInit, NEW id \in IDs
             PROVE  /\ IsFiniteSet(HeadersSent(id))
                    /\ Due(id) + Travelling(id) <= Cardinality(Senders(id)) + crashes
    BY StreamsTypedInit DEF OnceInv
<1>1. HeadersSent(id) = {} /\ Due(id) = 0 /\ crashes = 0
      BY DEF StreamInit, HeadersSent, Due, Filing
<1>2. HeadersAhead(id) \subseteq Senders(id)
      BY DEF HeadersAhead
<1>3. /\ IsFiniteSet(Senders(id)) /\ Cardinality(Senders(id)) \in Nat
      /\ Cardinality(HeadersAhead(id)) \in Nat
      /\ Cardinality(HeadersAhead(id)) <= Cardinality(Senders(id))
      BY <1>2, HeaderCounts, Fewer
<1>4. IsFiniteSet({}) /\ Cardinality({}) = 0
      BY FS_EmptySet
<1>5. Travelling(id) = Cardinality(HeadersAhead(id))
      BY <1>1, <1>3, <1>4 DEF Travelling
<1> QED BY <1>1, <1>3, <1>4, <1>5

\* No stream is put on Out more often than messages have its number and the
\* process crashed (Reassembly.OncePerStream): a stream is cleared with the step
\* that puts it there, and its one header does not come again; also when two
\* messages have the same stream number.
THEOREM StreamsComeOnce == StreamSpec => []OncePerStream
<1>1. OnceInv => OncePerStream
  <2> SUFFICES ASSUME OnceInv, NEW id \in IDs
               PROVE  Len(puts[id]) <= Cardinality(Senders(id)) + crashes
      BY DEF OncePerStream, Senders
  <2>1. /\ Len(puts[id]) \in Nat /\ Filing(id) \in {0, 1} /\ crashes \in Nat
        BY DueCounts DEF OnceInv, StreamsTyped
  <2>2. /\ IsFiniteSet(HeadersSent(id))
        /\ Due(id) + Travelling(id) <= Cardinality(Senders(id)) + crashes
        BY DEF OnceInv
  <2>3. Travelling(id) \in Nat /\ Cardinality(Senders(id)) \in Nat
        BY <2>2, HeaderCounts DEF Travelling
  <2>4. Due(id) = Len(puts[id]) + Filing(id)
        BY DEF Due
  <2> QED BY <2>1, <2>2, <2>3, <2>4
<1> QED BY <1>1, OnceInit, OnceStep, PTL DEF StreamSpec
=============================================================================
