-------------------------- MODULE SqlOutboxProofs --------------------------
(***************************************************************************)
(* Proofs about SqlOutbox: type correctness, and what a reader of the      *)
(* table may be kept from, for any number of senders, readers, channels    *)
(* and rows.                                                               *)
(***************************************************************************)
EXTENDS SqlOutbox, WellFoundedInduction, TLAPS

\* A non-empty bounded set of naturals has the maximum that Max chooses.
LEMMA MaxOfBounded ==
    ASSUME NEW N \in Nat, NEW S \in SUBSET (0 .. N), S # {}
    PROVE  Max(S) \in S /\ \A x \in S : x <= Max(S)
<1> DEFINE T == {k \in Nat : N - k \in S}
<1>1. T \subseteq Nat /\ T # {}
  <2>1. PICK x \in S : TRUE
        OBVIOUS
  <2>2. N - x \in Nat /\ N - (N - x) = x
        BY <2>1
  <2> QED BY <2>1, <2>2
<1>2. PICK k \in T : \A j \in T : ~ (<<j, k>> \in OpToRel(<, Nat))
      BY <1>1, NatLessThanWellFounded, WFMin
<1>3. \A j \in T : ~ (j < k)
      BY <1>2 DEF OpToRel
<1>4. N - k \in S
      BY <1>2
<1>5. \A x \in S : N - k >= x
  <2>1. TAKE x \in S
  <2>2. N - x \in T
        BY <2>1
  <2> QED BY <1>3, <2>1, <2>2
<1> QED BY <1>4, <1>5 DEF Max

\* What the fields of a row are, as numbers.
LEMMA RowFields ==
    ASSUME NEW m \in Rows
    PROVE  m.timestamp \in Nat /\ m.timestamp \in 0 .. MaxTime + MaxMsgs
BY SqlAssumption DEF Rows

\* What Send and SendBulk put together are rows.
LEMMA RowIsRow ==
    ASSUME NEW k \in 1 .. MaxMsgs, NEW c \in Channels, NEW z \in Sizes,
           NEW t \in 1 .. MaxTime + MaxMsgs
    PROVE  [id |-> k, channel |-> c, size |-> z, timestamp |-> t] \in Rows
BY DEF Rows

\* A bulk counts its stamps up from one reading of the clock.
LEMMA StampInRange ==
    ASSUME NEW t \in Nat, 1 <= t, t <= MaxTime, NEW i \in Nat, 1 <= i, i <= MaxMsgs,
           MaxTime \in Nat, MaxMsgs \in Nat
    PROVE  t + i - 1 \in 1 .. MaxTime + MaxMsgs
OBVIOUS

\* Max of a number and 1 is what one expects.
LEMMA MaxWithOne ==
    ASSUME NEW n \in Nat
    PROVE  Max({n, 1}) \in Nat /\ n <= Max({n, 1})
<1>1. {n, 1} \in SUBSET (0 .. n + 1) /\ n + 1 \in Nat
      OBVIOUS
<1> QED BY <1>1, MaxOfBounded

\* The time that Pickup returns is that of the last row taken, or the one it was
\* given.
LEMMA NextTimeIsMax ==
    ASSUME TypeOK, NEW r \in Readers, NEW taken \in SUBSET Rows
    PROVE  /\ NextTime(r, taken) \in 0 .. MaxTime + MaxMsgs
           /\ cursor[r] <= NextTime(r, taken)
           /\ \A m \in taken : m.timestamp <= NextTime(r, taken)
           /\ \/ NextTime(r, taken) = cursor[r]
              \/ \E m \in taken : m.timestamp = NextTime(r, taken)
<1> DEFINE S == {m.timestamp : m \in taken} \cup {cursor[r]}
<1>1. MaxTime + MaxMsgs \in Nat
      BY SqlAssumption
<1>2. S \in SUBSET (0 .. MaxTime + MaxMsgs) /\ S # {}
  <2>1. cursor[r] \in 0 .. MaxTime + MaxMsgs
        BY DEF TypeOK
  <2>2. \A m \in taken : m.timestamp \in 0 .. MaxTime + MaxMsgs
        BY RowFields
  <2> QED BY <2>1, <2>2
<1>3. Max(S) \in S /\ \A x \in S : x <= Max(S)
      BY <1>1, <1>2, MaxOfBounded
<1>4. Max(S) = NextTime(r, taken)
      BY DEF NextTime
<1> HIDE DEF S
<1>5. Max(S) \in 0 .. MaxTime + MaxMsgs
      BY <1>2, <1>3
<1>6. cursor[r] \in S /\ \A m \in taken : m.timestamp \in S
      BY DEF S
<1>7. Max(S) = cursor[r] \/ \E m \in taken : m.timestamp = Max(S)
      BY <1>3 DEF S
<1> QED BY <1>3, <1>4, <1>5, <1>6, <1>7

\* Every step of the specification keeps every variable in its type.
LEMMA TypeStep == TypeOK /\ [Next]_vars => TypeOK'
<1> USE SqlAssumption
<1> SUFFICES ASSUME TypeOK, [Next]_vars PROVE TypeOK'
    OBVIOUS
<1>0. {} \subseteq Rows /\ Idle \in [rows : SUBSET Rows, bulk : BOOLEAN, busy : BOOLEAN]
      BY DEF Idle
<1>1. ASSUME NEW s \in Senders, NEW c \in Channels, NEW z \in Sizes, Send(s, c, z)
      PROVE  TypeOK'
  <2>1. now' \in 1 .. MaxTime /\ made' \in 0 .. MaxMsgs
        BY <1>1 DEF TypeOK, Send, ReadClock
  <2>2. [id |-> made + 1, channel |-> c, size |-> z, timestamp |-> now'] \in Rows
        BY <1>1, <2>1 DEF TypeOK, Send, Rows
  <2>3. pending' \in [Senders -> [rows : SUBSET Rows, bulk : BOOLEAN, busy : BOOLEAN]]
        BY <1>1, <2>2 DEF TypeOK, Send
  <2> QED BY <1>1, <2>1, <2>3 DEF TypeOK, Send, history
<1>2. ASSUME NEW s \in Senders, NEW c \in Channels, NEW z \in Sizes, NEW n \in BulkLengths,
             SendBulk(s, c, z, n)
      PROVE  TypeOK'
  <2>1. n \in Nat /\ Max({n, 1}) \in Nat /\ n <= Max({n, 1})
        BY MaxWithOne
  <2>2. now' \in 1 .. MaxTime /\ made' \in 0 .. MaxMsgs /\ made + n <= MaxMsgs /\ made \in Nat
        BY <1>2, <2>1 DEF TypeOK, SendBulk, ReadClock
  <2>3. ASSUME NEW i \in 1 .. n
        PROVE  [id |-> made + i, channel |-> c, size |-> z, timestamp |-> now' + i - 1] \in Rows
    <3>1. n \in Nat /\ i \in Nat /\ 1 <= i /\ i <= n /\ n <= MaxMsgs
          BY <2>1, <2>2
    <3>2. /\ made \in Nat /\ made + i <= MaxMsgs /\ MaxMsgs \in Nat
          /\ now' \in Nat /\ 1 <= now' /\ now' <= MaxTime /\ MaxTime \in Nat
          BY <2>2, <3>1
    <3>3. made + i \in 1 .. MaxMsgs
          BY <3>1, <3>2
    <3>4. now' + i - 1 \in 1 .. MaxTime + MaxMsgs
      <4>1. i <= MaxMsgs
            BY <3>1, <3>2
      <4> QED BY <3>1, <3>2, <4>1, StampInRange, Zenon
    <3> QED BY <3>3, <3>4, RowIsRow
  <2>4. pending' \in [Senders -> [rows : SUBSET Rows, bulk : BOOLEAN, busy : BOOLEAN]]
        BY <1>2, <2>3 DEF TypeOK, SendBulk
  <2> QED BY <1>2, <2>2, <2>4 DEF TypeOK, SendBulk, history
<1>3. ASSUME NEW s \in Senders, Insert(s) PROVE TypeOK'
  <2>1. pending[s].rows \in SUBSET Rows
        BY DEF TypeOK
  <2>2. pending' \in [Senders -> [rows : SUBSET Rows, bulk : BOOLEAN, busy : BOOLEAN]]
        BY <1>0, <1>3 DEF TypeOK, Insert
  <2>3. behind' \in [Readers -> SUBSET Rows]
        BY <1>3, <2>1 DEF TypeOK, Insert
  <2> QED BY <1>3, <2>1, <2>2, <2>3 DEF TypeOK, Insert
<1>4. ASSUME NEW s \in Senders, InsertFails(s) PROVE TypeOK'
  <2>1. pending[s].rows \in SUBSET Rows
        BY DEF TypeOK
  <2>2. pending' \in [Senders -> [rows : SUBSET Rows, bulk : BOOLEAN, busy : BOOLEAN]]
        BY <1>0, <1>4 DEF TypeOK, InsertFails
  <2>3. acked' \subseteq Rows /\ faults' \in 0 .. MaxFaults
        BY <1>4, <2>1 DEF TypeOK, InsertFails
  <2> QED BY <1>4, <2>2, <2>3 DEF TypeOK, InsertFails
<1>5. ASSUME NEW r \in Readers, Pickup(r) PROVE TypeOK'
  <2>1. PICK taken \in SUBSET Selected(r) :
            /\ cursor' = [cursor EXCEPT ![r] = NextTime(r, taken)]
            /\ got' = [got EXCEPT ![r] = @ \cup taken]
        BY <1>5 DEF Pickup
  <2>2. taken \in SUBSET Rows
        BY <2>1 DEF TypeOK, Selected
  <2>3. NextTime(r, taken) \in 0 .. MaxTime + MaxMsgs
        BY <2>2, NextTimeIsMax
  <2>4. cursor' \in [Readers -> 0 .. MaxTime + MaxMsgs] /\ got' \in [Readers -> SUBSET Rows]
        BY <2>1, <2>2, <2>3 DEF TypeOK
  <2> QED BY <1>5, <2>4 DEF TypeOK, Pickup
<1>6. CASE Crash
  <2>1. faults' \in 0 .. MaxFaults
        BY <1>6 DEF TypeOK, Crash
  <2>2. pending' \in [Senders -> [rows : SUBSET Rows, bulk : BOOLEAN, busy : BOOLEAN]]
        BY <1>0, <1>6 DEF Crash
  <2> QED BY <1>6, <2>1, <2>2 DEF TypeOK, Crash, history
<1>7. CASE Restart
      BY <1>7 DEF TypeOK, Restart, history
<1>8. CASE FlushOutbox
      BY <1>8 DEF TypeOK, FlushOutbox
<1>9. CASE Tick
      BY <1>9 DEF TypeOK, Tick, history
<1>10. CASE UNCHANGED vars
      BY <1>10 DEF TypeOK, vars, history
<1> QED BY <1>1, <1>2, <1>3, <1>4, <1>5, <1>6, <1>7, <1>8, <1>9, <1>10 DEF Next

\* Rows carry the stamps of their senders, and cursors stay among them.
THEOREM SqlTyped == Spec => []TypeOK
<1>1. Init => TypeOK
  <2> SUFFICES ASSUME Init PROVE TypeOK
      OBVIOUS
  <2>1. Idle \in [rows : SUBSET Rows, bulk : BOOLEAN, busy : BOOLEAN] /\ {} \subseteq Rows
        BY DEF Idle
  <2>2. now \in 1 .. MaxTime
        BY SqlAssumption DEF Init
  <2> QED BY <2>1, <2>2, SqlAssumption DEF Init, TypeOK
<1> QED BY <1>1, TypeStep, PTL DEF Spec

-----------------------------------------------------------------------------
\* Pickup passes over no row of the table that it may not: what it takes is a
\* prefix of what it selected, so a row that it left out and that its time does
\* not leave behind the cursor has the time of a row it took.
LEMMA PickupSkipsNothing ==
    ASSUME TypeOK, SkippedOnlyBehind, NEW r \in Readers, Pickup(r)
    PROVE  SkippedOnlyBehind'
<1> USE SqlAssumption
<1>1. PICK taken \in SUBSET Selected(r) :
          /\ IsPrefix(taken, Selected(r))
          /\ cursor' = [cursor EXCEPT ![r] = NextTime(r, taken)]
          /\ got' = [got EXCEPT ![r] = @ \cup taken]
      BY DEF Pickup
<1>2. taken \in SUBSET Rows /\ outbox \subseteq Rows
      BY <1>1 DEF TypeOK, Selected
<1>3. /\ NextTime(r, taken) \in Nat
      /\ \/ NextTime(r, taken) = cursor[r]
         \/ \E m \in taken : m.timestamp = NextTime(r, taken)
      BY <1>2, NextTimeIsMax
<1>4. outbox' = outbox /\ behind' = behind
      BY DEF Pickup
<1>5. SUFFICES ASSUME NEW q \in Readers, NEW m \in outbox, Wants(q, m),
                      m.timestamp <= cursor'[q]
               PROVE  \/ m \in got'[q] \cup behind[q]
                      \/ \E g \in got'[q] : g.timestamp = m.timestamp
      BY <1>4 DEF SkippedOnlyBehind, Wants
<1>6. got[q] \subseteq got'[q]
      BY <1>1 DEF TypeOK
<1>7. CASE m.timestamp <= cursor[q]
      BY <1>5, <1>6, <1>7 DEF SkippedOnlyBehind
<1>8. CASE ~(m.timestamp <= cursor[q])
  <2>1. q = r /\ cursor'[r] = NextTime(r, taken) /\ got'[r] = got[r] \cup taken
        BY <1>1, <1>5, <1>8 DEF TypeOK
  <2>2. m.timestamp \in Nat /\ cursor[r] \in Nat
        BY <1>2, RowFields DEF TypeOK
  <2>3. m \in Selected(r) /\ NextTime(r, taken) # cursor[r]
        BY <1>5, <1>8, <2>1, <2>2 DEF Selected
  <2>4. PICK t \in taken : t.timestamp = NextTime(r, taken)
        BY <1>3, <2>3
  <2>5. CASE m \in taken
        BY <2>1, <2>5
  <2>6. CASE m \notin taken
    <3>1. t.timestamp <= m.timestamp
          BY <1>1, <2>3, <2>4, <2>6 DEF IsPrefix
    <3>2. t.timestamp = m.timestamp
          BY <1>3, <1>5, <2>1, <2>2, <2>4, <3>1
    <3> QED BY <2>1, <3>2
  <2> QED BY <2>5, <2>6
<1> QED BY <1>7, <1>8

\* No step makes a reader pass over a row otherwise.
LEMMA SkipStep == TypeOK /\ SkippedOnlyBehind /\ [Next]_vars => SkippedOnlyBehind'
<1> SUFFICES ASSUME TypeOK, SkippedOnlyBehind, [Next]_vars PROVE SkippedOnlyBehind'
    OBVIOUS
<1>1. ASSUME outbox' \subseteq outbox, UNCHANGED <<cursor, behind, got>>
      PROVE  SkippedOnlyBehind'
      BY <1>1 DEF SkippedOnlyBehind, Wants
<1>2. ASSUME NEW s \in Senders, NEW c \in Channels, NEW z \in Sizes, Send(s, c, z)
      PROVE  SkippedOnlyBehind'
      BY <1>1, <1>2 DEF Send, history
<1>3. ASSUME NEW s \in Senders, NEW c \in Channels, NEW z \in Sizes, NEW n \in BulkLengths,
             SendBulk(s, c, z, n)
      PROVE  SkippedOnlyBehind'
      BY <1>1, <1>3 DEF SendBulk, history
<1>4. ASSUME NEW s \in Senders, Insert(s) PROVE SkippedOnlyBehind'
  <2>1. /\ outbox' = outbox \cup pending[s].rows
        /\ \A r \in Readers : behind'[r] =
             behind[r] \cup {m \in pending[s].rows : m.timestamp <= cursor[r]}
        /\ cursor' = cursor /\ got' = got
        BY <1>4 DEF Insert
  <2> SUFFICES ASSUME NEW r \in Readers, NEW m \in outbox', Wants(r, m),
                      m.timestamp <= cursor[r]
               PROVE  \/ m \in got[r] \cup behind'[r]
                      \/ \E g \in got[r] : g.timestamp = m.timestamp
      BY <2>1 DEF SkippedOnlyBehind, Wants
  <2>2. CASE m \in outbox
        BY <2>1, <2>2 DEF SkippedOnlyBehind
  <2>3. CASE m \in pending[s].rows
        BY <2>1, <2>3
  <2> QED BY <2>1, <2>2, <2>3
<1>5. ASSUME NEW s \in Senders, InsertFails(s) PROVE SkippedOnlyBehind'
      BY <1>1, <1>5 DEF InsertFails
<1>6. ASSUME NEW r \in Readers, Pickup(r) PROVE SkippedOnlyBehind'
      BY <1>6, PickupSkipsNothing
<1>7. CASE Crash
      BY <1>1, <1>7 DEF Crash, history
<1>8. CASE Restart
      BY <1>1, <1>8 DEF Restart, history
<1>9. CASE FlushOutbox
      BY <1>1, <1>9 DEF FlushOutbox
<1>10. CASE Tick
      BY <1>1, <1>10 DEF Tick, history
<1>11. CASE UNCHANGED vars
      BY <1>1, <1>11 DEF vars, history
<1> QED BY <1>2, <1>3, <1>4, <1>5, <1>6, <1>7, <1>8, <1>9, <1>10, <1>11 DEF Next

\* What a reader of the table has passed over without getting it came in behind
\* its cursor, or has the time of a row it got.
THEOREM SqlSkipsOnlyBehind == Spec => []SkippedOnlyBehind
<1>1. Init => SkippedOnlyBehind
      BY DEF Init, SkippedOnlyBehind
<1> QED BY <1>1, SkipStep, SqlTyped, PTL DEF Spec

=============================================================================
