----------------------------- MODULE SqlOutbox -----------------------------
(***************************************************************************)
(* The outbox table of nodes/db and nodes/qldb: rows of a channel, a       *)
(* message and a timestamp.  Senders (SendMsg, Forward, SendBulk) read the *)
(* clock and insert later; Pickup selects the rows after a time; the poll  *)
(* loop deletes old rows.  The table outlives the process.                 *)
(*                                                                         *)
(* One statement, or one transaction, of the database is one step.  Rows   *)
(* with equal timestamps come in any order: ORDER BY timestamp says no     *)
(* more.  A database error panics a QL node (events.Critical).             *)
(***************************************************************************)
EXTENDS Integers, FiniteSets, FiniteSetsExt

CONSTANTS
    Senders, Readers, Channels,
    OddNames,       \* channels whose name is not made of letters and digits
    Sizes,          \* lengths a message may have
    BulkLengths,    \* how many messages SendBulk may be given
    Subscribed,     \* reader -> the channelNames it passes, {} for none
    MaxBytes,       \* the byte limit the readers pass
    MaxAge,         \* the age after which FlushOutbox deletes a row
    MaxTime, MaxMsgs, MaxFaults \* bounds of the model

ASSUME SqlAssumption ==
    /\ OddNames \subseteq Channels
    /\ Sizes \subseteq Nat \ {0} /\ BulkLengths \subseteq Nat
    /\ Subscribed \in [Readers -> SUBSET Channels]
    /\ MaxBytes \in Nat /\ MaxAge \in Nat
    /\ MaxTime \in Nat \ {0} /\ MaxMsgs \in Nat /\ MaxFaults \in Nat

VARIABLES
    kind,       \* "db" or "ql"
    outbox,     \* the rows
    pending,    \* sender -> what it stamped and has not inserted, or Idle
    up,         \* the process runs
    now,        \* the clock
    cursor,     \* reader -> the lastTime of its next call
    made, faults,
    \* History, read by the properties only:
    acked,      \* the rows whose sender was told that all is well, and that
                \* FlushOutbox did not delete
    behind,     \* reader -> the rows inserted when its cursor was past them
    got         \* reader -> the rows it was handed

history == <<acked, behind, got>>
vars    == <<kind, outbox, pending, up, now, cursor, made, faults, history>>

Rows == [id : 1 .. MaxMsgs, channel : Channels, size : Sizes,
         timestamp : 1 .. MaxTime + MaxMsgs]
Idle == [rows |-> {}, bulk |-> FALSE, busy |-> FALSE]

Init ==
    /\ kind \in {"db", "ql"}
    /\ outbox = {}
    /\ pending = [s \in Senders |-> Idle]
    /\ up = TRUE
    /\ now = 1
    /\ cursor = [r \in Readers |-> 0]
    /\ made = 0 /\ faults = 0
    /\ acked = {}
    /\ behind = [r \in Readers |-> {}]
    /\ got = [r \in Readers |-> {}]

-----------------------------------------------------------------------------
(***************************************************************************)
(* Sending.  Two readings of the clock may be equal.                       *)
(***************************************************************************)
ReadClock == now' \in {now, now + 1} /\ now' <= MaxTime

\* SendMsg and Forward.
Send(s, c, z) ==
    /\ up /\ ~pending[s].busy /\ made < MaxMsgs
    /\ ReadClock
    /\ made' = made + 1
    /\ pending' = [pending EXCEPT ![s] =
         [rows |-> {[id |-> made + 1, channel |-> c, size |-> z, timestamp |-> now']},
          bulk |-> FALSE, busy |-> TRUE]]
    /\ UNCHANGED <<kind, outbox, up, cursor, faults, history>>

\* sendBulk: the clock is read once and the stamps count up from there.
SendBulk(s, c, z, n) ==
    /\ up /\ ~pending[s].busy
    /\ ReadClock
    /\ made' = made + Max({n, 1}) /\ made' <= MaxMsgs
    /\ pending' = [pending EXCEPT ![s] =
         [rows |-> {[id |-> made + i, channel |-> c, size |-> z,
                     timestamp |-> now' + i - 1] : i \in 1 .. n},
          bulk |-> TRUE, busy |-> TRUE]]
    /\ UNCHANGED <<kind, outbox, up, cursor, faults, history>>

\* QL's bulk insert is one statement, which is not SQL if it has no values.
BadSql(s) == kind = "ql" /\ pending[s].bulk /\ pending[s].rows = {}

Insert(s) ==
    /\ up /\ pending[s].busy /\ ~BadSql(s)
    /\ outbox' = outbox \cup pending[s].rows
    /\ acked' = acked \cup pending[s].rows
    /\ behind' = [r \in Readers |->
         behind[r] \cup {m \in pending[s].rows : m.timestamp <= cursor[r]}]
    /\ pending' = [pending EXCEPT ![s] = Idle]
    /\ UNCHANGED <<kind, up, now, cursor, made, faults, got>>

\* dbOutboxEnqueue hands the error on, sendBulk ignores it.
InsertFails(s) ==
    /\ up /\ pending[s].busy /\ faults < MaxFaults
    /\ kind = "db"
    /\ faults' = faults + 1
    /\ acked' = IF pending[s].bulk THEN acked \cup pending[s].rows ELSE acked
    /\ pending' = [pending EXCEPT ![s] = Idle]
    /\ UNCHANGED <<kind, outbox, up, now, cursor, made, behind, got>>

\* The process ends: a crash, or the panic of a QL node's database error.
Crash ==
    /\ up
    /\ \/ faults < MaxFaults /\ faults' = faults + 1
       \/ \E s \in Senders : BadSql(s) /\ UNCHANGED faults
    /\ up' = FALSE
    /\ pending' = [s \in Senders |-> Idle]
    /\ UNCHANGED <<kind, outbox, now, cursor, made, history>>

Restart ==
    /\ ~up
    /\ up' = TRUE
    /\ UNCHANGED <<kind, outbox, pending, now, cursor, made, faults, history>>

-----------------------------------------------------------------------------
(***************************************************************************)
(* Pickup.  The rows after lastTime are read in the order of their times   *)
(* until one does not fit.  The counter that would tell a first row that   *)
(* does not fit from the end is counted up before it is compared with 0,   *)
(* so that the reader is told of no error and given nothing.               *)
(***************************************************************************)
Wants(r, m) == Subscribed[r] = {} \/ m.channel \in Subscribed[r]

\* qlGetMessages refuses names it cannot quote.
Refused(r) == kind = "ql" /\ Subscribed[r] \cap OddNames # {}

Selected(r) == {m \in outbox : cursor[r] < m.timestamp /\ Wants(r, m)}

Bytes(ms) == MapThenSumSet(LAMBDA m : m.size, ms)

Fits(ms) == Bytes(ms) <= MaxBytes

\* Mutant: if not all of it fits, nothing is returned.
IsPrefix_AllOrNone(taken, all) == taken = IF Fits(all) THEN all ELSE {}

IsPrefix(taken, all) ==
    /\ Fits(taken)
    /\ \A m \in taken, n \in all \ taken : m.timestamp <= n.timestamp
    /\ taken # all =>
         \E n \in all \ taken :
            /\ \A m \in all \ taken : n.timestamp <= m.timestamp
            /\ ~Fits(taken \cup {n})

\* Mutant: the time returned is that of the last row read, fetched or not.
NextTime_LastRead(r, taken) == Max({m.timestamp : m \in Selected(r)} \cup {cursor[r]})

NextTime(r, taken) == Max({m.timestamp : m \in taken} \cup {cursor[r]})

Pickup(r) ==
    /\ up /\ ~Refused(r)
    /\ \E taken \in SUBSET Selected(r) :
        /\ IsPrefix(taken, Selected(r))
        /\ cursor' = [cursor EXCEPT ![r] = NextTime(r, taken)]
        /\ got' = [got EXCEPT ![r] = @ \cup taken]
    /\ UNCHANGED <<kind, outbox, pending, up, now, made, faults, acked, behind>>

-----------------------------------------------------------------------------
IsOld(m) == m.timestamp < now - MaxAge

FlushOutbox ==
    /\ up
    /\ outbox' = {m \in outbox : ~IsOld(m)}
    /\ acked' = {m \in acked : ~IsOld(m)}
    /\ UNCHANGED <<kind, pending, up, now, cursor, made, faults, behind, got>>

Tick ==
    /\ now < MaxTime
    /\ now' = now + 1
    /\ UNCHANGED <<kind, outbox, pending, up, cursor, made, faults, history>>

Next ==
    \/ \E s \in Senders, c \in Channels, z \in Sizes :
         Send(s, c, z) \/ \E n \in BulkLengths : SendBulk(s, c, z, n)
    \/ \E s \in Senders : Insert(s) \/ InsertFails(s)
    \/ \E r \in Readers : Pickup(r)
    \/ Crash \/ Restart \/ FlushOutbox \/ Tick

Spec == Init /\ [][Next]_vars

\* Peers go on polling, and the node is started again.
FairSpec == Spec /\ WF_vars(Restart) /\ \A r \in Readers : WF_vars(Pickup(r))

-----------------------------------------------------------------------------
(***************************************************************************)
(* Properties.                                                             *)
(***************************************************************************)
\* Rows carry the stamps of their senders (type invariant).
TypeOK ==
    /\ kind \in {"db", "ql"} /\ up \in BOOLEAN
    /\ outbox \subseteq Rows /\ acked \subseteq Rows
    /\ pending \in [Senders -> [rows : SUBSET Rows, bulk : BOOLEAN, busy : BOOLEAN]]
    /\ now \in 1 .. MaxTime
    /\ cursor \in [Readers -> 0 .. MaxTime + MaxMsgs]
    /\ made \in 0 .. MaxMsgs /\ faults \in 0 .. MaxFaults
    /\ behind \in [Readers -> SUBSET Rows] /\ got \in [Readers -> SUBSET Rows]

\* What a reader has passed over without getting it came into the table behind
\* its cursor, or has the time of a row it did get: Pickup itself, with its
\* limit and its time, skips nothing else.
SkippedOnlyBehind ==
    \A r \in Readers : \A m \in outbox :
        Wants(r, m) /\ m.timestamp <= cursor[r] =>
            \/ m \in got[r] \cup behind[r]
            \/ \E g \in got[r] : g.timestamp = m.timestamp

\* A message whose sender was told that it was sent stays in the table, whatever
\* happens to the process, until it is too old.  (Fails: sendBulk ignores the error
\* of its transaction.)
AckedKept == acked \subseteq outbox

TooBig(m) == m.size > MaxBytes

\* Readers that go on polling get every row that stays in the table, unless it
\* came behind their cursor, or a row that is larger than the limit is in front
\* of them, or their channel names are refused.
Drained ==
    \A r \in Readers : \A k \in 1 .. MaxMsgs :
        (~Refused(r) /\ \E m \in outbox : m.id = k /\ Wants(r, m)) ~>
            \/ \A m \in outbox : m.id # k
            \/ \E m \in got[r] : m.id = k
            \/ \E m \in outbox : m.id = k /\ m.timestamp <= cursor[r]
            \/ \E m \in Selected(r) : TooBig(m)

\* Polling ends at no row that is too big to be fetched. (Fails: nothing tells
\* the reader, and what comes after the row waits until it is flushed.)
TooBigPassed ==
    \A r \in Readers : (\E m \in Selected(r) : TooBig(m)) ~>
        (Selected(r) = {} \/ \A m \in Selected(r) : ~TooBig(m))
=============================================================================
