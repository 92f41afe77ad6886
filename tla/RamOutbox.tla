----------------------------- MODULE RamOutbox -----------------------------
(***************************************************************************)
(* The in-memory outbox of nodes/ram and the goroutines around it: writers *)
(* (SendMsg, Forward) that read the clock first and append later, readers  *)
(* (Pickup) that fetch everything after a time and pass the returned time  *)
(* to their next call, and the poll loop's periodic Flush.                 *)
(*                                                                         *)
(* Append, MsgsSince and Flush hold the outbox mutex, so each is one step. *)
(* The clock is time.Now().UnixNano(): it does not go back here, but two   *)
(* readings may be equal.  A writer that read it first may append last:    *)
(* what the outbox promises is about messages that came in their turn.     *)
(***************************************************************************)
EXTENDS Integers, FiniteSets, SequencesExt

CONSTANTS
    Writers, Readers, Channels,
    Sizes,          \* lengths a message may have
    Subscribed,     \* reader -> the channelNames it passes, {} for none
    MaxBytes,       \* the byte limit the readers pass, 0 for none
    MaxAge,         \* the age after which Flush drops a message
    MaxTime, MaxMsgs \* bounds of the model

ASSUME OutboxAssumption ==
    /\ Sizes \subseteq Nat \ {0}
    /\ Subscribed \in [Readers -> SUBSET Channels]
    /\ MaxBytes \in Nat /\ MaxAge \in Nat /\ MaxTime \in Nat \ {0} /\ MaxMsgs \in Nat

VARIABLES
    outbox,     \* the queue: <<[id, channel, size, timeStamp], ...>>
    pending,    \* writer -> the message it stamped and has not appended, or None
    now,        \* the clock
    cursor,     \* reader -> the lastTime of its next call
    panicked,   \* events.Critical was raised
    \* History, read by the properties only:
    made,       \* how many messages were stamped
    posted,     \* every message appended, in order
    got         \* reader -> everything MsgsSince returned to it

queue   == <<outbox, pending, now, cursor, panicked>>
history == <<made, posted, got>>
vars    == <<queue, history>>

None == [id |-> 0]
Msgs == [id : 1 .. MaxMsgs, channel : Channels, size : Sizes, timeStamp : 1 .. MaxTime]

Init ==
    /\ outbox = << >>
    /\ pending = [w \in Writers |-> None]
    /\ now = 1
    /\ cursor = [r \in Readers |-> 0]
    /\ panicked = FALSE
    /\ made = 0
    /\ posted = << >>
    /\ got = [r \in Readers |-> {}]

-----------------------------------------------------------------------------
Readings == {t \in now .. MaxTime : t <= now + 1}

\* SendMsg and Forward read the clock ...
Stamp(w, c, s) ==
    /\ ~panicked /\ pending[w] = None
    /\ made < MaxMsgs
    /\ \E t \in Readings :
        /\ now' = t
        /\ pending' = [pending EXCEPT ![w] =
                         [id |-> made + 1, channel |-> c, size |-> s, timeStamp |-> t]]
    /\ made' = made + 1
    /\ UNCHANGED <<outbox, cursor, panicked, posted, got>>

\* ... and append under the mutex when they get it.
AppendMsg(w) ==
    /\ ~panicked /\ pending[w] # None
    /\ outbox' = Append(outbox, pending[w])
    /\ posted' = Append(posted, pending[w])
    /\ pending' = [pending EXCEPT ![w] = None]
    /\ UNCHANGED <<now, cursor, panicked, made, got>>

(***************************************************************************)
(* MsgsSince walks the queue and takes the messages after lastTime that    *)
(* are wanted, up to the first of them that does not fit the limit.  Sets  *)
(* of positions in the queue stand for what it takes.                      *)
(***************************************************************************)
Bytes(taken) == MapThenSumSet(LAMBDA i : outbox[i].size, taken)

Wants(r, m) == Subscribed[r] = {} \/ m.channel \in Subscribed[r]

\* Mutant: the channel names are ignored.
Candidates_AllChannels(r) == {i \in DOMAIN outbox : cursor[r] < outbox[i].timeStamp}

\* Mutant: the messages of the time passed in are taken again.
Candidates_From(r) ==
    {i \in DOMAIN outbox : cursor[r] <= outbox[i].timeStamp /\ Wants(r, outbox[i])}

Candidates(r) ==
    {i \in DOMAIN outbox : cursor[r] < outbox[i].timeStamp /\ Wants(r, outbox[i])}

Fits(r, i) == MaxBytes = 0 \/ Bytes({j \in Candidates(r) : j <= i}) <= MaxBytes

Picked(r) == {i \in Candidates(r) : \A j \in Candidates(r) : j <= i => Fits(r, j)}

\* Mutant: the time returned is that of the last candidate, fetched or not.
NextCursor_LastSeen(r, picked) ==
    IF Candidates(r) = {} THEN cursor[r] ELSE outbox[Max(Candidates(r))].timeStamp

NextCursor(r, picked) == IF picked = {} THEN cursor[r] ELSE outbox[Max(picked)].timeStamp

MsgsSince(r) ==
    /\ ~panicked
    /\ got' = [got EXCEPT ![r] = @ \cup {outbox[i] : i \in Picked(r)}]
    /\ cursor' = [cursor EXCEPT ![r] = NextCursor(r, Picked(r))]
    \* "Result too big to be fetched on this transport!": a panic.
    /\ panicked' = (Picked(r) = {} /\ Candidates(r) # {})
    /\ UNCHANGED <<outbox, pending, now, made, posted>>

(***************************************************************************)
(* Flush removes elements of the slice while a range loop walks it.  The   *)
(* loop keeps the slice header it started with: arr is that array and len  *)
(* the length of o.outbox, which shrinks.  append(o[:i], o[i+1:]...) moves *)
(* the tail down inside the same array, so the loop skips the element that *)
(* moved to i, and past len it reads stale copies of the last one; if such *)
(* a copy is old, the whole outbox is replaced by an empty one.            *)
(***************************************************************************)
\* Mutant: an old message that moved to the front is never looked at.
FlushStep_NotFirst(q, i, cutoff) ==
    IF q.arr[i].timeStamp >= cutoff \/ i = 1
      THEN q
      ELSE [arr |-> [j \in DOMAIN q.arr |->
                       IF i <= j /\ j < q.len THEN q.arr[j + 1] ELSE q.arr[j]],
            len |-> IF q.len >= i THEN q.len - 1 ELSE 0]

\* Mutant: a message as old as the limit goes too.
FlushStep_AtLimit(q, i, cutoff) ==
    IF q.arr[i].timeStamp > cutoff
      THEN q
      ELSE IF q.len >= i
        THEN [arr |-> [j \in DOMAIN q.arr |->
                         IF i <= j /\ j < q.len THEN q.arr[j + 1] ELSE q.arr[j]],
              len |-> q.len - 1]
        ELSE [q EXCEPT !.len = 0]

FlushStep(q, i, cutoff) ==
    IF q.arr[i].timeStamp >= cutoff
      THEN q
      ELSE IF q.len >= i
        THEN [arr |-> [j \in DOMAIN q.arr |->
                         IF i <= j /\ j < q.len THEN q.arr[j + 1] ELSE q.arr[j]],
              len |-> q.len - 1]
        ELSE [q EXCEPT !.len = 0]

Cutoff == now - MaxAge

\* The array and the length after the first i elements of the range.
FlushWalk[i \in 0 .. Len(outbox)] ==
    IF i = 0 THEN [arr |-> outbox, len |-> Len(outbox)]
    ELSE FlushStep(FlushWalk[i - 1], i, Cutoff)

Flushed == LET end == FlushWalk[Len(outbox)] IN SubSeq(end.arr, 1, end.len)

Flush ==
    /\ ~panicked
    /\ outbox' = Flushed
    /\ UNCHANGED <<pending, now, cursor, panicked, history>>

Tick ==
    /\ now < MaxTime
    /\ now' = now + 1
    /\ UNCHANGED <<outbox, pending, cursor, panicked, history>>

Next ==
    \/ \E w \in Writers, c \in Channels, s \in Sizes : Stamp(w, c, s)
    \/ \E w \in Writers : AppendMsg(w)
    \/ \E r \in Readers : MsgsSince(r)
    \/ Flush
    \/ Tick

Spec == Init /\ [][Next]_vars

\* The poll loop calls FlushOutbox for ever and time goes on.
FairSpec == Spec /\ WF_vars(Flush) /\ WF_vars(Tick)

-----------------------------------------------------------------------------
(***************************************************************************)
(* Properties.                                                             *)
(***************************************************************************)
\* The queue holds stamped messages; cursors are times (type invariant).
TypeOK ==
    /\ outbox \in Seq(Msgs) /\ posted \in Seq(Msgs)
    /\ pending \in [Writers -> Msgs \cup {None}]
    /\ now \in 1 .. MaxTime
    /\ cursor \in [Readers -> 0 .. MaxTime]
    /\ panicked \in BOOLEAN
    /\ made \in 0 .. MaxMsgs
    /\ got \in [Readers -> SUBSET Msgs]

IsOld(m) == m.timeStamp < Cutoff

StampOf(m) == m.timeStamp

\* A message came in its turn if every one before it was stamped before it: its
\* writer read the clock and got the mutex with no other in between.
InTurn(i) == \A j \in 1 .. i - 1 : StampOf(posted[j]) < StampOf(posted[i])

\* A message was overtaken if one that was stamped before it was appended after it.
Overtaken(i) == \E j \in DOMAIN posted : i < j /\ StampOf(posted[j]) < StampOf(posted[i])

\* Pickup passes over no message that came in its turn: if it is in the queue, the
\* reader wants it and it is not after the reader's cursor, MsgsSince returned it,
\* whatever other writers append out of turn.
NothingSkipped ==
    \A r \in Readers : \A i \in DOMAIN posted :
        /\ InTurn(i) /\ posted[i] \in ToSet(outbox)
        /\ Wants(r, posted[i]) /\ StampOf(posted[i]) <= cursor[r]
        => posted[i] \in got[r]

\* MsgsSince returns no message twice to a reader that passes back the time it
\* was given, unless the message was overtaken.
NothingTwice ==
    [][ \A r \in Readers : MsgsSince(r) =>
          \A i \in DOMAIN posted :
              posted[i] \in {outbox[j] : j \in Picked(r)} \cap got[r] => Overtaken(i) ]_vars

\* Flush drops no message younger than the limit it was given, unless the last of
\* the queue is an old one (which overtook the younger ones).
FlushKeepsFresh ==
    [][ Flush => \A m \in ToSet(outbox) :
          ~IsOld(m) => m \in ToSet(outbox') \/ IsOld(Last(outbox)) ]_vars

\* Pickup passes over no message at all.  Does not hold: one that is stamped before
\* and appended after the last that a reader was given is never given to it.
NoneSkipped ==
    \A r \in Readers : \A m \in ToSet(outbox) :
        Wants(r, m) /\ StampOf(m) <= cursor[r] => m \in got[r]

\* Flush drops no young message at all.  Does not hold either: with an old message
\* at the end of the queue the range loop may empty it.
NoFreshLost ==
    [][ Flush => \A m \in ToSet(outbox) : ~IsOld(m) => m \in ToSet(outbox') ]_vars

\* Flush deletes the messages older than the limit, as its comment says.
FlushDropsOld ==
    [][ Flush => \A m \in ToSet(outbox') : ~IsOld(m) ]_vars

\* One Flush may leave old messages behind, but the poll loop's next ones get
\* them: an old message leaves the outbox in the end (unless a panic stops it).
OldDropped ==
    \A k \in 1 .. MaxMsgs :
        (\E m \in ToSet(outbox) : m.id = k /\ IsOld(m))
            ~> (panicked \/ \A m \in ToSet(outbox) : m.id # k)

\* The outbox implements the abstract mailbox: a reader's position is the last
\* message in turn that is not after its cursor.
LastSeen(c) == Max({i \in DOMAIN posted : InTurn(i) /\ StampOf(posted[i]) <= c} \cup {0})

Box == INSTANCE Mailbox WITH
         Messages <- Msgs,
         log  <- posted,
         live <- ToSet(outbox),
         old  <- {m \in ToSet(posted) : IsOld(m)},
         pos  <- [r \in Readers |-> LastSeen(cursor[r])],
         got  <- got
BoxSpec == Box!Spec
=============================================================================
