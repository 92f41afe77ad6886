----------------------------- MODULE Reassembly -----------------------------
(***************************************************************************)
(* Long messages.  A sender cuts a message that is larger than its         *)
(* transports allow into a stream: a header and numbered chunks, each a    *)
(* message of its own (api/chunking).  They reach the receiver in any      *)
(* order or not at all, each at most once (its router drops copies).  The  *)
(* receiver files them by stream number, in maps (nodes/ram, nodes/fs) or  *)
(* in tables (nodes/db, nodes/qldb), and triggers a debouncer, whose       *)
(* callback puts every stream that is complete on the Out channel.         *)
(*                                                                         *)
(* The sender's SendMsg calls interleave with changes of the byte limit.   *)
(* At the receiver the connections that call Handle, the callback, the     *)
(* application that reads Out, and Start and Stop interleave; AddStream,   *)
(* AddChunk, each Trigger and the callback hold the trigger mutex, so each *)
(* is one step.  A Critical event and a nil dereference end the process;   *)
(* it may also crash, after which the tables are still there.              *)
(***************************************************************************)
EXTENDS Integers, Sequences, FiniteSets, SequencesExt

CONSTANTS
    Messages,
    Size,           \* message -> its length
    StreamID,       \* message -> the random number its stream gets
    IDs,            \* the numbers a stream may have
    Limits,         \* byte limits of the sender's transports
    MaxChunk,       \* 64 * 1024: the largest chunk whatever the limit
    Overhead,       \* 132: what encryption adds to a message
    ChunkHeader,    \* 8: stream number and chunk number
    Word,           \* 2^32: lengths are computed in uint32
    OutCap,         \* the capacity of Out
    Stores,         \* "map", "db" or "ql": what the receiver's node is
    EarlyTraffic,   \* a peer may connect before Start returns
    MaxStarts, MaxLimits, MaxCrashes   \* bounds of the model

ASSUME ReassemblyAssumption ==
    /\ IsFiniteSet(Messages) /\ IsFiniteSet(IDs)
    /\ Size \in [Messages -> Nat \ {0}]
    /\ StreamID \in [Messages -> IDs]
    /\ Limits \subseteq Nat
    /\ MaxChunk \in Nat /\ Overhead \in Nat /\ ChunkHeader \in Nat
    /\ Word \in Nat \ {0} /\ Word > MaxChunk
    /\ OutCap \in Nat \ {0}
    /\ Stores \subseteq {"map", "db", "ql"} /\ EarlyTraffic \in BOOLEAN
    /\ MaxStarts \in Nat /\ MaxLimits \in Nat /\ MaxCrashes \in Nat

VARIABLES
    limit,          \* the least byte limit of the sender's transports
    sending,        \* message -> how far SendMsg is: [at, s, next]
    senderPanic,    \* why the sender's process ended, or "none"
    net,            \* pieces sent and not received: in some outbox, or lost
    \* The receiver:
    store,
    stage,          \* how far Start or Stop is
    running,        \* isRunning
    debouncer,      \* "nil", "idle", or "armed": its callback is due
    streams,        \* number -> the count of chunks its header gives, or NoHeader
    chunks,         \* number -> chunk number -> data
    handles,        \* Handle calls that still have to trigger the debouncer
    out,            \* messages waiting in Out
    receiverPanic,
    starts, changes, crashes,
    \* History, read by the properties only:
    puts,           \* number -> what was put on Out for it, in order
    missed          \* a callback left a complete stream: no room, or not running

streamHistory == <<puts, missed>>
senderVars    == <<limit, sending, senderPanic, changes>>
filed         == <<streams, chunks>>
receiverVars  == <<store, crashes, stage, running, debouncer, filed, handles, out, receiverPanic,
                   starts>>
streamVars    == <<senderVars, net, receiverVars, streamHistory>>

NoHeader == -1
Lesser(a, b) == IF a < b THEN a ELSE b

-----------------------------------------------------------------------------
(***************************************************************************)
(* Cutting.                                                                *)
(***************************************************************************)
Effective(l) == Lesser(l, MaxChunk)
TooLow(l)    == Effective(l) <= Overhead
ChunkSize(l) == Effective(l) - Overhead

\* The data of a chunk: the difference of two uint32.
DataSize(c) == (c - ChunkHeader) % Word

TotalChunks(n, s) == (n \div s) + IF n % s = 0 THEN 0 ELSE 1

Content(m) == [k \in 1 .. Size[m] |-> <<m, k>>]

\* Mutant: the last chunk ends one byte early.
Data_LastCut(m, s, i) == SubSeq(Content(m), i * s + 1, Lesser((i + 1) * s, Size[m] - 1))

Data(m, s, i) == SubSeq(Content(m), i * s + 1, Lesser((i + 1) * s, Size[m]))

Plain(m)     == [kind |-> "plain", id |-> StreamID[m], num |-> 0, data |-> Content(m)]
Header(m, s) == [kind |-> "header", id |-> StreamID[m], num |-> TotalChunks(Size[m], s),
                 data |-> << >>]
Chunk(m, s, i) == [kind |-> "chunk", id |-> StreamID[m], num |-> i, data |-> Data(m, s, i)]

\* The length of what SendMsg is given for a piece.
PieceLen(p) == Len(p.data) + IF p.kind = "plain" THEN 0 ELSE ChunkHeader

-----------------------------------------------------------------------------
StreamInit ==
    /\ limit \in Limits
    /\ sending = [m \in Messages |-> [at |-> "new", s |-> 0, next |-> 0]]
    /\ senderPanic = "none"
    /\ net = {}
    /\ store \in Stores
    /\ stage = "stopped" /\ running = FALSE
    /\ debouncer = "nil"
    /\ streams = [id \in IDs |-> NoHeader]
    /\ chunks = [id \in IDs |-> << >>]
    /\ handles = 0
    /\ out = 0
    /\ receiverPanic = "none"
    /\ starts = 0 /\ changes = 0 /\ crashes = 0
    /\ puts = [id \in IDs |-> << >>] /\ missed = FALSE

(***************************************************************************)
(* The sender.                                                             *)
(***************************************************************************)
SetByteLimit(l) ==
    /\ changes < MaxLimits /\ l # limit
    /\ limit' = l
    /\ changes' = changes + 1
    /\ UNCHANGED <<sending, senderPanic, net, receiverVars, streamHistory>>

SenderPanics(why) ==
    /\ senderPanic' = why
    /\ UNCHANGED <<limit, sending, changes, net, receiverVars, streamHistory>>

\* A message that fits is sent as it is; else SendChunked computes its stream.
SendMsg(m) ==
    LET c == ChunkSize(limit)
        s == DataSize(c)
    IN  /\ senderPanic = "none" /\ sending[m].at = "new"
        /\ \/ TooLow(limit) /\ SenderPanics("limit")
           \/ /\ ~TooLow(limit) /\ Size[m] <= c
              /\ net' = net \cup {Plain(m)}
              /\ sending' = [sending EXCEPT ![m].at = "done"]
              /\ UNCHANGED <<limit, senderPanic, changes, receiverVars, streamHistory>>
           \/ ~TooLow(limit) /\ Size[m] > c /\ s = 0 /\ SenderPanics("divide")
           \/ /\ ~TooLow(limit) /\ Size[m] > c /\ s # 0
              /\ sending' = [sending EXCEPT ![m] = [at |-> "stream", s |-> s, next |-> 0]]
              /\ UNCHANGED <<limit, senderPanic, changes, net, receiverVars, streamHistory>>

NextPiece(m) ==
    IF sending[m].next = 0 THEN Header(m, sending[m].s)
                           ELSE Chunk(m, sending[m].s, sending[m].next - 1)

\* SendMsg of the header, then of each chunk.  The limit may have changed: a
\* piece that no longer fits is refused, and the stream ends there.
SendPiece(m) ==
    /\ senderPanic = "none" /\ sending[m].at = "stream"
    /\ \/ TooLow(limit) /\ SenderPanics("limit")
       \/ /\ ~TooLow(limit) /\ PieceLen(NextPiece(m)) > ChunkSize(limit)
          /\ sending' = [sending EXCEPT ![m].at = "failed"]
          /\ UNCHANGED <<limit, senderPanic, changes, net, receiverVars, streamHistory>>
       \/ /\ ~TooLow(limit) /\ PieceLen(NextPiece(m)) <= ChunkSize(limit)
          /\ net' = net \cup {NextPiece(m)}
          /\ sending' = [sending EXCEPT
               ![m].next = @ + 1,
               ![m].at = IF sending[m].next = TotalChunks(Size[m], sending[m].s)
                           THEN "done" ELSE "stream"]
          /\ UNCHANGED <<limit, senderPanic, changes, receiverVars, streamHistory>>

-----------------------------------------------------------------------------
(***************************************************************************)
(* The receiver handles pieces.                                            *)
(***************************************************************************)
Alive == receiverPanic = "none"

\* Trigger on the debouncer, under the trigger mutex.
Trigger ==
    \/ /\ debouncer # "nil"
       /\ debouncer' = "armed" /\ UNCHANGED receiverPanic
    \/ /\ debouncer = "nil"
       /\ receiverPanic' = "nil debouncer" /\ UNCHANGED debouncer

Arrives(p) ==
    /\ Alive /\ stage \in {"ready"} \cup (IF EarlyTraffic THEN {"policies", "running"} ELSE {})
    /\ net' = net \ {p}

HandlePlain(p) ==
    /\ p.kind = "plain" /\ Arrives(p)
    /\ out' = Lesser(out + 1, OutCap)
    /\ UNCHANGED <<senderVars, store, crashes, stage, running, debouncer, filed, handles,
                   receiverPanic, starts, streamHistory>>

\* Filing triggers too, but nodes/db does so only when it overwrites.
FileTrigger(overwrites) ==
    IF store = "db" => overwrites THEN Trigger ELSE UNCHANGED <<debouncer, receiverPanic>>

\* nodes/qldb overwrites a header by a statement that lacks a parameter, which is
\* a Critical event.
AddStream(p) ==
    LET overwrites == streams[p.id] # NoHeader
    IN  /\ p.kind = "header" /\ Arrives(p)
        /\ streams' = [streams EXCEPT ![p.id] = p.num]
        /\ IF store = "ql" /\ overwrites
             THEN receiverPanic' = "bad update" /\ UNCHANGED debouncer
             ELSE FileTrigger(overwrites)
        /\ handles' = handles + 1
        /\ UNCHANGED <<senderVars, store, crashes, stage, running, chunks, out, starts,
                       streamHistory>>

\* Mutant: a chunk is filed without a trigger.
AddChunk_Silent(p) ==
    /\ p.kind = "chunk" /\ Arrives(p)
    /\ chunks' = [chunks EXCEPT ![p.id] =
                    [i \in DOMAIN @ \cup {p.num} |-> IF i = p.num THEN p.data ELSE @[i]]]
    /\ UNCHANGED <<senderVars, store, crashes, stage, running, streams, debouncer, receiverPanic,
                   handles, out, starts, streamHistory>>

AddChunk(p) ==
    /\ p.kind = "chunk" /\ Arrives(p)
    /\ chunks' = [chunks EXCEPT ![p.id] =
                    [i \in DOMAIN @ \cup {p.num} |-> IF i = p.num THEN p.data ELSE @[i]]]
    /\ FileTrigger(p.num \in DOMAIN chunks[p.id])
    /\ handles' = handles + 1
    /\ UNCHANGED <<senderVars, store, crashes, stage, running, streams, out, starts,
                   streamHistory>>

\* Handle triggers once more when AddStream or AddChunk has returned.
EndHandle ==
    /\ Alive /\ handles > 0
    /\ handles' = handles - 1
    /\ Trigger
    /\ UNCHANGED <<senderVars, store, crashes, net, stage, running, filed, out, starts,
                   streamHistory>>

(***************************************************************************)
(* The callback looks at every stream, in any order; Out takes what it has *)
(* room for, and a stream that was put there is cleared.                   *)
(***************************************************************************)
\* Mutant: one chunk too few is enough.
Complete_AtLeast(id) ==
    streams[id] # NoHeader /\ Cardinality(DOMAIN chunks[id]) + 1 >= streams[id]

Complete(id) == streams[id] # NoHeader /\ Cardinality(DOMAIN chunks[id]) = streams[id]

\* Only the maps can turn out to lack a chunk: a table is read in order.
Missing(id) == store = "map" /\ \E i \in 0 .. streams[id] - 1 : i \notin DOMAIN chunks[id]

\* The chunks that are there, in the order of their numbers.
Joined(cs) ==
    LET top == IF DOMAIN cs = {} THEN 0 ELSE Max(DOMAIN cs) + 1
        buf[n \in 0 .. top] ==
          IF n = 0 THEN << >>
          ELSE IF n - 1 \in DOMAIN cs THEN buf[n - 1] \o cs[n - 1] ELSE buf[n - 1]
    IN  buf[top]

Assembled(id) == Joined(chunks[id])

Puts(S) ==
    puts' = [id \in IDs |-> IF id \in S THEN Append(puts[id], Assembled(id)) ELSE puts[id]]

\* Mutant: a stream that was put on Out is kept.
PutOut_Kept(S) ==
    /\ out' = out + Cardinality(S)
    /\ Puts(S)
    /\ UNCHANGED filed

PutOut(S) ==
    /\ out' = out + Cardinality(S)
    /\ Puts(S)
    /\ streams' = [id \in IDs |-> IF id \in S THEN NoHeader ELSE streams[id]]
    /\ chunks' = [id \in IDs |-> IF id \in S THEN << >> ELSE chunks[id]]

Room == OutCap - out

Completed == {id \in IDs : Complete(id)}

Callback ==
    /\ Alive /\ debouncer = "armed"
    /\ debouncer' = "idle"
    /\ \/ ~running /\ UNCHANGED <<filed, out, receiverPanic, puts>>
       \/ /\ running /\ \E id \in Completed : Missing(id)
          /\ receiverPanic' = "miscount"
          /\ UNCHANGED <<filed, out, puts>>
       \/ /\ running /\ \A id \in Completed : ~Missing(id)
          /\ \E S \in SUBSET Completed :
               /\ Cardinality(S) = Lesser(Room, Cardinality(Completed))
               /\ PutOut(S)
          /\ UNCHANGED receiverPanic
    /\ missed' = (missed \/ Cardinality(Completed) > IF running THEN Room ELSE 0)
    /\ UNCHANGED <<senderVars, store, crashes, net, stage, running, handles, starts>>

\* The process dies: what is in the maps and in Out is lost.
Dies ==
    /\ Alive /\ stage # "stopped" /\ crashes < MaxCrashes
    /\ crashes' = crashes + 1
    /\ stage' = "stopped" /\ running' = FALSE
    /\ debouncer' = "nil" /\ handles' = 0 /\ out' = 0
    /\ UNCHANGED <<senderVars, store, net, receiverPanic, starts, missed>>

Crash ==
    /\ Dies
    /\ IF store = "map"
         THEN /\ streams' = [id \in IDs |-> NoHeader]
              /\ chunks' = [id \in IDs |-> << >>]
         ELSE UNCHANGED filed
    /\ UNCHANGED puts

\* It dies after the callback put a stream on Out, or after it deleted the
\* stream's chunks; next it would delete the header.
CrashInCallback ==
    /\ Dies
    /\ store # "map" /\ debouncer = "armed" /\ running /\ Room > 0
    /\ \E id \in Completed :
         /\ Puts({id})
         /\ chunks' \in {chunks, [chunks EXCEPT ![id] = << >>]}
    /\ UNCHANGED streams

\* The application reads Out.
ReadOut ==
    /\ out > 0
    /\ out' = out - 1
    /\ UNCHANGED <<senderVars, store, crashes, net, stage, running, debouncer, filed, handles,
                   receiverPanic, starts, streamHistory>>

-----------------------------------------------------------------------------
(***************************************************************************)
(* Start runs the policies, sets isRunning (the tables' nodes do this      *)
(* first) and makes the debouncer; Stop stops the policies and clears      *)
(* isRunning.                                                              *)
(***************************************************************************)
Start ==
    /\ Alive
    /\ \/ /\ stage = "stopped" /\ starts < MaxStarts
          /\ starts' = starts + 1
          /\ stage' = "policies" /\ running' = (store # "map") /\ UNCHANGED debouncer
       \/ /\ stage = "policies"
          /\ stage' = "running" /\ running' = TRUE /\ UNCHANGED <<debouncer, starts>>
       \* An older debouncer that is armed still calls back.
       \/ /\ stage = "running"
          /\ stage' = "ready" /\ UNCHANGED <<running, starts>>
          /\ debouncer' = IF debouncer = "armed" THEN "armed" ELSE "idle"
    /\ UNCHANGED <<senderVars, store, crashes, net, filed, handles, out, receiverPanic,
                   streamHistory>>

Stop ==
    /\ Alive /\ starts < MaxStarts
    /\ \/ stage = "ready" /\ stage' = "stopping" /\ UNCHANGED running
       \/ stage = "stopping" /\ stage' = "stopped" /\ running' = FALSE
    /\ UNCHANGED <<senderVars, store, crashes, net, debouncer, filed, handles, out, receiverPanic,
                   starts, streamHistory>>

Handle(p) == HandlePlain(p) \/ AddStream(p) \/ AddChunk(p)

StreamNext ==
    \/ \E l \in Limits : SetByteLimit(l)
    \/ \E m \in Messages : SendMsg(m) \/ SendPiece(m)
    \/ \E p \in net : Handle(p)
    \/ EndHandle \/ Callback \/ ReadOut \/ Crash \/ CrashInCallback
    \/ Start \/ Stop

StreamSpec == StreamInit /\ [][StreamNext]_streamVars

\* Threads go on, the debouncer's timer runs out, every piece arrives, and the
\* application reads Out.
FairStreamSpec ==
    /\ StreamSpec
    /\ \A m \in Messages : WF_streamVars(SendMsg(m) \/ SendPiece(m))
    /\ WF_streamVars(\E p \in net : Handle(p))
    /\ WF_streamVars(EndHandle) /\ WF_streamVars(Callback) /\ WF_streamVars(ReadOut)
    /\ WF_streamVars(Start) /\ WF_streamVars(stage = "stopping" /\ Stop)

-----------------------------------------------------------------------------
(***************************************************************************)
(* Properties.                                                             *)
(***************************************************************************)
Pieces == [kind : {"plain", "header", "chunk"}, id : IDs, num : Nat, data : Seq(Messages \X Nat)]

\* The stream tables and the debouncer of the node keep their types.
StreamTypeOK ==
    /\ limit \in Limits
    /\ sending \in [Messages -> [at : {"new", "stream", "failed", "done"}, s : Nat, next : Nat]]
    /\ senderPanic \in {"none", "limit", "divide"}
    /\ net \subseteq Pieces
    /\ stage \in {"stopped", "policies", "running", "ready", "stopping"}
    /\ running \in BOOLEAN
    /\ debouncer \in {"nil", "idle", "armed"}
    /\ streams \in [IDs -> Nat \cup {NoHeader}]
    /\ \A id \in IDs : \A i \in DOMAIN chunks[id] :
         i \in Nat /\ chunks[id][i] \in Seq(Messages \X Nat)
    /\ handles \in Nat
    /\ out \in 0 .. OutCap
    /\ receiverPanic \in {"none", "nil debouncer", "miscount", "bad update"}

\* What the callback puts on Out is a message that was sent, whole and in
\* order, however its chunks were cut, sent and received.
WholeMessages ==
    \A id \in IDs : \A i \in DOMAIN puts[id] :
        \E m \in Messages : StreamID[m] = id /\ puts[id][i] = Content(m)

\* A stream is put on Out once, for the callback clears it; a crash between the
\* two may repeat it, once for each crash.
OncePerStream ==
    \A id \in IDs : Len(puts[id]) <= Cardinality({m \in Messages : StreamID[m] = id}) + crashes

\* When the callback finds as many chunks as the header says, all are there:
\* "Chunk count miscalculated" never happens.
CountsAreRight == receiverPanic # "miscount"

\* The test of ChunkSize excludes the byte limits that SendChunked cannot work
\* with.
LimitsChecked == senderPanic # "divide"

\* A chunk may arrive as soon as the node's policies run: AddChunk files it.
ChunkIsFiled == receiverPanic # "nil debouncer"

\* No piece is larger, once encrypted, than the transports allow when it is
\* sent: SendMsg looks at the limit for every piece again.
PiecesFit == [][ \A p \in net' \ net : PieceLen(p) + Overhead <= limit ]_streamVars

Sent(m) == sending[m].at = "done" /\ sending[m].s > 0

\* A message that is sent completely is put on Out in the end, if the receiver did
\* not die and no callback found Out full or the node stopped: the last piece
\* triggers the callback.
Delivered ==
    \A m \in Messages :
        Sent(m) ~> missed \/ crashes > 0 \/ ~Alive \/ puts[StreamID[m]] # << >>

\* A message that is sent completely is put on Out in the end.  (Fails: nothing
\* but another piece triggers the callback again, not the reading of Out, nor
\* Start, after which the tables may hold streams that are complete.)
AlwaysDelivered ==
    \A m \in Messages : Sent(m) ~> ~Alive \/ puts[StreamID[m]] # << >>
=============================================================================
