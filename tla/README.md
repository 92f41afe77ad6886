# A verification of ratnet

Ratnet is a message bus for applications: nodes flood encrypted messages to
each other, and whoever holds the right key reads them.  This directory models
that program in TLA+, checks the models with TLC and proves theorems about them
with TLAPS.  Paths below are relative to the repository (`src/` is its root).

## 1. The system

### Components

| component | code | state it keeps | operations |
|---|---|---|---|
| loop detection | `router/default.go` 14-67 | two maps (hash to counter, counter to hash), a counter | `SeenRecently` |
| default router | `router/default.go` 69-240 | flags, patches | `Route`, `Patch` |
| in-memory node | `nodes/ram/*.go` | outbox queue, keys, channels, profiles, contacts, peers, streams and chunks, `In`/`Out` channels, debouncer, `isRunning` | `SendMsg`, `Forward`, `Handle`, `Pickup`, `Dropoff`, `FlushOutbox`, `AddStream`, `AddChunk`, `Start`, `Stop`, key and peer administration |
| file-system node | `nodes/fs/*.go` | as above, the outbox being a directory with one file per message | the same interface |
| SQL and QL nodes | `nodes/db/*.go`, `nodes/qldb/*.go` | as above in tables, with a cache of channel keys | the same interface |
| peer table | `policy/common.go`, `api/policy.go` | per peer: routing key, two cursors, byte counts | `PollServer` |
| poll policy | `policy/poll/poll.go` | `isRunning`, group index, failure counts | `RunPolicy`, `Stop` |
| P2P policy | `policy/p2p/p2p.go` | sockets, peer list, negotiation rank | advertise, listen, negotiate, poll |
| server policy | `policy/server/server.go` | `isRunning` | `RunPolicy`, `Stop` |
| transports | `transports/{tls,https,udp}` | listeners, cached sessions, byte limit | `Listen`, `RPC`, `Stop` |
| RPC dispatch | `nodes/rpc.go` | none | `PublicRPC`, `AdminRPC` |
| remoting codec | `api/remoting.go` | none | calls, responses and bundles to bytes and back |
| chunking | `api/chunking/chunking.go` | none | `SendChunked`, `HandleChunked` |
| configuration | `*_json.go`, `type_registry.go` | none | import, export |

### How they interact

An application writes to a node's `In` channel; `SendMsg` encrypts the message
and appends it to the outbox with a time.  A poll policy calls `PollServer` for
every peer in turn.  That run reads the node's own outbox after one cursor
(`Pickup`), reads the peer's outbox after the other (an RPC to the peer's
`Pickup`), gives its own batch to the peer (an RPC to `Dropoff`) and the
peer's batch to its own node (`Dropoff`).  `Dropoff` decrypts the bundle with
the routing key and calls `Route` for every message: a message whose nonce was
seen is dropped; otherwise the node tries its keys (`Handle`, which writes the
clear text to `Out` without blocking), and appends the message to its own
outbox (`Forward`) if the router's flags say so.  The shared state of a node is
thus reached from application goroutines, from its poll policies and from the
connections of every peer.

### What is hard

* messages are stamped by one clock reading and appended later, and cursors are
  times: order matters (`nodes/ram/admin.go` 349, `internal.go` 51);
* the outbox is flushed, forwarded into and read concurrently with runs;
* a remote call may fail before or after the server acted on it, and the next
  run starts again from the same cursor;
* in-memory nodes lose outbox, cache and cursors when they restart, while their
  peers keep theirs;
* only loop detection stands between flooding and a storm, and its cache
  evicts, wraps and compares hashes;
* the SQL nodes answer the router from a table and decrypt with a cache of it,
  and what they do to a table is a sequence of statements, each of which may be
  the last before a crash;
* a session outlives the call it was opened for, a connection the `Stop` of its
  server, a socket the `Stop` of its transport, a poller the `Stop` of its policy,
  and an input loop that of its node;
* importing a configuration is a sequence of calls, each of which may fail.

`PROJECT.json` lists each of these places under `hazards`, with the properties
that are about it.

For each component, what makes it correct:

| component | correct when |
|---|---|
| loop detection | a nonce within the window is reported as seen, nothing fresh is, the cache stays bounded and its two maps inverse |
| default router | messages reach whoever has the key, do not multiply, and are given to the application once |
| outboxes | a reader that passes back the time it was given gets every message once; only old messages are dropped |
| peer table | a cursor never passes over a record that the other end has not routed, whatever fails |
| poll policy | one goroutine goes round the peers, `Stop` returns, a reachable peer is found |
| chunking, reassembly | what comes out is a message that went in, whole and once, and it does come out |
| P2P policy | of two peers exactly one polls the other |
| keys and tables | the cache follows the table; a profile keeps its key |
| transports, RPC dispatch, codec | a reply reaches the caller it is for; the server does what was asked, once, and only what its mode allows; `RPC` and `Stop` return |
| node life cycle | a node that runs listens; a stopped node is quiet and can be started again |

## 2. Modules and the code they model

`PROJECT.json` ("map") gives for every definition the lines it stands for.

| module | models | how |
|---|---|---|
| `RecentBuffer` | `router/default.go` 14-67 | One action, `SeenRecently`: look up, remember, collect.  The eviction loop is the set of counters it removes; the counter wraps at `MaxInt`, the hash is the function `Crc` (CRC-32). |
| `RamOutbox` | `nodes/ram/outbox.go`, the clock readings of `SendMsg` and `Forward` | A clock reading and the append are two actions, as no lock spans them; `MsgsSince` and `Flush` are one each (the mutex).  What `MsgsSince` takes is a set of positions in the queue.  `Flush` is modelled on the array (`FlushWalk`), because it removes elements of the slice it ranges over. |
| `FsOutbox` | `Pickup` and `FlushOutbox` of `nodes/fs`, the writing of files in its `SendMsg` and `Forward` | Nothing is locked, so creating a file, writing it, each name a Pickup visits and each file a flush removes are actions of their own; a crash leaves the files. |
| `SqlOutbox` | the outbox of `nodes/db` and `nodes/qldb`: `SendMsg`, `Forward`, `SendBulk`, `Pickup`, `FlushOutbox` | A clock reading and the insert are two actions, one statement or transaction is one step.  Rows of one time come in any order.  A failing statement, a crash, a restart; QL panics on its errors and refuses channel names it cannot quote. |
| `Mailbox` | - | What an outbox promises its readers while several writers use it: a message that comes in its turn (after all that were stamped before it) is passed over by none and given to each once, one that comes late may be missed.  `RamOutbox` implements it. |
| `Flood` | `policy/common.go`, `router/default.go` 69-240, `Pickup`, `Dropoff`, `SendMsg`, `Forward`, `Handle` of `nodes/ram` | A network.  One action per remote call of a `PollServer` run and per record that a `Dropoff` routes, so that runs, sends, failing calls, flushes and restarts interleave between them. |
| `Gossip` | - | What the network promises: a node learns a message from a neighbour that had it, once until it forgets everything.  `Flood` implements it. |
| `Reassembly` | `api/chunking/chunking.go`; `AddStream`, `AddChunk`, `Handle`, the callback in `Start`, `Start` and `Stop` of all four nodes | A sender that cuts messages while its byte limit changes; a receiver that files them in maps, in SQL tables or in QL tables (`store`), whose connections, callback, application, `Start` and `Stop` interleave and whose process may die between two statements of the callback. |
| `KeyStore` | contacts, channels, profiles, peers, own keys of all four nodes; `Route`'s two questions; the restart of the SQL nodes | One variable per map or table.  A name has a sequence of profile keys and a sequence of peer groups: one at most in the maps, rows in the SQL tables.  In `nodes/ram` and `nodes/fs` (`kind`) a call is one action (the mutex); in the SQL nodes each statement is one, and `calls` says which callers are between two. |
| `Rpc` | `api/remoting.go`, `nodes/rpc.go` | Operators: a call to its wire form and back (field order, counts, values that are not written), and whether `PublicRPC` or `AdminRPC` performs it. |
| `Sessions` | `RPC` of the three transports, their session caches, the goroutines that serve connections, `Listen` and `Stop` as those see them | A client and a server.  Dialling, sending, reading, giving up; at the server the test of `isRunning`, the read and the answer are steps of their own.  What travels is what `Rpc` makes of a call. |
| `NodeLife` | `Start`, `Stop` and the input loop of the nodes, `policy/server/server.go`, `Listen`, `Stop` and the accept loops of the transports | Each flag, mutex and wait of `Start` and `Stop` is a step (`pc`), as other goroutines run between them.  The end of an accept goroutine (`AcceptEnds`) and the closing of its socket (`CloseOldSocket`) are two steps: its deferred `wg.Done`, for which `Stop` waits, runs before its deferred `Close`. |
| `P2P` | `policy/p2p/p2p.go` | Advertiser, listener, pollers, `RunPolicy` and `Stop` of every peer, announcements as messages that arrive or not. |
| `PollPolicy` | `policy/poll/poll.go` | `RunPolicy`, the goroutine from the second test of `isRunning` to the end of a round, `Stop` in its two halves. |

The state of the models is the state of the code under the code's names; what
only the properties read is marked as history in each module.  An operator
`X_Something` before an operator `X` is a plausible bug in `X`, kept to show
that a property notices it; no specification uses it.  `MC...` modules hold the
constants of the runs; a module without one gets them from its cfg alone.

How the modules fit together: `Flood` takes from `RecentBuffer` that a nonce is
remembered, from the outbox modules what a Pickup returns, from `PollPolicy` and
`P2P` that peers are polled for ever, from `Sessions` that a call fails or
returns its own answer, from `KeyStore` that a node knows the keys it was given.
`Sessions` extends `Rpc`.  `MessageProofs` extends both `RamOutbox` and
`Reassembly`, whose operators are therefore named apart (`StreamInit`,
`StreamNext`).  `NodeLife` and `Reassembly` share the order of the
steps of `Start`.

Abstractions that matter:

* `Flood` uses what the smaller models establish: loop detection is a set
  (its window outlasts every run), stamping and appending is one step with
  increasing times, and a flush removes old records only.  Where the code falls
  short of that (section 6), `RamOutbox` and `RecentBuffer` show it.
* A failing call ends a run before or after the server acted on it; when it was
  sent is not known to the client.  A server goes on with a bundle whose client
  is gone.  A restarted client or server may see calls of its former life fail
  later, or at once.
* Profile keys (`CheckProfiles`, off in `NewDefaultRouter`) and malformed
  messages are left out of `Flood`.
* `events.Critical` is the release build's (`api/events/release.go` 19-22): it
  panics, and the process ends.  (The debug build sends an event and goes on.)
* The debouncer (`github.com/awgh/debouncer`) is not part of the repository; it
  is modelled from its use: `Trigger` arms it, and its callback runs once later.
* `FsOutbox` has no two equal clock readings, no channel whose name is a path or
  a message's, and no foreign files in basePath (a name that is no number makes
  every Pickup fail).  `Pickup` of `nodes/fs` ignores its channel names, and so
  does the model.  The largest message is read before its time is looked at, so
  it ends the process of every reader until it is flushed.
* The SQL modules take each statement, and each transaction, as one step
  (serializable), and a database that was written as safe from a crash.
* `KeyStore` counts a run that the Go runtime ends because the maps of the cache
  are written by two goroutines as a `Restart`.  The outcome of a torn map is not
  modelled otherwise.
* `Reassembly` has no action that loses a piece: one that has not arrived yet
  may never arrive, as far as safety goes.
* `Sessions`: TLS, kcp and HTTP are external and modelled as connections that
  keep order until they are cut, or go silent.  Bytes and lengths of a call are
  abstracted to the sequence of its values; malformed input is not modelled.  A
  kcp client sends a packet again until it is acknowledged, also to a server that
  was restarted; the model's `Crash` drops what was on its way, so that "once" in
  `DoneAsAsked` is under this abstraction.  Dialling and the handshake of TLS are
  one step; in the code they have no deadline either.
* `NodeLife` has one transport of one server policy.  A node that panicked stops.
* `Reassembly` files what arrives while the node is stopped, too: connections
  outlive `Stop`; but it does not say which connection brings it.
* `P2P`: a peer drops its own announcements; every other multicast arrives or
  not.  `HearStray` is a name that is no hexadecimal number, which ends the
  listener with an error; a shorter one (`p2p.go` 192) ends the process.  What a
  poller does in a poll is `PollServer` (`Flood`).
* `PollPolicy` takes a call of `PollServer` as one step that succeeds if the peer
  is up; interval and jitter only delay a round, and a failing `GetPeers` skips
  one.  The end of a round (`EndRound`) is one step.

## 3. What is checked

| run | question | bounds |
|---|---|---|
| `recent_buffer` | is the cache right, until the counter wraps? | 6 nonces for 4 entries, so that the collection runs several times; the counter wraps after 7 |
| `ram_outbox` | does a reader get every message that came in its turn, once, does a flush keep what is young, and do old ones go? | 2 writers between whose clock readings and appends everything happens, 2 readers (one of a channel), 3 messages of size 2 or 6, a limit of 4 bytes: batches are cut, and one message never fits (the panic) |
| `fs_outbox` | does a reader of files get messages in order, once, and is none held back? | 1 writer, 1 reader, basePath and 1 channel, 3 messages of size 1 or 3, a limit of 2, 1 crash, files old after 1 |
| `sql_outbox` | is a row passed over, is anything held back? | both databases, 2 senders, single messages and bulks of 0 or 2, 3 rows of size 2 or 6 under a limit of 4, 2 readers (one of a channel QL cannot quote), 1 failure or crash |
| `flood_pair` | do cursors pass over nothing, whatever fails, do messages not multiply, and is what stays in an outbox routed by the peer? | client and server, a message each way (channel, private), 1 failed call, 1 restart with or without new keys, 1 flush, `Out` full or not |
| `flood_star` | do messages cross a node that cannot read them, once? | 2 clients, 1 server without keys, 1 failed call |
| `reassembly` | is what comes out whole and once, and does it come out? | 2 messages of 2 chunks, limits 2, 6, 7 over an overhead of 1 and chunk headers of 2, 1 change of limit, the 3 stores, 2 starts, 1 crash, room for 1 in `Out` |
| `poll_policy` | is there one goroutine, does `Stop` return, is a peer found? | 2 goroutines, groups {p, q} and {q}, 2 retries, a flush every 2 rounds, 2 runs, peers that come and go twice |
| `key_store` | does the cache follow the table, does the router lose messages, do profile keys survive? | 4 kinds of node, 2 callers, 2 names, 2 keys and a string that is none, 2 groups, 4 calls |
| `sessions` | does a caller get its answer, and the server do what was asked? | 3 transports, 2 callers, 2 calls of 3 kinds (public, for administrators, with a value that is not written), 1 network fault, 2 turns of `Listen`, `Stop` or a crash |
| `lifecycle` | is a node that runs reachable, a stopped one quiet, and does `Stop` return? | 3 transports, 2 orders of `Start`, 3 starts, 3 stops, 3 messages, a port that another program takes or leaves twice, or that an old socket of the node holds |
| `p2p` | does one of two peers poll the other, and how often? | 2 peers, ranks 0, 1, 2, 2 runs each, 1 restart, 1 stray message |

What the properties say, run by run (each has its comment in its module):

* `recent_buffer`: the two maps of the cache are inverse (`MutualInverse`), a nonce
  within the window is reported (`LoopDetected`), a fresh one is not
  (`FreshNotFiltered`).
* `ram_outbox`: `NothingSkipped`, `NothingTwice` for what comes in its turn,
  `FlushKeepsFresh` and `OldDropped` for the flush, `BoxSpec` for the refinement of
  `Mailbox`.  `fs_outbox`: times only grow (`InOrder`), what is passed over had come
  in behind the reader (`SkippedOnlyBehind`), the rest arrives (`Drained`);
  `sql_outbox`: the last two of rows.
* `flood_pair`: `CursorsSound`, `NoStorm`, `Exchanged`, and `GossipSpec` for the
  refinement of `Gossip`.  `flood_star`: the application gets a message at most
  once (`AtMostOnce`) and at last (`Spread`).
* `reassembly`: `WholeMessages`, `OncePerStream`, `CountsAreRight`, `Delivered`.
* `poll_policy`: `OneLoop`, `StopReturns`, `FailOver`, `Flushes`.
* `key_store`: `CacheCoherent`, `ProfileKeyKept`, and the router loses a message only
  if a channel changed under it (`RouteLosesOnlyOnChange`).
* `sessions`: `OwnReply`, `DoneAsAsked`, `RpcReturns`, and a connection serves one
  call at most after `Stop` (`OneLateCall`).
* `lifecycle`: `RunningMeansListening`, `LastMessages`, `StopReturns`.
* `p2p`: `PollersBounded`, `Paired`.

Why the bounds are enough: each property speaks of one message at one link, one
stream, one name, one connection or one goroutine; a second one is there to
interfere with it, and the numbers are chosen such that every branch of the code
is taken (each limit is hit, each list is cut, wrapped or empty).  Four calls of
a `KeyStore` are the longest interference its properties name: two overlapping
calls, a deletion between their statements, and one that observes the result.
The scaled constants (cache of 4 for 4096, overhead 1 for 132, words of 7 bits
for 32, ranks of 0 to 2 for 64 bits) keep the comparisons between them.  A third
message, or a second failure, adds states but no new branch; the theorems of
section 5 remove the bound for what matters most.

Deadlock is checked unless the system may really stop: `RamOutbox` may panic,
`Reassembly` comes to rest when all is delivered, the clocks of `FsOutbox` and
`SqlOutbox` end, a stopped `PollPolicy`, `P2P` or `NodeLife` stays stopped once
its runs are used up, and so does a `KeyStore` or a `Sessions` that nobody calls.

## 4. Fairness

* `Flood`: the poll loop (`poll.go` 104-161) goes round its peers for ever.  A
  client runs one `PollServer` at a time, so a run on one link disables the
  others again and again: strong fairness for its start, weak for each step of a
  run, as calls return or fail (`Fail`, at most `MaxFails`, fewer than
  `RetryAttempts`; `PollPolicy` looks at the retries).
* `RamOutbox`: the same loop calls `FlushOutbox`, and time goes on.
* `FsOutbox`, `SqlOutbox`: peers poll for ever and a Pickup goes on; a SQL node
  that died is started again; nothing is assumed of writers or the flush.
* `Reassembly`: threads go on, pieces arrive (`Exchanged` of `Flood`), the
  debouncer's timer runs out, the application reads `Out`, `Start` and `Stop`
  return once called.
* `PollPolicy`: goroutines go on, as every call of `PollServer` returns, and a
  `Stop` that need not wait any longer returns.  Nothing is assumed of callers.
* `Sessions`: a call goes on, and so does the goroutine of a connection;
  deadlines run out (10 s for HTTPS, 35 s for UDP; TLS has none).  The network
  need not recover, nobody need listen again, and a UDP server need not accept.
* `NodeLife`: calls and goroutines go on.  Nobody has to call `Start` or `Stop`,
  the port need not become free, the application need not write to `In`.
* `P2P`: goroutines go on; an advertiser repeats itself at every interval, so
  an announcement to each peer that listens arrives.  Nobody has to run the policy.

`RecentBuffer` and `KeyStore` have no liveness: their operations are calls.

## 5. What is proved

For every value of the constants that satisfies the modules' assumptions:

| theorem | says | by |
|---|---|---|
| `CacheTyped`, `CacheMutualInverse`, `CacheBounded`, `CacheWindow`, `LoopsAreDetected` (`RecentBufferProofs`) | until the counter wraps, for every cache size, discount and hash function the maps are inverse, the cache is bounded, the window is remembered and loops are detected | an invariant that says which counters are in the cache: an interval that ends at the last one |
| `FreshAreRouted` (`RecentBufferProofs`) | if no two nonces share a CRC-32, a fresh message is not dropped, wrapped or not | what is remembered was asked about |
| `NetworkTyped` (`FloodProofs`) | type correctness | each action alone |
| `CursorInvariant`, `CursorsAreSound` (`FloodProofs`) | neither cursor passes over a record the other end has not routed | `CursorInv`, below |
| `CursorsOnlyAdvance` (`FloodProofs`) | no run moves a cursor back | the times in a run are not before the cursors |
| `DeliveredAtMostOnce` | an application gets a message once between two starts | what was delivered is remembered |
| `NetworkImplementsGossip` | `Flood` implements `Gossip` | whatever travels was sent or handled by the node it comes from |
| `UnpatchedNoStorm` | without patches a node keeps one copy of a message, its origin two | copies are paid for by the memory of the router and by `SendMsg` |
| `QueueTyped`, `PickupSkipsNothing`, `PickupRepeatsNothing`, `FlushLosesOnlyOld`, `OutboxIsMailbox` (`MessageProofs`) | types; with any number of writers and any clock a reader of the in-memory outbox gets every message it wants that came in its turn, none twice that was not overtaken, `Flush` loses only old ones unless the last of the queue is old, and `RamOutbox` implements `Mailbox` | the queue is in the order in which messages were posted (`QueueInv`), below |
| `StreamsAreTyped` (`MessageProofs`) | types of the sender and the receiver of long messages | each action alone |
| `StreamsAreWhole`, `ChunksAreCounted` (`MessageProofs`) | if no two messages have the same stream number, what comes out is a message, whole and in order, and no chunk is missing that was counted | `WholeInv`, below |
| `StreamsComeOnce` (`MessageProofs`) | a stream comes out once, and once more for each crash at most | `OnceInv`, below |
| `FsTyped`, `FsInOrder`, `FsSkipsOnlyBehind` (`FsOutboxProofs`) | types; a reader of files is handed messages in order, once; what a Pickup passes over for | what is picked precedes what is left to visit, below |
| `PolicyTyped` (`FloodProofs`) | the group index stays in range | each action alone |
| `SqlTyped`, `SqlSkipsOnlyBehind` (`SqlOutboxProofs`) | types; what a reader of the table passed over came in behind its cursor or at the time of a row it got | a Pickup takes a prefix of the rows in order of time, below |
| `CacheIsCoherent`, `RouterLosesOnlyOnChange` (`KeyStoreProofs`) | the cache of channel keys follows the table; the router swallows a message only in a race | `KeyInv`, below |
| `ProfileKeyIsKept` (`KeyStoreProofs`) | the first key of a profile stays when the profile is added again, however the statements of several callers interleave | a call that was not told of a change has read the row that is there (`ProfileReadIsCurrent`) |
| `RunningListens`, `LastMessagesOnly` (`LifecycleProofs`) | with one caller, between its calls a node that runs listens (or did not get its port) and one that does not accepts nothing; TLS never meets its own old socket; a stopped input loop sends one message more | `LifeInv` and `LoopsInv`, below |
| `PollersAreBounded`, `TiesOnly` (`LifecycleProofs`) | a peer has as many pollers of a target as runs of its policy at most; two peers poll each other only if their ranks are equal | `PollersInv` and `TiesInv`, below |
| `RepliesAreOwn`, `OneCallAfterStop` (`SessionsProofs`) | if calls on a session follow each other, a call returns its own answer; a connection serves one call after `Stop` at most | `SessionInv` and `LateInv`, below |
| `CallsAreDoneAsAsked` (`SessionsProofs`) | the server performs what was asked for, with its arguments, at most once, and for the public only what is public | `DoneInv`, below |

`CursorsSound` is not inductive: a cursor moves at the end of a run to a time
picked up at its beginning, and what lies between must be somewhere.
`CursorInv` says where.  From the pickup on, the batch holds every record up to
its time that is still in the outbox (`ToRemoteInv`; records appended later have
later stamps, `ClockInv`); once it was dropped off, each record of the batch
waits in the server's inbox or was routed (`InboxInv`); the same for the remote
pickup (`ToLocalInv`).  A failed call or a restart throws a batch away, and then
the cursor has not moved.

`NothingSkipped` of the in-memory outbox says what a reader got up to its cursor,
which is a time, while writers that read the clock early append late.  It is
about messages that came in their turn (`InTurn`): nothing that was stamped later,
or at the same time, is in front of them.  Then the reader whose cursor is at or
after such a message has looked at the queue since it was there: `QueueInv` says
that a cursor is the stamp of a message that was posted (`Given`, `Cursors`), which
is therefore not in front of it, that the queue is in the order of posting
(`Order`) and that messages are different (`Distinct`).  No hypothesis on the
writers or the clock is needed.  `RamOutboxRace.cfg` of section 6 shows
that a message out of its turn is lost (`NoneSkipped`).  `NothingTwice` is the
other direction: what is fetched lies behind the cursor, what was fetched and not
overtaken does not.
`MsgsSince` takes a prefix of what the reader wants (`PickedIsPrefix`), so that its
cursor separates what was taken from what was not (`TakenExactly`).  The range
loop of `Flush` over the shrinking slice keeps what is left a subsequence of the
queue (`SubQueue`) and, as long as the last message is young, keeps every young
one (`FreshKept`): past the end the loop reads copies of that last one, and
finds no reason to empty the outbox.  With an old one there it does
(`RamOutboxFlushRace.cfg`).  Both hold of every round by induction up to the length of
the queue (`BoundedInduction`, from the well-founded order of the naturals).
In the refinement a cursor is the last message in turn that is not after it:
messages in turn have increasing stamps, so that those up to the cursor are a prefix
of them.

`WholeMessages` speaks of what was put on `Out`; what makes it true lies in the
chunks that are filed, and before that in those on their way.  `WholeInv` says that
each of them is the part, at its number, of the message whose stream number it
carries, cut at the one size that was computed when its sending began (a later
change of the byte limit ends the stream and does not cut it anew).  If no other message
has the number (`OwnNumbers`: a hypothesis about 32 random bits, which
`ReassemblyCollision.cfg` of section 6 shows to be needed), the numbers filed are
among those of the message; as many as the header says are then all of them
(`CompleteIsWhole`), and joined in order they are the message again
(`ChunksJoin`, by induction up to the number of chunks).  `OncePerStream` needs
no such hypothesis.  `OnceInv` counts headers: what was put on `Out` for a number, the
header that is filed, those on their way and those still to be sent are together
at most the messages with that number and the crashes, for a crash inside the callback
leaves the header of a stream that was put on `Out`.

`SkippedOnlyBehind` of the files speaks of the end of a Pickup; its invariant
`WalkInv` says of every file that was whole at the beginning where it is in
between: picked, still ahead of the walk (by its name or that of its directory),
behind the place where the byte limit ended the walk, or passed over with the
excuse.  That a file just read is the one that was there needs `FilesInv`: names
are unique, and nobody writes to a whole file.  `FsOutboxTwo.cfg` checks the same
with two writers.

`UnpatchedNoStorm` assumes that no router has patches, which multiply messages
by design.

`SkippedOnlyBehind` of the SQL outbox is inductive together with the types.  The
step that matters is `PickupSkipsNothing`: a Pickup takes a prefix of the rows
behind the cursor in the order of their times, and the new cursor is the largest
time in it, so that a row it left out and passed over shares the time of one it
took.

`CacheCoherent` speaks of moments at which no `AddChannel` is under way; `KeyInv`
says what holds in between.  Two that overlap both know it (`OverlapsNoticed`);
what one that is alone has read is still the table but for what was deleted
(`ReadIsCurrent`); a channel the router asked for stays in the table until the
call is told (`AskedIsThere`).

`ProfileKeyKept` compares the first key of a profile before and after a call, between
whose statements other callers write.  What a call has read is the row that is
there until another one changes the first key; then it is told (`changed`), and
the property excuses it.  The invariant `ProfileReadIsCurrent` says that; it
also needs that the maps have one row of a name.  An earlier form of the property
excused only deletions; the proof failed, and the counterexample, of five calls,
is that `nodes/db` writes back the key it has read and so undoes the change of
another caller (`nodes/db/database.go`), which is now a change for the calls that
are under way.

`RunningMeansListening` speaks of moments between the calls of one controller.
`LifeInv` says, for each place in `Start`, `Stop`, `Listen` and the accept loop (`pc`),
which flags, listeners and goroutines there are; an old socket may be there at any
of them, but not under TLS, whose `Stop` closes the listeners itself.  `LastMessages` counts: an input
loop that waits on `In` with a message it may still send, and one that was told
to stop and did not wake up, are loops of their own, so that late and waiting
ones together are at most the loops there are (`LoopsInv`).  `PollersBounded` is
inductive with the listeners: the pollers of a target and the listeners that
have not met it yet are at most the runs of the policy (`PollersInv`).  `TiesInv`
says that a listener compares the rank its peer had when it was announced, so
that two peers can only both be pollers if neither rank is larger.

`OwnReply` says nothing of what is under way.  `SessionInv` does: the connection of
a call that was sent carries that call, or its answer, or nothing, and no other
(`TrafficIsOwn`); a cached session without a call is empty (`CachedIsClean`),
because a call that is given up takes its session along; TLS and UDP make one
call at a time on the cached session, HTTPS gives each one its own.  It needs
`~Overlap`: one poll policy makes its calls one after the other, and
`SessionsOwnReply.cfg` shows what happens otherwise.  `LateInv` adds that a
goroutine which served a call after `Stop` finds the flag unset next.

`DoneAsAsked` speaks of what was performed, and needs what is still to come.
`DoneInv` says that a call that was made is in one place at most: with its caller
until it is sent, then in the requests of one connection, then among what was
performed; a crash or an error may lose it, and nothing brings it back, for neither
a client nor a server sends or reads again what it has sent or read.  It needs
no `~Overlap`: calls that share a session may take each other's answers, and
are performed once all the same.  That what is read is what was written
(`CallsArrive`) holds for every call whose values have the fields of their types
(`SessionsAssumption`): `WrittenValues` shows, by induction up to the number of
arguments, that either each argument stands at its place in the buffer or there
are fewer than were counted, which the server answers with an error; and
`ReadsWhatIsWritten` that the fields of a value are taken in the order they were
written in.

`FreshNotFiltered` needs distinct hashes; `RecentBufferCollision.cfg` shows the loss
otherwise.

Only model-checked: all liveness (`Spread`, `Exchanged`, `OldDropped`,
`Delivered`, `Drained`, `StopReturns`, `FailOver`, `Flushes`, `RpcReturns`,
`Paired`), which is out of the prover's reach; `OneLoop` and `NoStorm` with patches; and `BatchFits`, a fold over data.

## 6. Where code and comments disagree

These configurations are kept beside the runs; in each TLC finds the property
violated.  They run like the others, e.g. `tlc -config RamOutboxRace.cfg MCRamOutbox`.

| configuration | property violated | because |
|---|---|---|
| `RamOutboxRace.cfg` | `NoneSkipped` | two writers read the clock in one order and append in the other; a cursor between them passes over a message (`nodes/ram/admin.go` 349, `internal.go` 51) |
| `RamOutboxFlushRace.cfg` | `NoFreshLost` | with messages out of time order the loop meets a stale copy and empties the outbox (`nodes/ram/outbox.go` 54) |
| `RecentBufferWrap.cfg` | `JustSeenRemembered` | after the counter wraps, new entries have the smallest counters and are evicted first (`router/default.go` 45) |
| `RecentBufferCollision.cfg` | `FreshNotFiltered` | nonces are compared by their CRC-32 (`router/default.go` 39); `router/loop_test.go` 38 expects fresh ones to pass |
| `FloodKeys.cfg` | `ExchangedWithOldKeys` | a peer's routing key is cached for ever (`policy/common.go` 43): after the server came back with new keys the client never exchanges with it again |
| `FloodPatch.cfg` | `CopiesHandled` | a patch to two channels sends two copies under one nonce (`router/default.go` 139); the next node drops the second |
| `ReassemblyCollision.cfg` | `CountsAreRight` | streams of two senders with one 32-bit number are counted together (`nodes/ram/admin.go` 427) |
| `ReassemblyLimit.cfg` | `LimitsChecked` | a byte limit of 140 passes the test and makes the data size 0 (`api/chunking/chunking.go` 24-37) |
| `PollPolicyHasty.cfg` | `StopReturns` | `Stop` before the goroutine of `RunPolicy` has set `isRunning` is overwritten and waits for ever (`policy/poll/poll.go` 94) |
| `SessionsOwnReply.cfg` | `OwnReply` | two callers that share a session take each other's answers; nothing locks it (`transports/tls/tls.go` 158) |
| `NodeLifeTwo.cfg` | `RunningMeansListening` | with two callers, a `Stop` between the listener and the flag (`transports/tls/tls.go` 94) |
| `NodeLifeRestart.cfg` | `RestartListens` | `wg.Done` runs before the deferred `lis.Close` (`transports/udp/udp.go` 68-69): `Stop` returns, and the next `Start` may fail to bind to the node's own old socket |

The following properties are stated in the modules and violated as well; put one
in the place of those of the listed cfg and TLC shows how.

| configuration | property | because |
|---|---|---|
| `RamOutbox.cfg` | `FlushDropsOld` | the range loop skips the element after a removed one (`nodes/ram/outbox.go` 52); later flushes get it, as `OldDropped` shows |
| `FsOutbox.cfg` | `NothingSkipped` | a Pickup between the creation and the writing of a file hands over an empty one and moves past it (`nodes/fs/internal.go` 60-67) |
| `FsOutbox.cfg` | `NoneSkipped` | directories are walked one after the other, but only files later than the last one taken are kept (`nodes/fs/public.go` 90) |
| `SqlOutbox.cfg` | `TooBigPassed` | the counter is raised before it is compared with 0: no error is returned for a first row that is too big, and nothing behind it is fetched (`nodes/db/database.go` 407) |
| `SqlOutbox.cfg` | `AckedKept` | `sendBulk` ignores the error of its transaction (`nodes/db/admin.go` 314) |
| `Reassembly.cfg` | `ChunkIsFiled` | policies run before the debouncer is made (`nodes/ram/admin.go` 383, 410) |
| `Reassembly.cfg` | `AlwaysDelivered` | a complete stream that finds `Out` full waits for another piece, not for room (`nodes/ram/admin.go` 449) |
| `KeyStore.cfg` | `IdentityKept` | `nodes/db` scans the routing key from the result set of the content key (`nodes/db/database.go` 666); `nodes/fs` makes new keys at every `Start` |
| `KeyStore.cfg` | `ProfileLoads` | `LoadProfile` of the maps looks for the name among the channels first (`nodes/ram/admin.go` 192) |
| `KeyStore.cfg` | `PeersBounded` | the `UPDATE` of `qlAddPeer` lacks the group and moves the peer's other rows (`nodes/qldb/database.go` 420) |
| `Sessions.cfg` | `AlwaysReturns` | a call over TLS has no deadline |
| `Sessions.cfg` | `PublicWhilePublic` | a connection keeps the mode it was accepted in over a `Stop` and a `Listen` (`transports/tls/tls.go` 117) |
| `NodeLife.cfg` | `StopAlwaysReturns` | `Listen` returns with the mutex held when the port is taken (`transports/tls/tls.go` 77) |
| `NodeLife.cfg` | `OneLoop` | the input loop is not woken up by `Stop`, and the next `Start` adds another (`nodes/ram/admin.go` 400) |
| `P2P.cfg` | `OnePoller` | a poller that sleeps through `Stop` and `RunPolicy` goes on beside the next (`policy/p2p/p2p.go` 224) |
| `P2P.cfg` | `AlwaysPaired` | a rank of 0 counts as missing, and a name that is not hexadecimal ends the listener (`policy/p2p/p2p.go` 206) |

Also seen: a peer that failed three times is not tried again while another peer of
its group answers (`poll.go` 134, 146), although `docs/README.md` 24 says that
polling connects "to every Peer"; `AddProfile` of a profile that exists puts a clone
of the content key without a new pair in its place in `nodes/ram` and `nodes/fs`,
and the old key is lost (`nodes/ram/admin.go` 160, `nodes/fs/admin.go` 161), while
the SQL nodes keep it (`ProfileKeyKept`); an imported identity gets into no table,
so that a SQL node has the old one when its database is opened again
(`nodes/db/database.go` 646); the SQL nodes do not look at the error of an imported
profile (`nodes/db/importer_json.go` 70); an import that fails half-way leaves the
node stopped, and the next one, which succeeds, does not start it
(`nodes/ram/importer_json.go` 17, 86); a long private message comes out of
reassembly with an empty name, a short one as `[content]` (`nodes/ram/admin.go` 439,
`internal.go` 73).

## 7. Not modelled

* The programs `ratnet/` and `example/`: they call the
  nodes and keep no state of their own.
* `api/` interfaces, events and logging: types and output.  A Critical event is
  modelled where it is raised.
* JSON and the type registry: conversions between data without state.
* Configurations.  `Export` only reads.  `Import` stops the node, makes the calls
  `AddChannel`, `AddContact`, `AddPeer` and the like one after the other until one
  fails, and starts the node if it ran: these calls are actions of `KeyStore`, but
  there is no action for `Import` itself, for the identity and the profile keys it
  sets, or for the maps that `nodes/ram` and `nodes/fs` make anew in it.  It may
  fail half-way and change the node while others use it (section 6), so
  that `IdentityKept` and `ProfileKeyKept` do not speak of a node that imports.
* `CheckProfiles` in the router, off by default, and `OverrideServer` of the
  HTTPS transport, whose server is the caller's.
* Encryption (whoever holds the key reads the message), TLS, kcp, HTTP, the
  databases themselves, and malformed input.

## 8. Plan

Done: all modules of section 2, and the proofs of section 5.  Next:

1. An abstract mailbox for the outboxes on disk, in which a message may come in
   behind a cursor (in `Mailbox` none does), implemented by `FsOutbox` and `SqlOutbox`.
2. `Import`, a step for each of its calls and for the failure of each, on the maps and
   tables of `KeyStore`: what is there after an import that reported no error, and
   that a node never runs with half of one.
3. `BatchFits`, with its fold unfolded one file at a time.
