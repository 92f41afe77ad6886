------------------------------ MODULE NodeLife ------------------------------
(***************************************************************************)
(* The life of a node with a server policy: Start and Stop of the node,    *)
(* Listen and Stop of its transport, the goroutine that accepts            *)
(* connections, and the input loop that sends what the application puts    *)
(* into the channel In.  nodes/ram and nodes/fs start their policies and   *)
(* then say that they run, nodes/db and nodes/qldb the other way round.    *)
(***************************************************************************)
EXTENDS Integers, FiniteSets, SequencesExt

CONSTANTS
    Controllers,    \* who calls Start and Stop
    MaxStarts, MaxStops, MaxMsgs, MaxPortChanges \* bounds of the model

ASSUME NodeLifeAssumption ==
    /\ MaxStarts \in Nat /\ MaxStops \in Nat
    /\ MaxMsgs \in Nat /\ MaxPortChanges \in Nat

VARIABLES
    node,       \* "map" (ram and fs) or "sql" (db and qldb)
    kind,       \* the transport: "tls", "https" or "udp"
    portTaken,  \* another program has the port
    running,    \* the node's isRunning
    up,         \* the transport's isRunning
    listener,   \* "none", "open", or "pending": HTTPS is about to open it
    oldSocket,  \* a socket of a stopped transport is still open, about to be closed
    accepting,  \* how many goroutines accept connections
    locked,     \* the TLS transport's mutex was never unlocked
    server,     \* the HTTPS transport has a server
    panicked,
    pc,         \* controller -> where it is in Start or Stop
    loops,      \* the input loops: <<[at, msg], ...>>
    taken, sent, \* how much of the input was taken, what was sent of it
    starts, stops, portChanges,
    \* History, read by the properties only:
    refused,    \* why the last Listen did not get the port: "no", "other", "own"
    late        \* how many messages were sent since the node stopped
transport == <<kind, up, listener, oldSocket, accepting, locked, server>>
input     == <<loops, taken, sent, late>>
counters  == <<starts, stops, portChanges>>
vars == <<node, portTaken, running, panicked, pc, refused, transport, input, counters>>

Init ==
    /\ node \in {"map", "sql"} /\ kind \in {"tls", "https", "udp"}
    /\ portTaken \in BOOLEAN
    /\ running = FALSE /\ up = FALSE
    /\ listener = "none" /\ oldSocket = FALSE /\ accepting = 0
    /\ locked = FALSE /\ server = FALSE /\ panicked = FALSE
    /\ pc = [c \in Controllers |-> "idle"]
    /\ loops = << >> /\ taken = 0 /\ sent = << >>
    /\ starts = 0 /\ stops = 0 /\ portChanges = 0
    /\ refused = "no" /\ late = 0

At(c, l) == ~panicked /\ pc[c] = l
Goto(c, l) == pc' = [pc EXCEPT ![c] = l]

\* The port is held by a socket of the node itself, or by anyone.
HeldByNode == listener = "open" \/ oldSocket
PortHeld   == portTaken \/ HeldByNode
Refusal    == IF HeldByNode THEN "own" ELSE "other"

-----------------------------------------------------------------------------
(***************************************************************************)
(* Start.                                                                  *)
(***************************************************************************)
AfterPolicies == IF node = "map" THEN "flag" ELSE "loop"

Start(c) ==
    /\ At(c, "idle") /\ starts < MaxStarts
    /\ starts' = starts + 1
    /\ Goto(c, IF running THEN "idle" ELSE IF node = "map" THEN "listen" ELSE "flag")
    /\ UNCHANGED <<node, portTaken, running, panicked, refused, transport, input, stops, portChanges>>

SetRunning(c) ==
    /\ At(c, "flag")
    /\ running' = TRUE /\ late' = 0
    /\ Goto(c, IF node = "map" THEN "loop" ELSE "listen")
    /\ UNCHANGED <<node, portTaken, panicked, refused, transport, loops, taken, sent, counters>>

\* net.Listen fails: TLS returns with its mutex locked.
ListenFails(c) ==
    /\ At(c, "listen") /\ ~up /\ ~locked
    /\ kind # "https" /\ PortHeld
    /\ locked' = (kind = "tls")
    /\ refused' = Refusal
    /\ Goto(c, AfterPolicies)
    /\ UNCHANGED <<node, portTaken, running, panicked, kind, up, listener, oldSocket, accepting,
                   server, input, counters>>

\* A transport that listens already goes on.  HTTPS leaves the listening to a
\* goroutine, so it does not see that the port is taken.
Listens(c) ==
    /\ At(c, "listen")
    /\ ~up => ~locked /\ (kind # "https" => ~PortHeld)
    /\ IF up
         THEN Goto(c, AfterPolicies) /\ UNCHANGED <<listener, server, refused>>
         ELSE /\ listener' = IF kind = "https" THEN "pending" ELSE "open"
              /\ server' = (kind = "https")
              /\ refused' = "no"
              /\ Goto(c, "listening")
    /\ UNCHANGED <<node, portTaken, running, panicked, kind, up, oldSocket, accepting, locked,
                   input, counters>>

\* Mutant: the transport forgets to say that it runs.
SetUp_Forgotten(c) ==
    /\ At(c, "listening")
    /\ accepting' = IF kind = "https" THEN 0 ELSE accepting + 1
    /\ Goto(c, AfterPolicies)
    /\ UNCHANGED <<node, portTaken, running, panicked, refused, kind, up, listener, oldSocket, locked,
                   server, input, counters>>

\* The flag is set without the mutex, and then the goroutine is started.
SetUp(c) ==
    /\ At(c, "listening")
    /\ up' = TRUE
    /\ accepting' = IF kind = "https" THEN 0 ELSE accepting + 1
    /\ Goto(c, AfterPolicies)
    /\ UNCHANGED <<node, portTaken, running, panicked, refused, kind, listener, oldSocket, locked,
                   server, input, counters>>

\* ListenAndServeTLS, in a goroutine of its own: an error is only logged.
ServeHTTPS ==
    /\ listener = "pending"
    /\ IF PortHeld THEN listener' = "none" /\ refused' = Refusal
                   ELSE listener' = "open" /\ UNCHANGED refused
    /\ UNCHANGED <<node, portTaken, running, panicked, pc, kind, up, oldSocket, accepting, locked,
                   server, input, counters>>

StartLoop(c) ==
    /\ At(c, "loop")
    /\ loops' = Append(loops, [at |-> "test", msg |-> 0])
    /\ Goto(c, "idle")
    /\ UNCHANGED <<node, portTaken, running, panicked, refused, transport, taken, sent, late, counters>>

-----------------------------------------------------------------------------
(***************************************************************************)
(* Stop.                                                                   *)
(***************************************************************************)
Stop(c) ==
    /\ At(c, "idle") /\ stops < MaxStops
    /\ stops' = stops + 1
    /\ Goto(c, "stop")
    /\ UNCHANGED <<node, portTaken, running, panicked, refused, transport, input, starts, portChanges>>

\* TLS and UDP clear their flag.
SetDown(c) ==
    /\ At(c, "stop") /\ kind # "https"
    /\ up' = FALSE
    /\ Goto(c, "close")
    /\ UNCHANGED <<node, portTaken, running, panicked, refused, kind, listener, oldSocket, accepting,
                   locked, server, input, counters>>

\* HTTPS closes its server first.  The server closes the socket it knows; one that
\* ListenAndServeTLS has opened and not yet told it of is closed there, later.
CloseServer(c) ==
    /\ At(c, "stop") /\ kind = "https"
    /\ panicked' = ~server
    /\ listener' = "none"
    /\ \/ UNCHANGED oldSocket
       \/ listener = "pending" /\ ~PortHeld /\ oldSocket' = TRUE
    /\ Goto(c, "close")
    /\ UNCHANGED <<node, portTaken, running, refused, kind, up, accepting, locked, server,
                   input, counters>>

\* Mutant: TLS leaves its listeners open.
Close_Not(c) ==
    /\ At(c, "close") /\ ~locked
    /\ up' = FALSE
    /\ UNCHANGED listener
    /\ Goto(c, "wait")
    /\ UNCHANGED <<node, portTaken, running, panicked, refused, kind, oldSocket, accepting, locked,
                   server, input, counters>>

Close(c) ==
    /\ At(c, "close") /\ ~locked
    /\ up' = IF kind = "https" THEN FALSE ELSE up
    /\ listener' = IF kind = "tls" THEN "none" ELSE listener
    /\ Goto(c, "wait")
    /\ UNCHANGED <<node, portTaken, running, panicked, refused, kind, oldSocket, accepting, locked,
                   server, input, counters>>

\* wg.Wait(), the end of the transport's Stop.
Waited(c) ==
    /\ At(c, "wait") /\ accepting = 0
    /\ Goto(c, "unflag")
    /\ UNCHANGED <<node, portTaken, running, panicked, refused, transport, input, counters>>

SetNotRunning(c) ==
    /\ At(c, "unflag")
    /\ running' = FALSE /\ late' = 0
    /\ Goto(c, "idle")
    /\ UNCHANGED <<node, portTaken, panicked, refused, transport, loops, taken, sent, counters>>

\* Accept fails when the listener is closed, or, for UDP, after a second; then
\* the goroutine looks at the flag and ends.  Its deferred calls run in reverse:
\* wg.Done, for which Stop waits, and then the Close of its socket, which TLS has
\* closed already and UDP has not.
AcceptEnds ==
    /\ accepting > 0 /\ ~up
    /\ kind = "tls" => listener = "none"
    /\ accepting' = accepting - 1
    /\ oldSocket' = (oldSocket \/ listener = "open")
    /\ listener' = "none"
    /\ UNCHANGED <<node, portTaken, running, panicked, pc, refused, kind, up, locked, server,
                   input, counters>>

CloseOldSocket ==
    /\ oldSocket
    /\ oldSocket' = FALSE
    /\ UNCHANGED <<node, portTaken, running, panicked, pc, refused, kind, up, listener, accepting,
                   locked, server, input, counters>>

-----------------------------------------------------------------------------
(***************************************************************************)
(* The input loop looks at the flag, waits for a message, and sends it.    *)
(***************************************************************************)
Live == {l \in DOMAIN loops : loops[l].at # "ended"}

TestRunning(l) ==
    /\ loops[l].at = "test"
    /\ loops' = [loops EXCEPT ![l].at = IF running THEN "receive" ELSE "ended"]
    /\ UNCHANGED <<node, portTaken, running, panicked, pc, refused, transport, taken, sent, late,
                   counters>>

Receive(l) ==
    /\ loops[l].at = "receive" /\ taken < MaxMsgs
    /\ taken' = taken + 1
    /\ loops' = [loops EXCEPT ![l] = [at |-> "send", msg |-> taken + 1]]
    /\ UNCHANGED <<node, portTaken, running, panicked, pc, refused, transport, sent, late, counters>>

\* Mutant: the loop goes on receiving without looking at the flag.
SendMsg_NoTest(l) ==
    /\ loops[l].at = "send"
    /\ sent' = Append(sent, loops[l].msg)
    /\ late' = IF running THEN 0 ELSE late + 1
    /\ loops' = [loops EXCEPT ![l] = [at |-> "receive", msg |-> 0]]
    /\ UNCHANGED <<node, portTaken, running, panicked, pc, refused, transport, taken, counters>>

SendMsg(l) ==
    /\ loops[l].at = "send"
    /\ sent' = Append(sent, loops[l].msg)
    /\ late' = IF running THEN 0 ELSE late + 1
    /\ loops' = [loops EXCEPT ![l] = [at |-> "test", msg |-> 0]]
    /\ UNCHANGED <<node, portTaken, running, panicked, pc, refused, transport, taken, counters>>

PortChanges ==
    /\ ~HeldByNode /\ portChanges < MaxPortChanges
    /\ portChanges' = portChanges + 1
    /\ portTaken' = ~portTaken
    /\ UNCHANGED <<node, running, panicked, pc, refused, transport, input, starts, stops>>

StartSteps(c) ==
    SetRunning(c) \/ ListenFails(c) \/ Listens(c) \/ SetUp(c) \/ StartLoop(c)
StopSteps(c) == SetDown(c) \/ CloseServer(c) \/ Close(c) \/ Waited(c) \/ SetNotRunning(c)

Next ==
    \/ \E c \in Controllers : Start(c) \/ Stop(c) \/ StartSteps(c) \/ StopSteps(c)
    \/ ServeHTTPS \/ AcceptEnds \/ CloseOldSocket \/ PortChanges
    \/ \E l \in DOMAIN loops : TestRunning(l) \/ Receive(l) \/ SendMsg(l)

Spec == Init /\ [][Next]_vars

\* Calls and goroutines go on; nobody has to call Start or Stop.
FairSpec ==
    /\ Spec
    /\ \A c \in Controllers : WF_vars(StartSteps(c) \/ StopSteps(c))
    /\ WF_vars(AcceptEnds) /\ WF_vars(CloseOldSocket) /\ WF_vars(ServeHTTPS)

-----------------------------------------------------------------------------
(***************************************************************************)
(* Properties.                                                             *)
(***************************************************************************)
Labels == {"idle", "flag", "listen", "listening", "loop", "stop", "close", "wait", "unflag"}

TypeOK ==
    /\ listener \in {"none", "pending", "open"} /\ accepting \in 0 .. MaxStarts
    /\ pc \in [Controllers -> Labels]
    /\ {running, up, oldSocket, locked, server, panicked, portTaken} \subseteq BOOLEAN
    /\ refused \in {"no", "other", "own"}
    /\ loops \in Seq([at : {"test", "receive", "send", "ended"}, msg : 0 .. MaxMsgs])
    /\ taken \in 0 .. MaxMsgs /\ Len(sent) <= taken

Settled == ~panicked /\ \A c \in Controllers : pc[c] = "idle"

\* Between the calls, a node that runs accepts connections, unless it did not get
\* the port when it started, and one that does not run accepts none.  A TLS
\* transport has given its port back when Stop returns and never meets itself
\* there; an old socket of UDP or HTTPS may be open a little longer, and the next
\* Listen then fails because of it.  (With two controllers this fails: a Stop may
\* come between opening the listener and setting the flag.)
RunningMeansListening ==
    /\ Settled =>
         IF running
           THEN \/ refused # "no"
                \/ up /\ listener # "none" /\ (kind # "https" => accepting = 1)
           ELSE ~up /\ listener = "none" /\ accepting = 0
    /\ kind = "tls" => refused # "own" /\ ~oldSocket

\* A node that is stopped and started again gets its port unless another program
\* has it.  (Fails: Stop of UDP waits for wg.Done, and the socket is closed after
\* it; HTTPS may have a socket its server does not know.)
RestartListens == refused # "own"

\* Stop returns, except that a TLS transport that did not get its port keeps its
\* mutex, and HTTPS that never listened has no server to close.
StopReturns ==
    \A c \in Controllers : pc[c] = "stop" ~> (pc[c] = "idle" \/ locked \/ panicked)

\* Stop returns.  (Fails for the reasons of StopReturns.)
StopAlwaysReturns == \A c \in Controllers : pc[c] = "stop" ~> pc[c] = "idle"

\* After Stop each input loop sends at most one message, the one it was waiting
\* for; and as long as the node was started once, messages are sent in the order
\* in which they were put in.
LastMessages ==
    /\ late <= Len(loops)
    /\ Len(loops) <= 1 => \A i \in DOMAIN sent : sent[i] = i

\* There is one input loop at a time.  (Fails: Stop does not wake up the loop, and
\* the next Start adds another.)
OneLoop == Cardinality(Live) <= 1
=============================================================================
