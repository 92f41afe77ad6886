------------------------------ MODULE Sessions ------------------------------
(***************************************************************************)
(* One client and one server of a transport: RPC, the cache of sessions,   *)
(* and the goroutines that serve connections, in transports/tls, https and *)
(* udp.  TLS and UDP keep a session for the next call to the host and drop *)
(* it when a call on it fails; HTTPS makes a request of every call.  UDP   *)
(* gives up after 35 s, HTTPS after 10 s, TLS never.                       *)
(*                                                                         *)
(* The node polls a host with one call at a time (policy/common.go), so    *)
(* calls on one session follow each other unless Overlap.                  *)
(***************************************************************************)
EXTENDS Rpc, FiniteSets

CONSTANTS
    Callers,
    Calls,          \* the calls that are made: [action, args]
    Overlap,        \* calls of several callers share a session
    MaxCalls, MaxFaults, MaxTurns \* bounds of the model

ASSUME SessionsAssumption ==
    /\ \A call \in Calls : IsCall(call) /\ call.action \in DOMAIN Signature
    /\ Overlap \in BOOLEAN
    /\ MaxCalls \in Nat /\ MaxFaults \in Nat /\ MaxTurns \in Nat

VARIABLES
    kind,       \* "tls", "https" or "udp"
    listening,  \* the server's isRunning, with an open listener
    admin,      \* the adminMode it listens with
    conns,      \* the connections that were made, with both their ends
    cached,     \* the cached session: a place in conns, or 0
    calls,      \* caller -> its RPC in progress, or Idle
    faults, turns,
    \* History, read by the properties only:
    asked,      \* every call made
    done,       \* what the server performed: <<[id, call, admin], ...>>
    results     \* [id, of]: the call id returned the reply to the call of
vars == <<kind, listening, admin, conns, cached, calls, faults, turns, asked, done, results>>

server  == <<kind, listening, admin>>
history == <<asked, done, results>>

Idle == [id |-> 0]

\* handler is the server's goroutine: it is not there yet, or looks at isRunning,
\* or reads, or is gone.  late counts what it served since the server's Stop.
NewConn(handler) ==
    [open |-> TRUE, handler |-> handler, admin |-> admin, net |-> "up",
     requests |-> << >>, replies |-> << >>, late |-> 0]

Init ==
    /\ kind \in {"tls", "https", "udp"}
    /\ listening = TRUE /\ admin \in BOOLEAN
    /\ conns = << >> /\ cached = 0
    /\ calls = [c \in Callers |-> Idle]
    /\ faults = 0 /\ turns = 0
    /\ asked = << >> /\ done = << >> /\ results = {}

Closed(k) == [conns EXCEPT ![k].open = FALSE]

-----------------------------------------------------------------------------
(***************************************************************************)
(* RPC.                                                                    *)
(***************************************************************************)
RPC(c, call) ==
    /\ calls[c] = Idle /\ Len(asked) < MaxCalls
    /\ Overlap \/ kind = "https" \/ \A d \in Callers : calls[d] = Idle
    /\ asked' = Append(asked, call)
    /\ calls' = [calls EXCEPT ![c] = [id |-> Len(asked) + 1, conn |-> cached, sent |-> FALSE]]
    /\ UNCHANGED <<server, conns, cached, faults, turns, done, results>>

\* A UDP session exists without the server, which accepts its first packet.
Dial(c) ==
    /\ calls[c] # Idle /\ calls[c].conn = 0
    /\ IF listening \/ kind = "udp"
         THEN /\ conns' = Append(conns, NewConn(IF kind = "udp" THEN "none" ELSE "test"))
              /\ calls' = [calls EXCEPT ![c].conn = Len(conns) + 1]
              /\ cached' = IF kind = "https" THEN 0 ELSE Len(conns) + 1
         ELSE /\ calls' = [calls EXCEPT ![c] = Idle]
              /\ UNCHANGED <<conns, cached>>
    /\ UNCHANGED <<server, faults, turns, history>>

Send(c) ==
    /\ calls[c] # Idle /\ calls[c].conn # 0 /\ ~calls[c].sent
    /\ conns[calls[c].conn].open
    /\ conns' = [conns EXCEPT ![calls[c].conn].requests =
                   Append(@, [id |-> calls[c].id, bytes |-> Encode(asked[calls[c].id])])]
    /\ calls' = [calls EXCEPT ![c].sent = TRUE]
    /\ UNCHANGED <<server, cached, faults, turns, history>>

Receive(c) ==
    /\ calls[c] # Idle /\ calls[c].sent
    /\ LET k == calls[c].conn
       IN  /\ conns[k].open /\ conns[k].replies # << >>
           /\ results' = results \cup {[id |-> calls[c].id, of |-> Head(conns[k].replies)]}
           /\ conns' = [conns EXCEPT ![k].replies = Tail(@), ![k].open = (kind # "https")]
    /\ calls' = [calls EXCEPT ![c] = Idle]
    /\ UNCHANGED <<server, cached, faults, turns, asked, done>>

\* What the read or the write of a call on the connection may find.
Broken(k) ==
    \/ ~conns[k].open
    \/ conns[k].net = "cut"
    \/ conns[k].handler = "ended" /\ kind # "udp" /\ conns[k].replies = << >>

\* Mutant: the session of a call that failed stays in the cache.
GiveUp_Keep(c) ==
    /\ UNCHANGED <<conns, cached>>
    /\ calls' = [calls EXCEPT ![c] = Idle]

\* deleteCachedSession closes the session that is cached for the host by then.
GiveUp(c) ==
    /\ conns' = IF kind = "https" THEN Closed(calls[c].conn)
                ELSE IF cached # 0 THEN Closed(cached) ELSE conns
    /\ cached' = 0
    /\ calls' = [calls EXCEPT ![c] = Idle]

Fail(c) ==
    /\ calls[c] # Idle /\ calls[c].conn # 0 /\ Broken(calls[c].conn)
    /\ GiveUp(c)
    /\ UNCHANGED <<server, faults, turns, history>>

\* Mutant: only HTTPS calls have a deadline.
HasDeadline_Https == kind = "https"

HasDeadline == kind \in {"https", "udp"}

Timeout(c) ==
    /\ HasDeadline /\ calls[c] # Idle /\ calls[c].sent
    /\ GiveUp(c)
    /\ UNCHANGED <<server, faults, turns, history>>

-----------------------------------------------------------------------------
(***************************************************************************)
(* The server's end of a connection.                                       *)
(***************************************************************************)
Reaches(k) == conns[k].net = "up" /\ conns[k].requests # << >>

AcceptUDP(k) ==
    /\ listening /\ conns[k].handler = "none" /\ Reaches(k)
    /\ conns' = [conns EXCEPT ![k].handler = "test", ![k].admin = admin]
    /\ UNCHANGED <<server, cached, calls, faults, turns, history>>

\* Mutant: isRunning is looked at once, when the connection is accepted.
TestRunning_Once(k) ==
    /\ conns[k].handler = "test"
    /\ conns' = [conns EXCEPT ![k].handler = "read"]
    /\ UNCHANGED <<server, cached, calls, faults, turns, history>>

TestRunning(k) ==
    /\ conns[k].handler = "test"
    /\ conns' = [conns EXCEPT ![k].handler = IF listening THEN "read" ELSE "ended"]
    /\ UNCHANGED <<server, cached, calls, faults, turns, history>>

\* Read a call, perform it, write the reply.
Serve(k) ==
    /\ conns[k].handler = "read" /\ Reaches(k)
    /\ LET request == Head(conns[k].requests)
           call    == Decode(request.bytes)
       IN  IF call = Undecodable
             THEN /\ conns' = [conns EXCEPT ![k].requests = Tail(@), ![k].handler = "ended"]
                  /\ UNCHANGED done
             ELSE /\ conns' = [conns EXCEPT
                        ![k].requests = Tail(@),
                        ![k].replies = Append(@, request.id),
                        ![k].handler = IF kind = "https" THEN "ended" ELSE "test",
                        ![k].late = IF listening THEN @ ELSE @ + 1]
                  /\ done' = IF Performed(call, conns[k].admin)
                               THEN Append(done, [id |-> request.id, call |-> call,
                                                  admin |-> conns[k].admin])
                               ELSE done
    /\ UNCHANGED <<server, cached, calls, faults, turns, asked, results>>

\* The read fails: the client is gone, or UDP's deadline is over, which is set
\* once when the session is accepted.
HandlerEnds(k) ==
    /\ conns[k].handler = "read"
    /\ ~conns[k].open \/ conns[k].net = "cut" \/ kind = "udp"
    /\ conns' = [conns EXCEPT ![k].handler = "ended"]
    /\ UNCHANGED <<server, cached, calls, faults, turns, history>>

-----------------------------------------------------------------------------
(***************************************************************************)
(* Listen and Stop, and what may happen to the network and the processes.  *)
(***************************************************************************)
Turn == turns < MaxTurns /\ turns' = turns + 1

Listen(mode) ==
    /\ Turn /\ ~listening
    /\ listening' = TRUE /\ admin' = mode
    /\ conns' = [k \in DOMAIN conns |-> [conns[k] EXCEPT !.late = 0]]
    /\ UNCHANGED <<kind, cached, calls, faults, history>>

\* http.Server.Close closes the connections, too.
Stop ==
    /\ Turn /\ listening
    /\ listening' = FALSE
    /\ conns' = [k \in DOMAIN conns |->
                   IF kind = "https" THEN [conns[k] EXCEPT !.net = "cut"] ELSE conns[k]]
    /\ UNCHANGED <<kind, admin, cached, calls, faults, history>>

\* The server's process ends.  UDP does not tell the client.
Crash ==
    /\ Turn /\ listening
    /\ listening' = FALSE
    /\ conns' = [k \in DOMAIN conns |->
                   [conns[k] EXCEPT !.handler = "ended", !.requests = << >>,
                                    !.net = IF kind = "udp" THEN @ ELSE "cut"]]
    /\ UNCHANGED <<kind, admin, cached, calls, faults, history>>

\* The client's Stop clears the cache; its policies have ended before.
StopClient ==
    /\ Turn /\ cached # 0 /\ \A c \in Callers : calls[c] = Idle
    /\ conns' = Closed(cached)
    /\ cached' = 0
    /\ UNCHANGED <<server, calls, faults, history>>

\* A connection is reset, or packets stop getting through.
NetFault(k) ==
    /\ faults < MaxFaults /\ faults' = faults + 1
    /\ conns[k].net = "up"
    /\ \E n \in {"cut", "silent"} : conns' = [conns EXCEPT ![k].net = n]
    /\ UNCHANGED <<server, cached, calls, turns, history>>

Next ==
    \/ \E c \in Callers : \/ \E call \in Calls : RPC(c, call)
                          \/ Dial(c) \/ Send(c) \/ Receive(c) \/ Fail(c) \/ Timeout(c)
    \/ \E k \in DOMAIN conns : \/ AcceptUDP(k) \/ TestRunning(k) \/ Serve(k) \/ HandlerEnds(k)
                               \/ NetFault(k)
    \/ \E mode \in BOOLEAN : Listen(mode)
    \/ Stop \/ Crash \/ StopClient

Spec == Init /\ [][Next]_vars

\* Every goroutine goes on, and deadlines end.
FairSpec ==
    /\ Spec
    /\ \A c \in Callers : WF_vars(Dial(c) \/ Send(c) \/ Receive(c) \/ Fail(c) \/ Timeout(c))
    /\ \A k \in 1 .. MaxCalls :
         WF_vars(k \in DOMAIN conns /\ (TestRunning(k) \/ Serve(k) \/ HandlerEnds(k)))

-----------------------------------------------------------------------------
(***************************************************************************)
(* Properties.                                                             *)
(***************************************************************************)
TypeOK ==
    /\ cached \in 0 .. Len(conns) /\ Len(conns) <= MaxCalls
    /\ \A c \in Callers : calls[c] = Idle \/ calls[c].id \in DOMAIN asked

\* The session in the cache has nothing under way when no call is: a call that
\* was given up, and whose answer may still come, has taken its session with it.
InSync ==
    cached # 0 /\ (\A c \in Callers : calls[c] = Idle) =>
        conns[cached].open /\ conns[cached].requests = << >> /\ conns[cached].replies = << >>

\* An RPC returns the answer to its own call, whatever was lost, late or cut off
\* before it.  (Fails with Overlap: the two readers of a session may take each
\* other's answers.)
OwnReply == \A r \in results : r.of = r.id

\* The server does what the client asked for, with the arguments it was given,
\* once, and on a connection accepted for the public only what is public.
DoneAsAsked ==
    /\ \A i \in DOMAIN done :
         /\ done[i].call = asked[done[i].id]
         /\ done[i].admin \/ done[i].call.action \in PublicActions
    /\ \A i, j \in DOMAIN done : done[i].id = done[j].id => i = j

\* After Stop a connection serves at most the one call it was waiting for.
OneLateCall == \A k \in DOMAIN conns : conns[k].late <= 1

\* Every RPC returns, except on a TLS connection on which nothing comes any more.
RpcReturns ==
    \A c \in Callers :
        calls[c] # Idle ~>
            \/ calls[c] = Idle
            \/ kind = "tls" /\ calls[c].conn # 0 /\ conns[calls[c].conn].net = "silent"

\* Every RPC returns.  (Fails: a TLS call has no deadline.)
AlwaysReturns == \A c \in Callers : calls[c] # Idle ~> calls[c] = Idle

\* While the server listens for the public, nothing else is performed.  (Fails:
\* connections accepted in admin mode before a Stop and a Listen are still served.)
PublicWhilePublic ==
    [][ listening /\ ~admin /\ done' # done => Last(done').call.action \in PublicActions ]_vars
=============================================================================
