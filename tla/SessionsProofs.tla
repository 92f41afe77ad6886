--------------------------- MODULE SessionsProofs ---------------------------
(***************************************************************************)
(* Proofs about Sessions, for any number of callers, calls, faults,        *)
(* restarts and connections: the server performs what it was asked for,    *)
(* once, and after Stop at most one call on each connection; and if the    *)
(* calls on a session follow each other, an RPC returns the answer to its  *)
(* own call.                                                               *)
(***************************************************************************)
EXTENDS Sessions, SequenceTheorems, WellFoundedInduction, TLAPS

(***************************************************************************)
(* Types.                                                                  *)
(***************************************************************************)
Request == [id : Nat, bytes : {Encode(call) : call \in Calls}]

Conn == [open : BOOLEAN, handler : {"none", "test", "read", "ended"}, admin : BOOLEAN,
         net : {"up", "cut", "silent"}, requests : Seq(Request), replies : Seq(Nat),
         late : Nat]

InProgress == [id : Nat \ {0}, conn : Nat, sent : BOOLEAN]

SessionsTyped ==
    /\ kind \in {"tls", "https", "udp"}
    /\ listening \in BOOLEAN /\ admin \in BOOLEAN
    /\ conns \in Seq(Conn) /\ cached \in 0 .. Len(conns)
    /\ calls \in [Callers -> InProgress \cup {Idle}]
    /\ asked \in Seq(Calls)
    /\ \A c \in Callers : calls[c] # Idle =>
         /\ calls[c].id \in 1 .. Len(asked)
         /\ calls[c].conn \in 0 .. Len(conns)
         /\ calls[c].sent => calls[c].conn # 0

\* Nothing is under way on a connection.
Clean(conn) == conn.requests = << >> /\ conn.replies = << >>

\* The connection is left with what was under way on it.
SameTraffic(conn, old) == conn.requests = old.requests /\ conn.replies = old.replies

-----------------------------------------------------------------------------
(***************************************************************************)
(* What the steps do to connections and calls.                             *)
(***************************************************************************)
\* The head and the rest of a sequence, and of one with a single element.
LEMMA HeadAndTail ==
    ASSUME NEW S, NEW s \in Seq(S), s # << >>
    PROVE  /\ Head(s) \in S /\ Tail(s) \in Seq(S) /\ Head(s) = s[1]
           /\ Len(s) \in Nat \ {0} /\ Len(Tail(s)) = Len(s) - 1
           /\ \A i \in 1 .. Len(s) - 1 : Tail(s)[i] = s[i + 1]
           /\ Len(s) = 1 => Tail(s) = << >>
<1>1. /\ Head(s) \in S /\ Tail(s) \in Seq(S) /\ Head(s) = s[1]
      /\ Len(Tail(s)) = Len(s) - 1
      BY HeadTailProperties
<1>2. Len(s) \in Nat \ {0}
      OBVIOUS
<1>3. Len(s) = 1 => Tail(s) = << >>
  <2> DEFINE rest == Tail(s)
  <2>1. rest \in Seq(S) /\ (Len(s) = 1 => Len(rest) = 0)
        BY <1>1
  <2> HIDE DEF rest
  <2>2. rest # << >> => Len(rest) # 0
        BY <2>1, EmptySeq, Zenon
  <2> QED BY <2>1, <2>2 DEF rest
<1>4. \A i \in 1 .. Len(s) - 1 : Tail(s)[i] = s[i + 1]
      OBVIOUS
<1> QED BY <1>1, <1>2, <1>3, <1>4

\* A call in progress is not the absence of one.
LEMMA BusyIsNotIdle == \A call \in InProgress : call # Idle
<1> SUFFICES ASSUME NEW call \in InProgress, call = Idle PROVE FALSE
    OBVIOUS
<1>1. call.id # 0
      BY DEF InProgress
<1> QED BY <1>1 DEF Idle

\* A step that changes one connection.
LEMMA OneConn ==
    ASSUME conns \in Seq(Conn), NEW k \in 1 .. Len(conns), NEW conn \in Conn,
           conns' = [conns EXCEPT ![k] = conn]
    PROVE  /\ conns' \in Seq(Conn) /\ Len(conns') = Len(conns)
           /\ \A j \in 1 .. Len(conns) : conns'[j] = IF j = k THEN conn ELSE conns[j]
<1>1. conns' \in Seq(Conn) /\ Len(conns') = Len(conns)
      OBVIOUS
<1>2. \A j \in 1 .. Len(conns) : conns'[j] = IF j = k THEN conn ELSE conns[j]
      OBVIOUS
<1> QED BY <1>1, <1>2

\* Closing a connection, as GiveUp and StopClient do, leaves what is on it.
LEMMA ClosedKeeps ==
    ASSUME conns \in Seq(Conn), NEW k \in 1 .. Len(conns)
    PROVE  /\ Closed(k) \in Seq(Conn) /\ Len(Closed(k)) = Len(conns)
           /\ \A j \in 1 .. Len(conns) : SameTraffic(Closed(k)[j], conns[j])
<1> DEFINE conn == [conns[k] EXCEPT !.open = FALSE]
<1>1. conn \in Conn /\ SameTraffic(conn, conns[k])
  <2>1. conns[k] \in Conn
        OBVIOUS
  <2> QED BY <2>1 DEF Conn, SameTraffic
<1>2. Closed(k) = [conns EXCEPT ![k] = conn]
      BY DEF Closed
<1> HIDE DEF conn
<1>3. /\ Closed(k) \in Seq(Conn) /\ Len(Closed(k)) = Len(conns)
      /\ \A j \in 1 .. Len(conns) : Closed(k)[j] = IF j = k THEN conn ELSE conns[j]
      BY <1>1, <1>2
<1> QED BY <1>1, <1>3 DEF SameTraffic

\* A new call takes the cached session.
LEMMA RPCEffect ==
    ASSUME SessionsTyped, NEW c \in Callers, NEW call \in Calls, RPC(c, call)
    PROVE  /\ SessionsTyped'
           /\ Len(asked') = Len(asked) + 1
           /\ \A i \in 1 .. Len(asked) : asked'[i] = asked[i]
           /\ calls'[c] # Idle /\ calls'[c].id = Len(asked) + 1
           /\ calls'[c].conn = cached /\ ~calls'[c].sent
           /\ \A d \in Callers \ {c} : calls'[d] = calls[d]
<1> DEFINE new == [id |-> Len(asked) + 1, conn |-> cached, sent |-> FALSE]
<1>1. /\ asked \in Seq(Calls) /\ Len(asked) \in Nat
      /\ conns \in Seq(Conn) /\ Len(conns) \in Nat /\ cached \in 0 .. Len(conns)
      /\ calls \in [Callers -> InProgress \cup {Idle}]
      BY DEF SessionsTyped
<1>2. /\ asked' \in Seq(Calls) /\ Len(asked') = Len(asked) + 1
      /\ \A i \in 1 .. Len(asked) : asked'[i] = asked[i]
      BY <1>1 DEF RPC
<1>3. /\ new \in InProgress /\ new # Idle
      /\ new.id = Len(asked) + 1 /\ new.conn = cached /\ ~new.sent
  <2>1. new \in InProgress
        BY <1>1 DEF InProgress
  <2> QED BY <2>1, BusyIsNotIdle
<1>4. calls' = [calls EXCEPT ![c] = new]
      BY DEF RPC
<1>5. UNCHANGED <<kind, listening, admin, conns, cached>>
      BY DEF RPC, server
<1> HIDE DEF new
<1>6. /\ calls' \in [Callers -> InProgress \cup {Idle}]
      /\ \A d \in Callers : calls'[d] = IF d = c THEN new ELSE calls[d]
      BY <1>1, <1>3, <1>4
<1>7. \A d \in Callers : calls'[d] # Idle =>
        /\ calls'[d].id \in 1 .. Len(asked')
        /\ calls'[d].conn \in 0 .. Len(conns)
        /\ calls'[d].sent => calls'[d].conn # 0
      BY <1>1, <1>2, <1>3, <1>6 DEF SessionsTyped
<1>8. SessionsTyped'
      BY <1>2, <1>5, <1>6, <1>7 DEF SessionsTyped
<1> QED BY <1>2, <1>3, <1>6, <1>8

\* A call fails to make a connection, or has one of its own.
LEMMA DialEffect ==
    ASSUME SessionsTyped, NEW c \in Callers, Dial(c)
    PROVE  /\ SessionsTyped' /\ ~calls[c].sent
           /\ \A d \in Callers \ {c} : calls'[d] = calls[d]
           /\ \/ calls'[c] = Idle /\ UNCHANGED <<conns, cached>>
              \/ /\ Len(conns') = Len(conns) + 1
                 /\ \A j \in 1 .. Len(conns) : conns'[j] = conns[j]
                 /\ Clean(conns'[Len(conns) + 1])
                 /\ cached' = IF kind = "https" THEN 0 ELSE Len(conns) + 1
                 /\ calls'[c] # Idle /\ calls'[c].id = calls[c].id
                 /\ calls'[c].conn = Len(conns) + 1 /\ ~calls'[c].sent
<1> DEFINE conn == NewConn(IF kind = "udp" THEN "none" ELSE "test")
           n == Len(conns) + 1
           call == [calls[c] EXCEPT !.conn = n]
<1>1. /\ conns \in Seq(Conn) /\ Len(conns) \in Nat /\ cached \in 0 .. Len(conns)
      /\ calls \in [Callers -> InProgress \cup {Idle}]
      BY DEF SessionsTyped
<1>2. calls[c] # Idle /\ calls[c].conn = 0 /\ ~calls[c].sent
      BY DEF Dial, SessionsTyped
<1>3. calls[c] \in InProgress /\ calls[c].id \in 1 .. Len(asked)
      BY <1>1, <1>2 DEF SessionsTyped
<1>4. UNCHANGED <<kind, listening, admin, asked>>
      BY DEF Dial, server, history
<1>5. CASE ~(listening \/ kind = "udp")
  <2>1. calls' = [calls EXCEPT ![c] = Idle] /\ UNCHANGED <<conns, cached>>
        BY <1>5 DEF Dial
  <2>2. /\ calls' \in [Callers -> InProgress \cup {Idle}] /\ calls'[c] = Idle
        /\ \A d \in Callers \ {c} : calls'[d] = calls[d]
        BY <1>1, <2>1
  <2>3. SessionsTyped'
        BY <1>4, <2>1, <2>2 DEF SessionsTyped
  <2> QED BY <1>2, <2>1, <2>2, <2>3
<1>6. CASE listening \/ kind = "udp"
  <2>1. /\ conns' = Append(conns, conn)
        /\ calls' = [calls EXCEPT ![c] = call]
        /\ cached' = IF kind = "https" THEN 0 ELSE n
        BY <1>1, <1>3, <1>6 DEF Dial, InProgress
  <2>2. conn \in Conn /\ Clean(conn)
    <3>1. << >> \in Seq(Request) /\ << >> \in Seq(Nat)
          OBVIOUS
    <3>2. admin \in BOOLEAN
          BY DEF SessionsTyped
    <3> QED BY <3>1, <3>2 DEF NewConn, Conn, Clean
  <2>3. /\ call \in InProgress /\ call # Idle
        /\ call.id = calls[c].id /\ call.conn = n /\ ~call.sent
    <3>1. call \in InProgress
          BY <1>1, <1>3 DEF InProgress
    <3> QED BY <1>2, <1>3, <3>1, BusyIsNotIdle DEF InProgress
  <2> HIDE DEF conn, call
  <2>4. /\ conns' \in Seq(Conn) /\ Len(conns') = n
        /\ conns'[n] = conn /\ \A j \in 1 .. Len(conns) : conns'[j] = conns[j]
        BY <1>1, <2>1, <2>2
  <2>5. /\ calls' \in [Callers -> InProgress \cup {Idle}]
        /\ \A d \in Callers : calls'[d] = IF d = c THEN call ELSE calls[d]
        BY <1>1, <2>1, <2>3
  <2>6. \A d \in Callers : calls'[d] # Idle =>
          /\ calls'[d].id \in 1 .. Len(asked)
          /\ calls'[d].conn \in 0 .. n
          /\ calls'[d].sent => calls'[d].conn # 0
        BY <1>1, <1>3, <2>3, <2>5 DEF SessionsTyped
  <2>7. cached' \in 0 .. n
        BY <1>1, <2>1
  <2>8. SessionsTyped'
        BY <1>4, <2>4, <2>5, <2>6, <2>7 DEF SessionsTyped
  <2> QED BY <1>2, <2>1, <2>2, <2>3, <2>4, <2>5, <2>8
<1> QED BY <1>5, <1>6

\* A request joins those on the connection of its call.
LEMMA SendEffect ==
    ASSUME SessionsTyped, NEW c \in Callers, Send(c)
    PROVE  /\ SessionsTyped' /\ ~calls[c].sent
           /\ calls[c].conn \in 1 .. Len(conns) /\ calls[c].id \in 1 .. Len(asked)
           /\ Len(conns') = Len(conns)
           /\ \A j \in 1 .. Len(conns) : j # calls[c].conn => conns'[j] = conns[j]
           /\ conns'[calls[c].conn].replies = conns[calls[c].conn].replies
           /\ conns'[calls[c].conn].requests =
                Append(conns[calls[c].conn].requests,
                       [id |-> calls[c].id, bytes |-> Encode(asked[calls[c].id])])
           /\ calls[c] # Idle /\ calls'[c] # Idle /\ calls'[c].id = calls[c].id
           /\ calls'[c].conn = calls[c].conn /\ calls'[c].sent
           /\ \A d \in Callers \ {c} : calls'[d] = calls[d]
<1> DEFINE k == calls[c].conn
           request == [id |-> calls[c].id, bytes |-> Encode(asked[calls[c].id])]
           requests == Append(conns[k].requests, request)
           conn == [conns[k] EXCEPT !.requests = requests]
           call == [calls[c] EXCEPT !.sent = TRUE]
<1>1. /\ conns \in Seq(Conn) /\ Len(conns) \in Nat /\ cached \in 0 .. Len(conns)
      /\ calls \in [Callers -> InProgress \cup {Idle}] /\ asked \in Seq(Calls)
      BY DEF SessionsTyped
<1>2. calls[c] # Idle /\ k # 0 /\ ~calls[c].sent
      BY DEF Send
<1>3. /\ k \in 1 .. Len(conns) /\ calls[c].id \in 1 .. Len(asked)
      /\ calls[c] \in InProgress
      BY <1>1, <1>2 DEF SessionsTyped
<1>4. conns[k] \in Conn /\ request \in Request
      BY <1>1, <1>3 DEF Request
<1>5. conn \in Conn /\ conn.requests = requests /\ conn.replies = conns[k].replies
  <2>1. requests \in Seq(Request)
        BY <1>4 DEF Conn
  <2> HIDE DEF requests
  <2> QED BY <1>4, <2>1 DEF Conn
<1>6. conns' = [conns EXCEPT ![k] = conn]
      BY <1>1, <1>3, <1>4 DEF Send, Conn
<1>7. /\ call \in InProgress /\ call # Idle
      /\ call.id = calls[c].id /\ call.conn = k /\ call.sent
  <2>1. call \in InProgress
        BY <1>3 DEF InProgress
  <2> QED BY <1>3, <2>1, BusyIsNotIdle DEF InProgress
<1>8. calls' = [calls EXCEPT ![c] = call]
      BY <1>1, <1>3 DEF Send, InProgress
<1>9. UNCHANGED <<kind, listening, admin, cached, asked>>
      BY DEF Send, server, history
<1> HIDE DEF conn, call, request, requests, k
<1>10. /\ conns' \in Seq(Conn) /\ Len(conns') = Len(conns)
       /\ \A j \in 1 .. Len(conns) : conns'[j] = IF j = k THEN conn ELSE conns[j]
      BY <1>1, <1>3, <1>5, <1>6, OneConn
<1>11. /\ calls' \in [Callers -> InProgress \cup {Idle}]
       /\ \A d \in Callers : calls'[d] = IF d = c THEN call ELSE calls[d]
      BY <1>1, <1>7, <1>8
<1>12. \A d \in Callers : calls'[d] # Idle =>
         /\ calls'[d].id \in 1 .. Len(asked)
         /\ calls'[d].conn \in 0 .. Len(conns)
         /\ calls'[d].sent => calls'[d].conn # 0
      BY <1>3, <1>7, <1>11 DEF SessionsTyped
<1>13. SessionsTyped'
      BY <1>9, <1>10, <1>11, <1>12 DEF SessionsTyped
<1>14. conns'[k] = conn /\ calls'[c] = call
      BY <1>3, <1>10, <1>11
<1> QED BY <1>2, <1>3, <1>5, <1>7, <1>10, <1>11, <1>13, <1>14 DEF k, requests, request

\* A call takes the first answer on its connection.
LEMMA ReceiveEffect ==
    ASSUME SessionsTyped, NEW c \in Callers, Receive(c)
    PROVE  /\ SessionsTyped' /\ calls[c] # Idle /\ calls[c].sent /\ calls'[c] = Idle
           /\ calls[c].conn \in 1 .. Len(conns) /\ calls[c].id \in Nat
           /\ Len(conns') = Len(conns)
           /\ \A j \in 1 .. Len(conns) : j # calls[c].conn => conns'[j] = conns[j]
           /\ conns[calls[c].conn].replies \in Seq(Nat)
           /\ conns[calls[c].conn].replies # << >>
           /\ conns'[calls[c].conn].replies = Tail(conns[calls[c].conn].replies)
           /\ conns'[calls[c].conn].requests = conns[calls[c].conn].requests
           /\ \A d \in Callers \ {c} : calls'[d] = calls[d]
<1> DEFINE k == calls[c].conn
           replies == conns[k].replies
           rest == Tail(replies)
           conn == [conns[k] EXCEPT !.replies = rest, !.open = (kind # "https")]
<1>1. /\ conns \in Seq(Conn) /\ Len(conns) \in Nat /\ cached \in 0 .. Len(conns)
      /\ calls \in [Callers -> InProgress \cup {Idle}]
      BY DEF SessionsTyped
<1>2. calls[c] # Idle /\ calls[c].sent /\ replies # << >>
      BY DEF Receive
<1>3. k \in 1 .. Len(conns) /\ calls[c].id \in Nat
      BY <1>1, <1>2 DEF SessionsTyped
<1>4. conns[k] \in Conn
      BY <1>1, <1>3
<1>5. replies \in Seq(Nat)
      BY <1>4 DEF Conn
<1>6. conn \in Conn /\ conn.requests = conns[k].requests /\ conn.replies = rest
  <2>1. rest \in Seq(Nat)
        BY <1>2, <1>5, HeadAndTail
  <2> HIDE DEF rest
  <2> QED BY <1>4, <2>1 DEF Conn
<1>7. conns' = [conns EXCEPT ![k] = conn]
      BY <1>1, <1>3, <1>4 DEF Receive, Conn
<1>8. /\ calls' = [calls EXCEPT ![c] = Idle]
      /\ UNCHANGED <<kind, listening, admin, asked, cached>>
      BY DEF Receive, server
<1> HIDE DEF conn, rest, replies, k
<1>9. /\ conns' \in Seq(Conn) /\ Len(conns') = Len(conns)
      /\ \A j \in 1 .. Len(conns) : conns'[j] = IF j = k THEN conn ELSE conns[j]
      BY <1>1, <1>3, <1>6, <1>7, OneConn
<1>10. /\ calls' \in [Callers -> InProgress \cup {Idle}] /\ calls'[c] = Idle
       /\ \A d \in Callers \ {c} : calls'[d] = calls[d]
      BY <1>1, <1>8
<1>11. SessionsTyped'
      BY <1>8, <1>9, <1>10 DEF SessionsTyped
<1>12. conns'[k] = conn
      BY <1>3, <1>9
<1> QED BY <1>2, <1>3, <1>5, <1>6, <1>9, <1>10, <1>11, <1>12 DEF k, replies, rest

\* A call that fails, or is given up, takes its session with it.
LEMMA GiveUpEffect ==
    ASSUME SessionsTyped, NEW c \in Callers, Fail(c) \/ Timeout(c)
    PROVE  /\ SessionsTyped' /\ calls[c] # Idle /\ calls'[c] = Idle /\ cached' = 0
           /\ Len(conns') = Len(conns)
           /\ \A j \in 1 .. Len(conns) : SameTraffic(conns'[j], conns[j])
           /\ \A d \in Callers \ {c} : calls'[d] = calls[d]
<1>1. /\ conns \in Seq(Conn) /\ Len(conns) \in Nat /\ cached \in 0 .. Len(conns)
      /\ calls \in [Callers -> InProgress \cup {Idle}]
      BY DEF SessionsTyped
<1>2. /\ calls[c] # Idle /\ calls[c].conn # 0
      /\ GiveUp(c)
      /\ UNCHANGED <<kind, listening, admin, asked>>
  <2>1. calls[c].sent => calls[c].conn # 0 \/ calls[c] = Idle
        BY DEF SessionsTyped
  <2> QED BY <2>1 DEF Fail, Timeout, server, history
<1>3. calls[c].conn \in 1 .. Len(conns)
      BY <1>1, <1>2 DEF SessionsTyped
<1>4. \/ conns' = conns
      \/ \E k \in 1 .. Len(conns) : conns' = Closed(k)
      BY <1>1, <1>2, <1>3 DEF GiveUp
<1>5. /\ conns' \in Seq(Conn) /\ Len(conns') = Len(conns)
      /\ \A j \in 1 .. Len(conns) : SameTraffic(conns'[j], conns[j])
  <2>1. CASE conns' = conns
        BY <1>1, <2>1 DEF SameTraffic
  <2>2. CASE \E k \in 1 .. Len(conns) : conns' = Closed(k)
        BY <1>1, <2>2, ClosedKeeps
  <2> QED BY <1>4, <2>1, <2>2
<1>6. cached' = 0 /\ calls' = [calls EXCEPT ![c] = Idle]
      BY <1>2 DEF GiveUp
<1>7. /\ calls' \in [Callers -> InProgress \cup {Idle}] /\ calls'[c] = Idle
      /\ \A d \in Callers \ {c} : calls'[d] = calls[d]
      BY <1>1, <1>6
<1>8. SessionsTyped'
  <2>1. cached' \in 0 .. Len(conns')
        BY <1>1, <1>5, <1>6
  <2> QED BY <1>2, <1>5, <1>7, <2>1 DEF SessionsTyped
<1> QED BY <1>2, <1>5, <1>6, <1>7, <1>8

\* The client's Stop closes the session.
LEMMA StopClientEffect ==
    ASSUME SessionsTyped, StopClient
    PROVE  /\ SessionsTyped' /\ Len(conns') = Len(conns)
           /\ \A j \in 1 .. Len(conns) : SameTraffic(conns'[j], conns[j])
<1>1. /\ conns \in Seq(Conn) /\ Len(conns) \in Nat /\ cached \in 1 .. Len(conns)
      BY DEF SessionsTyped, StopClient
<1>2. /\ conns' = Closed(cached) /\ cached' = 0
      /\ UNCHANGED <<kind, listening, admin, calls, asked>>
      BY DEF StopClient, server, history
<1>3. /\ conns' \in Seq(Conn) /\ Len(conns') = Len(conns)
      /\ \A j \in 1 .. Len(conns) : SameTraffic(conns'[j], conns[j])
      BY <1>1, <1>2, ClosedKeeps
<1>4. SessionsTyped'
      BY <1>1, <1>2, <1>3 DEF SessionsTyped
<1> QED BY <1>3, <1>4

\* What the goroutine of a connection, or the network, makes of it: it has the same
\* requests and replies, or has served the first request.
Served(conn, old) ==
    /\ old.requests # << >> /\ conn.requests = Tail(old.requests)
    /\ conn.replies \in {old.replies, Append(old.replies, Head(old.requests).id)}

\* The server's end of a connection: it looks at the flag, reads, answers, ends.
LEMMA ServerEffect ==
    ASSUME SessionsTyped, NEW k \in DOMAIN conns,
           AcceptUDP(k) \/ TestRunning(k) \/ Serve(k) \/ HandlerEnds(k) \/ NetFault(k)
    PROVE  /\ k \in 1 .. Len(conns)
           /\ UNCHANGED <<server, cached, calls, asked, results>>
           /\ SessionsTyped' /\ Len(conns') = Len(conns)
           /\ \A j \in 1 .. Len(conns) : j # k => conns'[j] = conns[j]
           /\ \/ SameTraffic(conns'[k], conns[k]) /\ UNCHANGED done
              \/ Served(conns'[k], conns[k]) /\ Serve(k)
<1>1. /\ conns \in Seq(Conn) /\ k \in 1 .. Len(conns)
      /\ conns[k] \in Conn /\ admin \in BOOLEAN /\ listening \in BOOLEAN
      BY DEF SessionsTyped
<1>2. UNCHANGED <<server, cached, calls, asked, results>>
      BY DEF AcceptUDP, TestRunning, Serve, HandlerEnds, NetFault, history
<1> DEFINE Effect(conn) ==
               /\ conns' = [conns EXCEPT ![k] = conn]
               /\ \/ SameTraffic(conn, conns[k]) /\ UNCHANGED done
                  \/ Served(conn, conns[k]) /\ Serve(k)
<1>3. PICK conn \in Conn : Effect(conn)
  <2>1. CASE AcceptUDP(k)
    <3> DEFINE conn == [conns[k] EXCEPT !.handler = "test", !.admin = admin]
    <3>1. conn \in Conn /\ conns' = [conns EXCEPT ![k] = conn] /\ UNCHANGED done
          BY <1>1, <2>1 DEF AcceptUDP, Conn, history
    <3>2. SameTraffic(conn, conns[k])
          BY <1>1 DEF Conn, SameTraffic
    <3> HIDE DEF conn
    <3> QED BY <3>1, <3>2
  <2>2. CASE TestRunning(k)
    <3> DEFINE conn == [conns[k] EXCEPT !.handler = IF listening THEN "read" ELSE "ended"]
    <3>1. conn \in Conn /\ conns' = [conns EXCEPT ![k] = conn] /\ UNCHANGED done
          BY <1>1, <2>2 DEF TestRunning, Conn, history
    <3>2. SameTraffic(conn, conns[k])
          BY <1>1 DEF Conn, SameTraffic
    <3> HIDE DEF conn
    <3> QED BY <3>1, <3>2
  <2>3. CASE HandlerEnds(k)
    <3> DEFINE conn == [conns[k] EXCEPT !.handler = "ended"]
    <3>1. conn \in Conn /\ conns' = [conns EXCEPT ![k] = conn] /\ UNCHANGED done
          BY <1>1, <2>3 DEF HandlerEnds, Conn, history
    <3>2. SameTraffic(conn, conns[k])
          BY <1>1 DEF Conn, SameTraffic
    <3> HIDE DEF conn
    <3> QED BY <3>1, <3>2
  <2>4. CASE NetFault(k)
    <3> PICK n \in {"cut", "silent"} : conns' = [conns EXCEPT ![k].net = n]
        BY <2>4 DEF NetFault
    <3> DEFINE conn == [conns[k] EXCEPT !.net = n]
    <3>1. conn \in Conn /\ conns' = [conns EXCEPT ![k] = conn] /\ UNCHANGED done
          BY <1>1, <2>4 DEF NetFault, Conn, history
    <3>2. SameTraffic(conn, conns[k])
          BY <1>1 DEF Conn, SameTraffic
    <3> HIDE DEF conn
    <3> QED BY <3>1, <3>2
  <2>5. CASE Serve(k)
    <3> DEFINE requests == conns[k].requests
               rest == Tail(requests)
               request  == Head(requests)
               replies == Append(conns[k].replies, request.id)
    <3>1. requests \in Seq(Request) /\ conns[k].replies \in Seq(Nat) /\ conns[k].late \in Nat
          BY <1>1 DEF Conn
    <3>2. requests # << >>
          BY <2>5 DEF Serve, Reaches
    <3>3. request \in Request /\ rest \in Seq(Request)
          BY <3>1, <3>2, HeadAndTail
    <3>4. replies \in Seq(Nat)
      <4>1. request.id \in Nat
            BY <3>3 DEF Request
      <4> QED BY <3>1, <4>1
    <3>5. CASE Decode(request.bytes) = Undecodable
      <4> DEFINE conn == [conns[k] EXCEPT !.requests = rest, !.handler = "ended"]
      <4>1. conns' = [conns EXCEPT ![k] = conn]
            BY <1>1, <2>5, <3>5 DEF Serve, Conn
      <4> HIDE DEF rest
      <4>2. conn \in Conn
            BY <1>1, <3>3 DEF Conn
      <4>3. conn.requests = rest /\ conn.replies = conns[k].replies
            BY <1>1 DEF Conn
      <4>4. Served(conn, conns[k])
            BY <3>2, <4>3 DEF Served, rest
      <4> HIDE DEF conn
      <4> QED BY <2>5, <4>1, <4>2, <4>4
    <3>6. CASE Decode(request.bytes) # Undecodable
      <4> DEFINE late == IF listening THEN conns[k].late ELSE conns[k].late + 1
                 conn == [conns[k] EXCEPT
                            !.requests = rest,
                            !.replies = replies,
                            !.handler = IF kind = "https" THEN "ended" ELSE "test",
                            !.late = late]
      <4>1. conns' = [conns EXCEPT ![k] = conn]
            BY <1>1, <2>5, <3>6 DEF Serve, Conn
      <4>2. late \in Nat
            BY <3>1
      <4> HIDE DEF rest, replies, late
      <4>3. conn \in Conn
            BY <1>1, <3>3, <3>4, <4>2 DEF Conn
      <4>4. conn.requests = rest /\ conn.replies = replies
            BY <1>1 DEF Conn
      <4> HIDE DEF conn
      <4>5. Served(conn, conns[k])
            BY <3>2, <4>4 DEF Served, rest, replies
      <4> QED BY <2>5, <4>1, <4>3, <4>5
    <3> QED BY <3>5, <3>6
  <2> HIDE DEF Effect
  <2> QED BY <2>1, <2>2, <2>3, <2>4, <2>5
<1>4. /\ conns' \in Seq(Conn) /\ Len(conns') = Len(conns)
      /\ \A j \in 1 .. Len(conns) : conns'[j] = IF j = k THEN conn ELSE conns[j]
      BY <1>1, <1>3, OneConn
<1>5. SessionsTyped'
      BY <1>2, <1>4 DEF SessionsTyped, server
<1> QED BY <1>1, <1>2, <1>3, <1>4, <1>5

\* A step of Listen, Stop or the end of the server's process: it changes what
\* every connection is, and takes from what is on it.
LEMMA TurnEffect ==
    ASSUME SessionsTyped, (\E mode \in BOOLEAN : Listen(mode)) \/ Stop \/ Crash
    PROVE  /\ UNCHANGED <<kind, cached, calls, asked, done, results>>
           /\ SessionsTyped' /\ Len(conns') = Len(conns)
           /\ \A k \in 1 .. Len(conns) :
                /\ conns'[k].replies = conns[k].replies
                /\ conns'[k].requests \in {conns[k].requests, << >>}
<1> USE DEF history
<1>1. conns \in Seq(Conn)
      BY DEF SessionsTyped
<1>2. \A k \in 1 .. Len(conns) : conns[k] \in Conn
      BY <1>1
<1>3. DOMAIN conns = 1 .. Len(conns) /\ Len(conns) \in Nat
      BY <1>1
<1>4. UNCHANGED <<kind, cached, calls, asked, done, results>>
      BY DEF Listen, Stop, Crash
<1>5. listening' \in BOOLEAN /\ admin' \in BOOLEAN
      BY DEF SessionsTyped, Listen, Stop, Crash
<1>6. /\ conns' \in Seq(Conn) /\ Len(conns') = Len(conns)
      /\ \A k \in 1 .. Len(conns) :
           /\ conns'[k].replies = conns[k].replies
           /\ conns'[k].requests \in {conns[k].requests, << >>}
  <2>1. CASE \E mode \in BOOLEAN : Listen(mode)
    <3> DEFINE F(k) == [conns[k] EXCEPT !.late = 0]
    <3>1. conns' = [k \in DOMAIN conns |-> F(k)]
          BY <2>1 DEF Listen
    <3>2. \A k \in 1 .. Len(conns) : F(k) \in Conn
          BY <1>2 DEF Conn
    <3>3. \A k \in 1 .. Len(conns) :
            F(k).replies = conns[k].replies /\ F(k).requests = conns[k].requests
          BY <1>2 DEF Conn
    <3> HIDE DEF F
    <3> QED BY <1>3, <3>1, <3>2, <3>3
  <2>2. CASE Stop
    <3> DEFINE F(k) == IF kind = "https" THEN [conns[k] EXCEPT !.net = "cut"] ELSE conns[k]
    <3>1. conns' = [k \in DOMAIN conns |-> F(k)]
          BY <2>2 DEF Stop
    <3>2. \A k \in 1 .. Len(conns) : F(k) \in Conn
          BY <1>2 DEF Conn
    <3>3. \A k \in 1 .. Len(conns) :
            F(k).replies = conns[k].replies /\ F(k).requests = conns[k].requests
          BY <1>2 DEF Conn
    <3> HIDE DEF F
    <3> QED BY <1>3, <3>1, <3>2, <3>3
  <2>3. CASE Crash
    <3> DEFINE F(k) == [conns[k] EXCEPT !.handler = "ended", !.requests = << >>,
                                        !.net = IF kind = "udp" THEN @ ELSE "cut"]
    <3>1. conns' = [k \in DOMAIN conns |-> F(k)]
          BY <2>3 DEF Crash
    <3>2. \A k \in 1 .. Len(conns) : F(k) \in Conn
      <4> SUFFICES ASSUME NEW k \in 1 .. Len(conns) PROVE F(k) \in Conn
          OBVIOUS
      <4>1. << >> \in Seq(Request)
            OBVIOUS
      <4>2. conns[k] \in Conn
            BY <1>2
      <4> QED BY <4>1, <4>2 DEF Conn
    <3>3. \A k \in 1 .. Len(conns) :
            F(k).replies = conns[k].replies /\ F(k).requests = << >>
          BY <1>2 DEF Conn
    <3> HIDE DEF F
    <3> QED BY <1>3, <3>1, <3>2, <3>3
  <2> QED BY <2>1, <2>2, <2>3
<1>7. SessionsTyped'
      BY <1>4, <1>5, <1>6 DEF SessionsTyped
<1> QED BY <1>4, <1>6, <1>7

\* Every step keeps the types, whether calls on a session overlap or not.
LEMMA TypedStep == SessionsTyped /\ [Next]_vars => SessionsTyped'
<1> SUFFICES ASSUME SessionsTyped, [Next]_vars PROVE SessionsTyped'
    OBVIOUS
<1>1. ASSUME NEW c \in Callers, NEW call \in Calls, RPC(c, call) PROVE SessionsTyped'
      BY <1>1, RPCEffect
<1>2. ASSUME NEW c \in Callers, Dial(c) PROVE SessionsTyped'
      BY <1>2, DialEffect
<1>3. ASSUME NEW c \in Callers, Send(c) PROVE SessionsTyped'
      BY <1>3, SendEffect
<1>4. ASSUME NEW c \in Callers, Receive(c) PROVE SessionsTyped'
      BY <1>4, ReceiveEffect
<1>5. ASSUME NEW c \in Callers, Fail(c) \/ Timeout(c) PROVE SessionsTyped'
      BY <1>5, GiveUpEffect
<1>6. ASSUME NEW k \in DOMAIN conns,
             AcceptUDP(k) \/ TestRunning(k) \/ Serve(k) \/ HandlerEnds(k) \/ NetFault(k)
      PROVE  SessionsTyped'
      BY <1>6, ServerEffect
<1>7. CASE (\E mode \in BOOLEAN : Listen(mode)) \/ Stop \/ Crash
      BY <1>7, TurnEffect
<1>8. CASE StopClient
      BY <1>8, StopClientEffect
<1>9. CASE UNCHANGED vars
      BY <1>9 DEF vars, SessionsTyped
<1> QED BY <1>1, <1>2, <1>3, <1>4, <1>5, <1>6, <1>7, <1>8, <1>9 DEF Next

\* The types are an invariant.
LEMMA TypesHold == Spec => []SessionsTyped
<1>1. Init => SessionsTyped
  <2> SUFFICES ASSUME Init PROVE SessionsTyped
      OBVIOUS
  <2>1. << >> \in Seq(Conn) /\ << >> \in Seq(Calls) /\ Len(<< >>) = 0
        OBVIOUS
  <2>2. /\ calls \in [Callers -> InProgress \cup {Idle}]
        /\ \A c \in Callers : calls[c] = Idle
        BY DEF Init
  <2> QED BY <2>1, <2>2 DEF Init, SessionsTyped
<1> QED BY <1>1, TypedStep, PTL DEF Spec

-----------------------------------------------------------------------------
(***************************************************************************)
(* What is on a connection: nothing, or one request or its reply.          *)
(***************************************************************************)
Holds(conn, i) ==
    \/ Clean(conn)
    \/ Len(conn.requests) = 1 /\ conn.requests[1].id = i /\ conn.replies = << >>
    \/ Len(conn.replies) = 1 /\ conn.replies[1] = i /\ conn.requests = << >>

\* TLS and UDP make one call at a time, on the cached session.
SessionIsOwn ==
    kind # "https" =>
        /\ \A c, d \in Callers : calls[c] # Idle /\ calls[d] # Idle => c = d
        /\ \A c \in Callers : calls[c] # Idle => calls[c].conn = cached

\* HTTPS caches nothing and gives each call a connection of its own.
RequestIsOwn ==
    kind = "https" =>
        /\ cached = 0
        /\ \A c, d \in Callers :
             calls[c] # Idle /\ calls[d] # Idle /\ c # d /\ calls[c].conn # 0 =>
                 calls[c].conn # calls[d].conn

\* A session that waits for the next call has nothing under way.
CachedIsClean ==
    cached # 0 /\ (\A c \in Callers : calls[c] = Idle) => Clean(conns[cached])

\* The connection of a call carries that call or its answer, and no other.
TrafficIsOwn ==
    \A c \in Callers : calls[c] # Idle /\ calls[c].conn # 0 =>
        IF calls[c].sent THEN Holds(conns[calls[c].conn], calls[c].id)
                         ELSE Clean(conns[calls[c].conn])

SessionInv ==
    /\ SessionsTyped
    /\ SessionIsOwn /\ RequestIsOwn /\ CachedIsClean /\ TrafficIsOwn
    /\ OwnReply

\* A step of a server or of the network that adds nothing to a connection but the
\* answer to what is on it.
LEMMA ConnsStep ==
    ASSUME SessionInv, SessionsTyped', UNCHANGED <<kind, cached, calls, asked, results>>,
           \A k \in 1 .. Len(conns) :
               /\ Clean(conns[k]) => Clean(conns'[k])
               /\ \A i \in Nat : Holds(conns[k], i) => Holds(conns'[k], i)
    PROVE  SessionInv'
<1>1. SessionIsOwn' /\ RequestIsOwn' /\ OwnReply'
      BY DEF SessionInv, SessionIsOwn, RequestIsOwn, OwnReply
<1>2. CachedIsClean'
  <2> SUFFICES ASSUME cached # 0, \A c \in Callers : calls[c] = Idle
               PROVE  Clean(conns'[cached])
      BY DEF CachedIsClean, Clean
  <2>1. cached \in 1 .. Len(conns)
        BY DEF SessionInv, SessionsTyped
  <2> QED BY <2>1 DEF SessionInv, CachedIsClean
<1>3. TrafficIsOwn'
  <2> SUFFICES ASSUME NEW c \in Callers, calls[c] # Idle, calls[c].conn # 0
               PROVE  IF calls[c].sent THEN Holds(conns'[calls[c].conn], calls[c].id)
                                       ELSE Clean(conns'[calls[c].conn])
      BY DEF TrafficIsOwn, Holds, Clean
  <2>1. calls[c].conn \in 1 .. Len(conns) /\ calls[c].id \in Nat
        BY DEF SessionInv, SessionsTyped
  <2> QED BY <2>1 DEF SessionInv, TrafficIsOwn
<1> QED BY <1>1, <1>2, <1>3 DEF SessionInv

\* A connection holds what it held, or the answer to it.
LEMMA ServedHolds ==
    ASSUME NEW conn, NEW old \in Conn, SameTraffic(conn, old) \/ Served(conn, old)
    PROVE  /\ Clean(old) => Clean(conn)
           /\ \A i \in Nat : Holds(old, i) => Holds(conn, i)
<1>1. CASE SameTraffic(conn, old)
      BY <1>1 DEF SameTraffic, Clean, Holds
<1>2. CASE Served(conn, old)
  <2>1. old.requests \in Seq(Request) /\ old.requests # << >>
        BY <1>2 DEF Conn, Served
  <2>2. ASSUME NEW i \in Nat, Holds(old, i) PROVE Holds(conn, i)
    <3>1. Len(old.requests) = 1 /\ old.requests[1].id = i /\ old.replies = << >>
          BY <2>1, <2>2 DEF Holds, Clean
    <3>2. Head(old.requests).id = i /\ Tail(old.requests) = << >>
          BY <2>1, <3>1, HeadAndTail
    <3>3. conn.requests = << >> /\ conn.replies \in {<< >>, <<i>>}
          BY <1>2, <3>1, <3>2 DEF Served
    <3> QED BY <3>3 DEF Holds, Clean
  <2> QED BY <2>1, <2>2 DEF Clean
<1> QED BY <1>1, <1>2

\* The server's end of a connection.
LEMMA ServerStep ==
    ASSUME SessionInv, NEW k \in DOMAIN conns,
           AcceptUDP(k) \/ TestRunning(k) \/ Serve(k) \/ HandlerEnds(k) \/ NetFault(k)
    PROVE  SessionInv'
<1>1. SessionsTyped /\ conns \in Seq(Conn)
      BY DEF SessionInv, SessionsTyped
<1>2. /\ UNCHANGED <<kind, cached, calls, asked, results>>
      /\ SessionsTyped'
      BY <1>1, ServerEffect DEF server
<1>3. ASSUME NEW j \in 1 .. Len(conns)
      PROVE  SameTraffic(conns'[j], conns[j]) \/ Served(conns'[j], conns[j])
  <2>1. \/ SameTraffic(conns'[k], conns[k])
        \/ Served(conns'[k], conns[k])
        BY <1>1, ServerEffect
  <2>2. j # k => conns'[j] = conns[j]
        BY <1>1, ServerEffect
  <2> QED BY <2>1, <2>2 DEF SameTraffic
<1>4. ASSUME NEW j \in 1 .. Len(conns)
      PROVE  /\ Clean(conns[j]) => Clean(conns'[j])
             /\ \A i \in Nat : Holds(conns[j], i) => Holds(conns'[j], i)
  <2>1. conns[j] \in Conn
        BY <1>1
  <2> QED BY <1>3, <2>1, ServedHolds
<1> QED BY <1>2, <1>4, ConnsStep

\* Listen, Stop and the end of the server's process.
LEMMA TurnStep ==
    ASSUME SessionInv, (\E mode \in BOOLEAN : Listen(mode)) \/ Stop \/ Crash
    PROVE  SessionInv'
<1>1. SessionsTyped
      BY DEF SessionInv
<1>2. UNCHANGED <<kind, cached, calls, asked, results>> /\ SessionsTyped'
      BY <1>1, TurnEffect
<1>3. ASSUME NEW k \in 1 .. Len(conns)
      PROVE  /\ Clean(conns[k]) => Clean(conns'[k])
             /\ \A i \in Nat : Holds(conns[k], i) => Holds(conns'[k], i)
  <2>1. /\ conns'[k].replies = conns[k].replies
        /\ conns'[k].requests \in {conns[k].requests, << >>}
        BY <1>1, TurnEffect
  <2> QED BY <2>1 DEF Clean, Holds
<1> QED BY <1>2, <1>3, ConnsStep

\* A new call takes the cached session, on which nothing is under way.
LEMMA RPCStep ==
    ASSUME SessionInv, ~Overlap, NEW c \in Callers, NEW call \in Calls, RPC(c, call)
    PROVE  SessionInv'
<1>1. SessionsTyped
      BY DEF SessionInv
<1>2. /\ SessionsTyped'
      /\ calls'[c] # Idle /\ calls'[c].conn = cached /\ ~calls'[c].sent
      /\ \A d \in Callers \ {c} : calls'[d] = calls[d]
      BY <1>1, RPCEffect
<1>3. UNCHANGED <<kind, conns, cached, results>> /\ calls[c] = Idle
      BY DEF RPC, server
<1>4. kind # "https" => \A d \in Callers : calls[d] = Idle
      BY DEF RPC
<1>5. SessionIsOwn'
      BY <1>2, <1>3, <1>4 DEF SessionIsOwn
<1>6. RequestIsOwn'
      BY <1>2, <1>3 DEF SessionInv, RequestIsOwn
<1>7. CachedIsClean'
      BY <1>2 DEF CachedIsClean
<1>8. TrafficIsOwn'
  <2> SUFFICES ASSUME NEW d \in Callers, calls'[d] # Idle, calls'[d].conn # 0
               PROVE  IF calls'[d].sent THEN Holds(conns[calls'[d].conn], calls'[d].id)
                                        ELSE Clean(conns[calls'[d].conn])
      BY <1>3 DEF TrafficIsOwn, Holds, Clean
  <2>1. CASE d # c
        BY <2>1, <1>2 DEF SessionInv, TrafficIsOwn
  <2>2. CASE d = c
    <3>1. Clean(conns[cached])
          BY <2>2, <1>2, <1>4 DEF SessionInv, RequestIsOwn, CachedIsClean
    <3> QED BY <2>2, <3>1, <1>2
  <2> QED BY <2>1, <2>2
<1>9. OwnReply'
      BY <1>3 DEF SessionInv, OwnReply
<1> QED BY <1>2, <1>5, <1>6, <1>7, <1>8, <1>9 DEF SessionInv

\* A call ends: it returned, failed, or was given up.
LEMMA CallEnds ==
    ASSUME SessionInv, SessionsTyped', NEW c \in Callers, calls'[c] = Idle,
           \A d \in Callers \ {c} : calls'[d] = calls[d],
           UNCHANGED kind, cached' \in {0, cached}, OwnReply',
           \A d \in Callers \ {c} : calls[d] # Idle /\ calls[d].conn # 0 =>
               SameTraffic(conns'[calls[d].conn], conns[calls[d].conn]),
           cached' # 0 => Clean(conns'[cached]),
           kind # "https" => calls[c] # Idle
    PROVE  SessionInv'
<1>1. SessionIsOwn'
  <2> SUFFICES ASSUME kind # "https" PROVE \A d \in Callers : calls'[d] = Idle
      BY DEF SessionIsOwn
  <2> QED BY DEF SessionInv, SessionIsOwn
<1>2. RequestIsOwn'
      BY DEF SessionInv, RequestIsOwn
<1>3. CachedIsClean'
      BY DEF CachedIsClean, Clean
<1>4. TrafficIsOwn'
  <2> SUFFICES ASSUME NEW d \in Callers, calls'[d] # Idle, calls'[d].conn # 0
               PROVE  IF calls'[d].sent THEN Holds(conns'[calls'[d].conn], calls'[d].id)
                                        ELSE Clean(conns'[calls'[d].conn])
      BY DEF TrafficIsOwn, Holds, Clean
  <2>1. d # c /\ calls'[d] = calls[d]
        OBVIOUS
  <2>2. IF calls[d].sent THEN Holds(conns[calls[d].conn], calls[d].id)
                         ELSE Clean(conns[calls[d].conn])
        BY <2>1 DEF SessionInv, TrafficIsOwn
  <2>3. SameTraffic(conns'[calls[d].conn], conns[calls[d].conn])
        BY <2>1
  <2> QED BY <2>1, <2>2, <2>3 DEF Holds, Clean, SameTraffic
<1> QED BY <1>1, <1>2, <1>3, <1>4 DEF SessionInv

\* A call fails, or is given up.
LEMMA GiveUpStep ==
    ASSUME SessionInv, NEW c \in Callers, Fail(c) \/ Timeout(c)
    PROVE  SessionInv'
<1>1. SessionsTyped /\ Len(conns) \in Nat
      BY DEF SessionInv, SessionsTyped
<1>2. /\ SessionsTyped' /\ calls[c] # Idle /\ calls'[c] = Idle /\ cached' = 0
      /\ \A j \in 1 .. Len(conns) : SameTraffic(conns'[j], conns[j])
      /\ \A d \in Callers \ {c} : calls'[d] = calls[d]
      BY <1>1, GiveUpEffect
<1>3. UNCHANGED <<kind, results>>
      BY DEF Fail, Timeout, server, history
<1>4. OwnReply'
      BY <1>3 DEF SessionInv, OwnReply
<1>5. \A d \in Callers : calls[d] # Idle /\ calls[d].conn # 0 =>
          calls[d].conn \in 1 .. Len(conns)
      BY <1>1 DEF SessionsTyped
<1> QED BY <1>2, <1>3, <1>4, <1>5, CallEnds

\* A call takes the answer that is on its connection, its own.
LEMMA ReceiveStep ==
    ASSUME SessionInv, NEW c \in Callers, Receive(c)
    PROVE  SessionInv'
<1> DEFINE k == calls[c].conn
           replies == conns[k].replies
<1>1. SessionsTyped /\ Len(conns) \in Nat
      BY DEF SessionInv, SessionsTyped
<1>2. /\ SessionsTyped' /\ calls[c] # Idle /\ calls[c].sent /\ calls'[c] = Idle
      /\ k \in 1 .. Len(conns) /\ calls[c].id \in Nat
      /\ \A j \in 1 .. Len(conns) : j # k => conns'[j] = conns[j]
      /\ replies \in Seq(Nat) /\ replies # << >>
      /\ conns'[k].replies = Tail(replies) /\ conns'[k].requests = conns[k].requests
      /\ \A d \in Callers \ {c} : calls'[d] = calls[d]
      BY <1>1, ReceiveEffect
<1>3. Holds(conns[k], calls[c].id)
      BY <1>2 DEF SessionInv, TrafficIsOwn
<1>4. Len(replies) = 1 /\ replies[1] = calls[c].id /\ conns[k].requests = << >>
      BY <1>2, <1>3 DEF Holds, Clean
<1>5. Head(replies) = calls[c].id /\ Tail(replies) = << >>
      BY <1>2, <1>4, HeadAndTail
<1>6. /\ results' = results \cup {[id |-> calls[c].id, of |-> Head(replies)]}
      /\ UNCHANGED <<kind, cached>>
      BY DEF Receive, server
<1>7. OwnReply'
      BY <1>5, <1>6 DEF SessionInv, OwnReply
<1>8. Clean(conns'[k])
      BY <1>2, <1>4, <1>5 DEF Clean
<1>9. ASSUME NEW d \in Callers \ {c}, calls[d] # Idle, calls[d].conn # 0
       PROVE  SameTraffic(conns'[calls[d].conn], conns[calls[d].conn])
  <2>1. calls[d].conn \in 1 .. Len(conns)
        BY <1>1, <1>9 DEF SessionsTyped
  <2>2. kind = "https"
        BY <1>2, <1>9 DEF SessionInv, SessionIsOwn
  <2>3. calls[d].conn # k
        BY <1>2, <1>9, <2>2 DEF SessionInv, RequestIsOwn
  <2> QED BY <1>2, <2>1, <2>3 DEF SameTraffic
<1>10. cached' # 0 => Clean(conns'[cached])
  <2> SUFFICES ASSUME cached # 0 PROVE Clean(conns'[cached])
      BY <1>6
  <2>1. kind # "https"
        BY DEF SessionInv, RequestIsOwn
  <2>2. cached = k
        BY <1>2, <2>1 DEF SessionInv, SessionIsOwn
  <2> QED BY <1>8, <2>2
<1> QED BY <1>2, <1>6, <1>7, <1>9, <1>10, CallEnds

\* A call goes out on a connection on which nothing is.
LEMMA SendStep ==
    ASSUME SessionInv, NEW c \in Callers, Send(c)
    PROVE  SessionInv'
<1> DEFINE k == calls[c].conn
           request == [id |-> calls[c].id, bytes |-> Encode(asked[calls[c].id])]
<1>1. SessionsTyped /\ Len(conns) \in Nat
      BY DEF SessionInv, SessionsTyped
<1>2. /\ SessionsTyped' /\ ~calls[c].sent /\ k \in 1 .. Len(conns)
      /\ \A j \in 1 .. Len(conns) : j # k => conns'[j] = conns[j]
      /\ conns'[k].replies = conns[k].replies
      /\ conns'[k].requests = Append(conns[k].requests, request)
      /\ calls[c] # Idle /\ calls'[c] # Idle /\ calls'[c].id = calls[c].id
      /\ calls'[c].conn = k /\ calls'[c].sent
      /\ \A d \in Callers \ {c} : calls'[d] = calls[d]
      BY <1>1, SendEffect
<1>3. Clean(conns[k])
      BY <1>2 DEF SessionInv, TrafficIsOwn
<1>4. request.id = calls[c].id
      OBVIOUS
<1>5. Holds(conns'[k], calls[c].id)
  <2> HIDE DEF request
  <2>1. conns'[k].requests = <<request>> /\ conns'[k].replies = << >>
        BY <1>2, <1>3 DEF Clean
  <2> QED BY <1>4, <2>1 DEF Holds
<1>6. UNCHANGED <<kind, cached, results>>
      BY DEF Send, server, history
<1> HIDE DEF request
<1>7. SessionIsOwn'
      BY <1>2, <1>6 DEF SessionInv, SessionIsOwn
<1>8. RequestIsOwn'
      BY <1>2, <1>6 DEF SessionInv, RequestIsOwn
<1>9. CachedIsClean'
      BY <1>2 DEF CachedIsClean
<1>10. TrafficIsOwn'
  <2> SUFFICES ASSUME NEW d \in Callers, calls'[d] # Idle, calls'[d].conn # 0
               PROVE  IF calls'[d].sent THEN Holds(conns'[calls'[d].conn], calls'[d].id)
                                        ELSE Clean(conns'[calls'[d].conn])
      BY DEF TrafficIsOwn, Holds, Clean
  <2>1. CASE d = c
        BY <2>1, <1>2, <1>5
  <2>2. CASE d # c
    <3>1. calls'[d] = calls[d] /\ calls[d].conn \in 1 .. Len(conns)
          BY <2>2, <1>1, <1>2 DEF SessionsTyped
    <3>2. kind = "https"
          BY <2>2, <1>2, <3>1 DEF SessionInv, SessionIsOwn
    <3>3. calls[d].conn # k
          BY <2>2, <1>2, <3>1, <3>2 DEF SessionInv, RequestIsOwn
    <3>4. conns'[calls[d].conn] = conns[calls[d].conn]
          BY <1>2, <3>1, <3>3
    <3> QED BY <3>1, <3>4 DEF SessionInv, TrafficIsOwn
  <2> QED BY <2>1, <2>2
<1>11. OwnReply'
      BY <1>6 DEF SessionInv, OwnReply
<1> QED BY <1>2, <1>7, <1>8, <1>9, <1>10, <1>11 DEF SessionInv

\* A call makes a connection, on which nothing is, or fails.
LEMMA DialStep ==
    ASSUME SessionInv, NEW c \in Callers, Dial(c)
    PROVE  SessionInv'
<1> DEFINE n == Len(conns) + 1
<1>1. SessionsTyped /\ Len(conns) \in Nat
      BY DEF SessionInv, SessionsTyped
<1>2. calls[c] # Idle /\ calls[c].conn = 0 /\ UNCHANGED <<kind, results>>
      BY DEF Dial, server, history
<1>3. SessionsTyped' /\ \A d \in Callers \ {c} : calls'[d] = calls[d]
      BY <1>1, DialEffect
<1>4. OwnReply'
      BY <1>2 DEF SessionInv, OwnReply
<1>5. kind # "https" => cached = 0
      BY <1>2 DEF SessionInv, SessionIsOwn
<1>6. CASE calls'[c] = Idle /\ UNCHANGED <<conns, cached>>
  <2>1. cached = 0
        BY <1>5 DEF SessionInv, RequestIsOwn
  <2> QED BY <1>2, <1>3, <1>4, <1>6, <2>1, CallEnds DEF SameTraffic
<1>7. CASE ~(calls'[c] = Idle /\ UNCHANGED <<conns, cached>>)
  <2>1. /\ Len(conns') = n /\ \A j \in 1 .. Len(conns) : conns'[j] = conns[j]
        /\ Clean(conns'[n])
        /\ cached' = IF kind = "https" THEN 0 ELSE n
        /\ calls'[c] # Idle /\ calls'[c].conn = n /\ ~calls'[c].sent
        BY <1>1, <1>7, DialEffect
  <2>2. \A d \in Callers \ {c} : calls[d] # Idle =>
          /\ kind = "https"
          /\ calls[d].conn \in 0 .. Len(conns)
        BY <1>1, <1>2 DEF SessionInv, SessionsTyped, SessionIsOwn
  <2>3. SessionIsOwn'
        BY <1>2, <1>3, <2>1, <2>2 DEF SessionIsOwn
  <2>4. RequestIsOwn'
    <3> SUFFICES ASSUME kind = "https"
                 PROVE  /\ cached' = 0
                        /\ \A d, e \in Callers :
                             calls'[d] # Idle /\ calls'[e] # Idle /\ d # e
                                 /\ calls'[d].conn # 0 => calls'[d].conn # calls'[e].conn
        BY <1>2 DEF RequestIsOwn
    <3>1. \A d \in Callers \ {c} : calls[d] # Idle => calls[d].conn # n
          BY <1>1, <2>2
    <3> QED BY <1>3, <2>1, <3>1 DEF SessionInv, RequestIsOwn
  <2>5. CachedIsClean'
        BY <2>1 DEF CachedIsClean
  <2>6. TrafficIsOwn'
    <3> SUFFICES ASSUME NEW d \in Callers, calls'[d] # Idle, calls'[d].conn # 0
                 PROVE  IF calls'[d].sent THEN Holds(conns'[calls'[d].conn], calls'[d].id)
                                          ELSE Clean(conns'[calls'[d].conn])
        BY DEF TrafficIsOwn, Holds, Clean
    <3>1. CASE d = c
          BY <3>1, <2>1
    <3>2. CASE d # c
      <4>1. calls'[d] = calls[d] /\ calls[d].conn \in 1 .. Len(conns)
            BY <3>2, <1>1, <1>3, <2>2
      <4>2. conns'[calls[d].conn] = conns[calls[d].conn]
            BY <2>1, <4>1
      <4> QED BY <4>1, <4>2 DEF SessionInv, TrafficIsOwn
    <3> QED BY <3>1, <3>2
  <2> QED BY <1>3, <1>4, <2>3, <2>4, <2>5, <2>6 DEF SessionInv
<1> QED BY <1>6, <1>7

\* The client's Stop, when no call is in progress, closes the session.
LEMMA StopClientStep ==
    ASSUME SessionInv, StopClient
    PROVE  SessionInv'
<1>1. SessionsTyped'
      BY StopClientEffect DEF SessionInv
<1>2. cached' = 0 /\ UNCHANGED <<kind, calls, results>> /\ \A c \in Callers : calls[c] = Idle
      BY DEF StopClient, server, history
<1> QED BY <1>1, <1>2 DEF SessionInv, SessionIsOwn, RequestIsOwn, CachedIsClean,
                          TrafficIsOwn, OwnReply

\* SessionInv is an invariant, if calls on a session follow each other.
LEMMA SessionInvariant == ASSUME ~Overlap PROVE Spec => []SessionInv
<1>1. Init /\ SessionsTyped => SessionInv
      BY DEF Init, SessionInv, SessionIsOwn, RequestIsOwn, CachedIsClean, TrafficIsOwn, OwnReply
<1>2. SessionInv /\ [Next]_vars => SessionInv'
  <2> SUFFICES ASSUME SessionInv, [Next]_vars PROVE SessionInv'
      OBVIOUS
  <2>1. ASSUME NEW c \in Callers, NEW call \in Calls, RPC(c, call) PROVE SessionInv'
        BY <2>1, RPCStep
  <2>2. ASSUME NEW c \in Callers, Dial(c) PROVE SessionInv'
        BY <2>2, DialStep
  <2>3. ASSUME NEW c \in Callers, Send(c) PROVE SessionInv'
        BY <2>3, SendStep
  <2>4. ASSUME NEW c \in Callers, Receive(c) PROVE SessionInv'
        BY <2>4, ReceiveStep
  <2>5. ASSUME NEW c \in Callers, Fail(c) \/ Timeout(c) PROVE SessionInv'
        BY <2>5, GiveUpStep
  <2>6. ASSUME NEW k \in DOMAIN conns,
               AcceptUDP(k) \/ TestRunning(k) \/ Serve(k) \/ HandlerEnds(k) \/ NetFault(k)
        PROVE  SessionInv'
        BY <2>6, ServerStep
  <2>7. CASE (\E mode \in BOOLEAN : Listen(mode)) \/ Stop \/ Crash
        BY <2>7, TurnStep
  <2>8. CASE StopClient
        BY <2>8, StopClientStep
  <2>9. CASE UNCHANGED vars
        BY <2>9 DEF vars, SessionInv, SessionsTyped, SessionIsOwn, RequestIsOwn,
                    CachedIsClean, TrafficIsOwn, Clean, Holds, OwnReply
  <2> QED BY <2>1, <2>2, <2>3, <2>4, <2>5, <2>6, <2>7, <2>8, <2>9 DEF Next
<1> QED BY <1>1, <1>2, TypesHold, PTL DEF Spec

\* An RPC returns the answer to its own call, whatever was lost, late or cut off
\* before it, if the calls on a session follow each other as those of a poll
\* policy do (RPC of transports/tls, https and udp, and deleteCachedSession).
THEOREM RepliesAreOwn == ASSUME ~Overlap PROVE Spec => []OwnReply
<1>1. SessionInv => OwnReply
      BY DEF SessionInv
<1> QED BY <1>1, SessionInvariant, PTL
-----------------------------------------------------------------------------
(***************************************************************************)
(* Stop and the connections it leaves.                                     *)
(***************************************************************************)
\* A goroutine that served a call after Stop finds isRunning unset next.
IsLate(conn) == conn.late = 1 /\ conn.handler \in {"test", "ended"}

LateInv == \A k \in 1 .. Len(conns) : conns[k].late = 0 \/ (~listening /\ IsLate(conns[k]))

\* A step of one goroutine or of the network keeps LateInv.
LEMMA ServerLate ==
    ASSUME SessionsTyped, LateInv, NEW k \in DOMAIN conns,
           AcceptUDP(k) \/ TestRunning(k) \/ Serve(k) \/ HandlerEnds(k) \/ NetFault(k)
    PROVE  LateInv'
<1>1. conns \in Seq(Conn) /\ k \in 1 .. Len(conns) /\ listening \in BOOLEAN
      BY DEF SessionsTyped
<1>2. conns[k] \in Conn
      BY <1>1
<1>3. UNCHANGED listening /\ Len(conns') = Len(conns)
      BY <1>1 DEF AcceptUDP, TestRunning, Serve, HandlerEnds, NetFault, server
<1>4. \A j \in 1 .. Len(conns) : j # k => conns'[j] = conns[j]
      BY <1>1 DEF AcceptUDP, TestRunning, Serve, HandlerEnds, NetFault
<1>5. \/ conns'[k].late = 0
      \/ ~listening /\ IsLate(conns'[k])
  <2>1. conns[k].late = 0 \/ (~listening /\ IsLate(conns[k]))
        BY <1>1 DEF LateInv
  <2>2. CASE AcceptUDP(k)
        BY <1>1, <1>2, <2>1, <2>2 DEF AcceptUDP, Conn
  <2>3. CASE TestRunning(k)
        BY <1>1, <1>2, <2>1, <2>3 DEF TestRunning, Conn, IsLate
  <2>4. CASE Serve(k)
        BY <1>1, <1>2, <2>1, <2>4 DEF Serve, Conn, IsLate
  <2>5. CASE HandlerEnds(k)
        BY <1>1, <1>2, <2>1, <2>5 DEF HandlerEnds, Conn, IsLate
  <2>6. CASE NetFault(k)
        BY <1>1, <1>2, <2>1, <2>6 DEF NetFault, Conn, IsLate
  <2> QED BY <2>2, <2>3, <2>4, <2>5, <2>6
<1> QED BY <1>1, <1>3, <1>4, <1>5 DEF LateInv

\* A step of the client leaves alone what the goroutines served.
LEMMA ClientLate ==
    ASSUME SessionsTyped, LateInv, UNCHANGED <<server>>, Len(conns') \in Nat,
           \A k \in 1 .. Len(conns') :
               \/ conns'[k].late = 0
               \/ /\ k \in 1 .. Len(conns)
                  /\ conns'[k].late = conns[k].late /\ conns'[k].handler = conns[k].handler
    PROVE  LateInv'
<1>1. UNCHANGED listening
      BY DEF server
<1> SUFFICES ASSUME NEW k \in 1 .. Len(conns')
             PROVE  conns'[k].late = 0 \/ (~listening /\ IsLate(conns'[k]))
    BY <1>1 DEF LateInv, IsLate
<1>2. CASE conns'[k].late = 0
      BY <1>2
<1>3. CASE conns'[k].late # 0
      BY <1>3 DEF LateInv, IsLate
<1> QED BY <1>2, <1>3

\* Every step keeps LateInv.
LEMMA LateStep == SessionsTyped /\ LateInv /\ [Next]_vars => LateInv'
<1> SUFFICES ASSUME SessionsTyped, LateInv, [Next]_vars PROVE LateInv'
    OBVIOUS
<1>1. conns \in Seq(Conn) /\ Len(conns) \in Nat /\ DOMAIN conns = 1 .. Len(conns)
      BY DEF SessionsTyped
<1>2. \A k \in 1 .. Len(conns) : conns[k] \in Conn
      BY <1>1
<1>3. ASSUME NEW c \in Callers, NEW call \in Calls, RPC(c, call) PROVE LateInv'
      BY <1>3 DEF RPC, server, LateInv, IsLate
<1>4. ASSUME NEW c \in Callers, Dial(c) PROVE LateInv'
  <2> DEFINE conn == NewConn(IF kind = "udp" THEN "none" ELSE "test")
  <2>1. conn.late = 0
        BY DEF NewConn
  <2>2. conns' = Append(conns, conn) \/ conns' = conns
        BY <1>4 DEF Dial
  <2>3. UNCHANGED server
        BY <1>4 DEF Dial
  <2> HIDE DEF conn
  <2>4. Len(conns') \in Nat
        BY <1>1, <2>2
  <2>5. \A k \in 1 .. Len(conns') :
          IF k \in 1 .. Len(conns) THEN conns'[k] = conns[k] ELSE conns'[k] = conn
        BY <1>1, <2>2
  <2> QED BY <2>1, <2>3, <2>4, <2>5, ClientLate
<1>5. ASSUME NEW k, conns' = Closed(k), UNCHANGED server PROVE LateInv'
      BY <1>1, <1>2, <1>5, ClientLate DEF Closed, Conn
<1>6. ASSUME NEW c \in Callers, Send(c) PROVE LateInv'
  <2>1. UNCHANGED server
        BY <1>6 DEF Send
  <2> QED BY <1>1, <1>2, <1>6, <2>1, ClientLate DEF Send, Conn
<1>7. ASSUME NEW c \in Callers, Receive(c) PROVE LateInv'
  <2>1. UNCHANGED server
        BY <1>7 DEF Receive
  <2> QED BY <1>1, <1>2, <1>7, <2>1, ClientLate DEF Receive, Conn
<1>8. ASSUME NEW c \in Callers, Fail(c) \/ Timeout(c) PROVE LateInv'
  <2>1. UNCHANGED server /\ (conns' = conns \/ \E k : conns' = Closed(k))
        BY <1>8 DEF Fail, Timeout, GiveUp
  <2> QED BY <1>5, <2>1 DEF server, LateInv, IsLate
<1>9. ASSUME NEW k \in DOMAIN conns,
             AcceptUDP(k) \/ TestRunning(k) \/ Serve(k) \/ HandlerEnds(k) \/ NetFault(k)
      PROVE  LateInv'
      BY <1>9, ServerLate
<1>10. CASE \E mode \in BOOLEAN : Listen(mode)
       BY <1>1, <1>2, <1>10 DEF Listen, LateInv, Conn
<1>11. CASE Stop
  <2> DEFINE F(k) == IF kind = "https" THEN [conns[k] EXCEPT !.net = "cut"] ELSE conns[k]
  <2>1. conns' = [k \in 1 .. Len(conns) |-> F(k)] /\ listening
        BY <1>1, <1>11 DEF Stop
  <2>2. \A k \in 1 .. Len(conns) : F(k).late = 0
    <3> SUFFICES ASSUME NEW k \in 1 .. Len(conns) PROVE F(k).late = 0
        OBVIOUS
    <3>1. conns[k] \in Conn /\ conns[k].late = 0
          BY <1>2, <2>1 DEF LateInv
    <3> QED BY <3>1 DEF Conn
  <2> HIDE DEF F
  <2> QED BY <1>1, <2>1, <2>2 DEF LateInv
<1>12. CASE Crash
  <2> DEFINE F(k) == [conns[k] EXCEPT !.handler = "ended", !.requests = << >>,
                                      !.net = IF kind = "udp" THEN @ ELSE "cut"]
  <2>1. conns' = [k \in 1 .. Len(conns) |-> F(k)] /\ listening
        BY <1>1, <1>12 DEF Crash
  <2>2. \A k \in 1 .. Len(conns) : F(k).late = 0
    <3> SUFFICES ASSUME NEW k \in 1 .. Len(conns) PROVE F(k).late = 0
        OBVIOUS
    <3>1. conns[k] \in Conn /\ conns[k].late = 0
          BY <1>2, <2>1 DEF LateInv
    <3> QED BY <3>1 DEF Conn
  <2> HIDE DEF F
  <2> QED BY <1>1, <2>1, <2>2 DEF LateInv
<1>13. CASE StopClient
       BY <1>5, <1>13 DEF StopClient
<1>14. CASE UNCHANGED vars
       BY <1>14 DEF vars, LateInv, IsLate
<1> QED BY <1>3, <1>4, <1>6, <1>7, <1>8, <1>9, <1>10, <1>11, <1>12, <1>13, <1>14 DEF Next

\* After Stop a connection serves at most the one call it was waiting for, as its
\* goroutine looks at isRunning between two (handleConnection of transports/tls).
THEOREM OneCallAfterStop == Spec => []OneLateCall
<1>1. Init => LateInv
      BY DEF Init, LateInv
<1>2. LateInv /\ SessionsTyped => OneLateCall
      BY DEF LateInv, IsLate, OneLateCall, SessionsTyped
<1> QED BY <1>1, <1>2, LateStep, TypesHold, PTL DEF Spec
-----------------------------------------------------------------------------
(***************************************************************************)
(* A call on its way: what is written of it, and what is read.             *)
(***************************************************************************)
\* Induction up to a bound, with the property as a set.
LEMMA BoundedInduction ==
    ASSUME NEW N \in Nat, NEW S, 0 \in S, \A i \in 0 .. N : i < N /\ i \in S => i + 1 \in S
    PROVE  \A i \in 0 .. N : i \in S
<1> SUFFICES ASSUME NEW b \in 0 .. N, b \notin S
             PROVE  FALSE
    OBVIOUS
<1> DEFINE T == {i \in 0 .. N : i \notin S}
<1>1. T \subseteq Nat /\ T # {}
      OBVIOUS
<1>2. PICK k \in T : \A j \in T : ~ (<<j, k>> \in OpToRel(<, Nat))
      BY <1>1, NatLessThanWellFounded, WFMin
<1>3. \A j \in T : ~ (j < k)
      BY <1>1, <1>2 DEF OpToRel
<1>4. k # 0 /\ k \in 0 .. N
      BY <1>2
<1>5. k - 1 \in 0 .. N /\ k - 1 < N /\ k - 1 < k /\ (k - 1) + 1 = k
      BY <1>4
<1>6. k - 1 \in S
      BY <1>3, <1>5
<1> QED BY <1>2, <1>5, <1>6

\* What serialize makes of one more value.
Grown(blob, v) == IF Supported(v) THEN Append(blob, Write(v)) ELSE blob

\* The loop of serialize over an array, unfolded.
LEMMA WrittenUnfolds ==
    ASSUME NEW args, Len(args) \in Nat
    PROVE  \E buf : /\ Written(args) = buf[Len(args)] /\ buf[0] = << >>
                    /\ \A i \in 1 .. Len(args) : buf[i] = Grown(buf[i - 1], args[i])
<1> DEFINE N == Len(args)
           F(g, i) == IF i = 0 THEN << >>
                      ELSE IF Supported(args[i]) THEN Append(g[i - 1], Write(args[i]))
                      ELSE g[i - 1]
           Unfolds(g) == g = [i \in 0 .. N |-> F(g, i)]
           Follows(g, n) == g[0] = << >> /\ \A i \in 1 .. n : g[i] = Grown(g[i - 1], args[i])
           Good == {n \in Nat : \E g : Follows(g, n)}
           buf == CHOOSE g : Unfolds(g)
<1>0. Written(args) = buf[N]
      BY DEF Written
<1> HIDE DEF buf, N
<1>1. N \in Nat
      BY DEF N
<1>2. 0 \in Good
  <2>1. Follows([i \in {0} |-> << >>], 0)
        OBVIOUS
  <2> QED BY <2>1
<1>3. ASSUME NEW n \in 0 .. N, n < N, n \in Good PROVE n + 1 \in Good
  <2>1. PICK f : Follows(f, n)
        BY <1>3
  <2> DEFINE v == Grown(f[n], args[n + 1])
             g == [i \in 0 .. n + 1 |-> IF i <= n THEN f[i] ELSE v]
  <2> HIDE DEF v
  <2>2. n + 1 \in Nat /\ n \in Nat
        OBVIOUS
  <2>3. (\A i \in 0 .. n : g[i] = f[i]) /\ g[n + 1] = v
        BY <2>2
  <2> HIDE DEF g
  <2>4. g[0] = << >>
        BY <2>1, <2>2, <2>3
  <2>5. ASSUME NEW i \in 1 .. n + 1 PROVE g[i] = Grown(g[i - 1], args[i])
    <3>1. CASE i = n + 1
      <4>1. i - 1 = n /\ g[i - 1] = f[n]
            BY <2>2, <2>3, <3>1
      <4> QED BY <2>3, <3>1, <4>1 DEF v
    <3>2. CASE i # n + 1
      <4>1. i \in 1 .. n /\ i \in 0 .. n /\ i - 1 \in 0 .. n
            BY <2>2, <3>2
      <4> QED BY <2>1, <2>3, <4>1
    <3> QED BY <3>1, <3>2
  <2>6. Follows(g, n + 1)
        BY <2>4, <2>5
  <2> HIDE DEF Follows
  <2> QED BY <2>2, <2>6
<1>4. N \in Good
  <2> HIDE DEF Good
  <2>1. \A i \in 0 .. N : i \in Good
        BY <1>1, <1>2, <1>3, BoundedInduction
  <2> QED BY <1>1, <2>1
<1>5. PICK f : Follows(f, N)
      BY <1>4
<1> DEFINE h == [i \in 0 .. N |-> f[i]]
<1>6. Unfolds(h)
  <2>1. \A i \in 0 .. N : h[i] = F(h, i)
    <3> SUFFICES ASSUME NEW i \in 0 .. N PROVE h[i] = F(h, i)
        OBVIOUS
    <3>1. CASE i = 0
          BY <1>5, <3>1
    <3>2. CASE i # 0
      <4>1. i \in 1 .. N /\ i - 1 \in 0 .. N
            BY <1>1, <3>2
      <4>2. h[i] = Grown(h[i - 1], args[i])
            BY <1>5, <4>1
      <4> HIDE DEF h
      <4> QED BY <3>2, <4>2 DEF Grown
    <3> QED BY <3>1, <3>2
  <2>2. h = [i \in 0 .. N |-> h[i]]
        OBVIOUS
  <2> HIDE DEF h, F
  <2> QED BY <2>1, <2>2
<1>7. Unfolds(buf)
  <2> HIDE DEF Unfolds, h
  <2> QED BY <1>6 DEF buf
<1>8. \A i \in 0 .. N : buf[i] = F(buf, i)
      BY <1>7
<1>9. buf[0] = << >>
      BY <1>1, <1>8
<1>10. ASSUME NEW i \in 1 .. N PROVE buf[i] = Grown(buf[i - 1], args[i])
  <2>1. i \in 0 .. N /\ i # 0
        BY <1>1
  <2> QED BY <1>8, <2>1 DEF Grown
<1> QED BY <1>0, <1>9, <1>10 DEF N

\* Fewer values are written than there are, or each of them is, in its place.
LEMMA WrittenValues ==
    ASSUME NEW args, Len(args) \in Nat
    PROVE  /\ Len(Written(args)) \in Nat
           /\ Len(Written(args)) < Len(args) \/
                /\ Len(Written(args)) = Len(args)
                /\ \A i \in 1 .. Len(args) :
                     Supported(args[i]) /\ Written(args)[i] = Write(args[i])
<1> DEFINE N == Len(args)
           V == {Write(args[i]) : i \in 1 .. N}
<1>1. PICK buf : /\ Written(args) = buf[N] /\ buf[0] = << >>
                 /\ \A i \in 1 .. N : buf[i] = Grown(buf[i - 1], args[i])
      BY WrittenUnfolds
<1>2. N \in Nat /\ \A i \in 1 .. N : Write(args[i]) \in V
      OBVIOUS
<1> HIDE DEF N, V
<1> DEFINE Full(b, n) == /\ Len(b) = n
                         /\ \A i \in 1 .. n : Supported(args[i]) /\ b[i] = Write(args[i])
           Good(b, n) == b \in Seq(V) /\ (Len(b) < n \/ Full(b, n))
           S == {n \in 0 .. N : Good(buf[n], n)}
<1>3. 0 \in S
  <2>1. << >> \in Seq(V) /\ Len(<< >>) = 0 /\ 0 \in 0 .. N
        BY <1>2
  <2>2. Full(<< >>, 0)
        OBVIOUS
  <2>3. Good(<< >>, 0)
        BY <2>1, <2>2
  <2> HIDE DEF Good
  <2> QED BY <1>1, <2>1, <2>3
<1>4. ASSUME NEW n \in 0 .. N, n < N, n \in S PROVE n + 1 \in S
  <2> DEFINE b == buf[n]
             v == Write(args[n + 1])
             c == buf[n + 1]
  <2>1. n \in Nat /\ n + 1 \in 1 .. N /\ n + 1 \in 0 .. N /\ (n + 1) - 1 = n
        BY <1>2, <1>4
  <2>2. c = IF Supported(args[n + 1]) THEN Append(b, v) ELSE b
        BY <1>1, <2>1 DEF Grown
  <2>3. b \in Seq(V) /\ (Len(b) < n \/ Full(b, n)) /\ v \in V
        BY <1>2, <1>4, <2>1
  <2> HIDE DEF b, c, v, Full
  <2>4. Len(b) \in Nat
        BY <2>3
  <2>5. CASE ~Supported(args[n + 1])
    <3>1. c = b /\ Len(b) <= n
          BY <2>2, <2>1, <2>3, <2>4, <2>5 DEF Full
    <3>2. Good(c, n + 1)
          BY <2>1, <2>3, <2>4, <3>1
    <3> QED BY <2>1, <3>2 DEF c
  <2>6. CASE Supported(args[n + 1])
    <3>1. /\ c = Append(b, v) /\ c \in Seq(V) /\ Len(c) = Len(b) + 1
          /\ c[Len(b) + 1] = v /\ \A i \in 1 .. Len(b) : c[i] = b[i]
          BY <2>2, <2>3, <2>6
    <3>2. CASE Len(b) < n
      <4>1. Good(c, n + 1)
            BY <2>1, <2>4, <3>1, <3>2
      <4> QED BY <2>1, <4>1 DEF c
    <3>3. CASE Full(b, n)
      <4>1. Len(b) = n /\ \A i \in 1 .. n : Supported(args[i]) /\ b[i] = Write(args[i])
            BY <3>3 DEF Full
      <4>2. ASSUME NEW i \in 1 .. n + 1 PROVE Supported(args[i]) /\ c[i] = Write(args[i])
        <5>1. i \in 1 .. n \/ i = n + 1
              BY <2>1
        <5>2. CASE i \in 1 .. n
              BY <3>1, <4>1, <5>2
        <5>3. CASE i = n + 1
              BY <2>6, <3>1, <4>1, <5>3 DEF v
        <5> QED BY <5>1, <5>2, <5>3
      <4>3. Full(c, n + 1)
            BY <3>1, <4>1, <4>2 DEF Full
      <4>4. Good(c, n + 1)
            BY <3>1, <4>3
      <4> QED BY <2>1, <4>4 DEF c
    <3> QED BY <2>3, <3>2, <3>3
  <2> QED BY <2>5, <2>6
<1>5. N \in S
  <2> HIDE DEF S
  <2>1. \A i \in 0 .. N : i \in S
        BY <1>2, <1>3, <1>4, BoundedInduction
  <2> QED BY <1>2, <2>1
<1>6. Good(buf[N], N)
      BY <1>5
<1> QED BY <1>1, <1>6 DEF N

\* A value that is written is read back.
LEMMA ReadsWhatIsWritten ==
    ASSUME NEW v, Supported(v), IsValue(v)
    PROVE  Read(Write(v)) = v
<1> DEFINE order == Layout[v.type]
           w == Write(v)
<1>1. w.type = v.type /\ w.parts = [i \in DOMAIN order |-> v.value[order[i]]]
      BY DEF Write
<1>2. Read(w) = [type |-> v.type,
                 value |-> [f \in ToSet(order) |->
                              w.parts[CHOOSE i \in DOMAIN order : order[i] = f]]]
      BY <1>1 DEF Read, ReadLayout
<1>3. v = [type |-> v.type, value |-> [f \in ToSet(order) |-> v.value[f]]]
      BY DEF IsValue
<1> HIDE DEF order, w
<1>4. ASSUME NEW f \in ToSet(order)
      PROVE  w.parts[CHOOSE i \in DOMAIN order : order[i] = f] = v.value[f]
  <2>1. \E i \in DOMAIN order : order[i] = f
        BY DEF ToSet
  <2> DEFINE k == CHOOSE i \in DOMAIN order : order[i] = f
  <2>2. k \in DOMAIN order /\ order[k] = f
        BY <2>1
  <2> HIDE DEF k
  <2>3. w.parts[k] = v.value[f]
        BY <1>1, <2>2
  <2> QED BY <2>3 DEF k
<1>5. [f \in ToSet(order) |-> w.parts[CHOOSE i \in DOMAIN order : order[i] = f]]
        = [f \in ToSet(order) |-> v.value[f]]
      BY <1>4
<1>6. Read(w) = v
      BY <1>2, <1>3, <1>5
<1> QED BY <1>6 DEF w

\* What the server reads is the call that was made, or an error.
LEMMA CallsArrive ==
    ASSUME NEW call, IsCall(call)
    PROVE  Decode(Encode(call)) \in {call, Undecodable}
<1> DEFINE args == call.args
           blob == Written(args)
           m == Encode(call)
           got == [i \in 1 .. Len(args) |-> Read(blob[i])]
<1>1. m.action = call.action /\ m.count = Len(args) /\ m.blob = blob
      BY DEF Encode
<1>2. Decode(m) = IF Len(blob) < Len(args) THEN Undecodable
                  ELSE [action |-> call.action, args |-> got]
      BY <1>1 DEF Decode
<1>3. /\ Len(args) \in Nat /\ args = [i \in 1 .. Len(args) |-> args[i]]
      /\ \A i \in 1 .. Len(args) : IsValue(args[i])
      /\ call = [action |-> call.action, args |-> args]
      BY DEF IsCall
<1> HIDE DEF args, blob, m
<1>4. CASE Len(blob) < Len(args)
      BY <1>2, <1>4 DEF m
<1>5. CASE ~(Len(blob) < Len(args))
  <2>1. \A i \in 1 .. Len(args) : Supported(args[i]) /\ blob[i] = Write(args[i])
        BY <1>3, <1>5, WrittenValues DEF blob
  <2>2. \A i \in 1 .. Len(args) : Read(blob[i]) = args[i]
        BY <1>3, <2>1, ReadsWhatIsWritten
  <2>3. got = [i \in 1 .. Len(args) |-> args[i]]
        BY <2>2
  <2>4. got = args
        BY <1>3, <2>3
  <2> HIDE DEF got
  <2> QED BY <1>2, <1>3, <1>5, <2>4 DEF m
<1> QED BY <1>4, <1>5
-----------------------------------------------------------------------------
(***************************************************************************)
(* What the server performs.  A call that was made is at most in one place: *)
(* with its caller until it is sent, then on a connection, then performed. *)
(***************************************************************************)
Unsent(c) == calls[c] # Idle /\ ~calls[c].sent

\* The requests on connections are those that were asked for.
WireAsAsked ==
    \A k \in 1 .. Len(conns) : \A i \in 1 .. Len(conns[k].requests) :
        /\ conns[k].requests[i].id \in 1 .. Len(asked)
        /\ conns[k].requests[i].bytes = Encode(asked[conns[k].requests[i].id])

WireOnce ==
    \A k, l \in 1 .. Len(conns) :
        \A i \in 1 .. Len(conns[k].requests), j \in 1 .. Len(conns[l].requests) :
            conns[k].requests[i].id = conns[l].requests[j].id => k = l /\ i = j

UnsentOnce ==
    /\ \A c, d \in Callers : Unsent(c) /\ Unsent(d) /\ calls[c].id = calls[d].id => c = d
    /\ \A c \in Callers : Unsent(c) =>
         /\ \A k \in 1 .. Len(conns) : \A i \in 1 .. Len(conns[k].requests) :
              conns[k].requests[i].id # calls[c].id
         /\ \A i \in DOMAIN done : done[i].id # calls[c].id

DoneOnce ==
    \A n \in DOMAIN done :
        /\ done[n].id \in 1 .. Len(asked)
        /\ \A k \in 1 .. Len(conns) : \A i \in 1 .. Len(conns[k].requests) :
             conns[k].requests[i].id # done[n].id

Performance == [id : Nat, call : Calls, admin : BOOLEAN]

DoneInv ==
    /\ SessionsTyped /\ done \in Seq(Performance)
    /\ WireAsAsked /\ WireOnce /\ UnsentOnce /\ DoneOnce
    /\ DoneAsAsked

\* Two places with requests of the same number are one place.
LEMMA SameRequest ==
    ASSUME WireOnce, NEW k \in 1 .. Len(conns), NEW l \in 1 .. Len(conns),
           NEW i \in 1 .. Len(conns[k].requests), NEW j \in 1 .. Len(conns[l].requests),
           conns[k].requests[i].id = conns[l].requests[j].id
    PROVE  k = l /\ i = j
BY Zenon DEF WireOnce

\* What is left on a connection of the requests that were there.
Left(requests, old) == requests = old \/ (old # << >> /\ requests = Tail(old))

\* A step that takes requests from connections leaves the others as they were.
LEMMA WireShrinks ==
    ASSUME SessionsTyped, SessionsTyped', UNCHANGED asked, WireAsAsked, WireOnce,
           \A k \in 1 .. Len(conns') :
               \/ conns'[k].requests = << >>
               \/ k \in 1 .. Len(conns) /\ Left(conns'[k].requests, conns[k].requests)
    PROVE  /\ WireAsAsked' /\ WireOnce'
           /\ \A k \in 1 .. Len(conns') : \A i \in 1 .. Len(conns'[k].requests) :
                /\ k \in 1 .. Len(conns)
                /\ \E j \in 1 .. Len(conns[k].requests) :
                     conns'[k].requests[i] = conns[k].requests[j]
<1> DEFINE From(k, s) ==
               \A i \in 1 .. Len(conns'[k].requests) :
                   /\ k \in 1 .. Len(conns) /\ i + s \in 1 .. Len(conns[k].requests)
                   /\ conns'[k].requests[i] = conns[k].requests[i + s]
           taken(k) == CHOOSE s \in {0, 1} : From(k, s)
<1>1. ASSUME NEW k \in 1 .. Len(conns') PROVE \E s \in {0, 1} : From(k, s)
  <2> DEFINE new == conns'[k].requests
             old == conns[k].requests
  <2>1. new \in Seq(Request)
    <3>1. conns'[k] \in Conn
          BY DEF SessionsTyped
    <3> QED BY <3>1 DEF Conn
  <2>2. k \in 1 .. Len(conns) => old \in Seq(Request)
    <3> SUFFICES ASSUME k \in 1 .. Len(conns) PROVE old \in Seq(Request)
        OBVIOUS
    <3>1. conns[k] \in Conn
          BY DEF SessionsTyped
    <3> QED BY <3>1 DEF Conn
  <2>3. new = << >> \/ (k \in 1 .. Len(conns) /\ Left(new, old))
        OBVIOUS
  <2> HIDE DEF new, old
  <2>4. CASE new = << >>
    <3>1. 1 .. Len(new) = {}
          BY <2>4
    <3> QED BY <3>1 DEF new
  <2>5. CASE k \in 1 .. Len(conns) /\ new = old
    <3>1. \A i \in 1 .. Len(new) : i + 0 \in 1 .. Len(old) /\ new[i] = old[i + 0]
          BY <2>1, <2>5
    <3>2. From(k, 0)
          BY <2>5, <3>1 DEF new, old
    <3> HIDE DEF From
    <3> QED BY <3>2
  <2>6. CASE k \in 1 .. Len(conns) /\ old # << >> /\ new = Tail(old)
    <3>1. /\ Len(new) = Len(old) - 1 /\ Len(old) \in Nat \ {0}
          /\ \A i \in 1 .. Len(old) - 1 : new[i] = old[i + 1]
          BY <2>2, <2>6, HeadAndTail
    <3>2. \A i \in 1 .. Len(new) : i + 1 \in 1 .. Len(old) /\ new[i] = old[i + 1]
          BY <3>1
    <3>3. From(k, 1)
          BY <2>6, <3>2 DEF new, old
    <3> HIDE DEF From
    <3> QED BY <3>3
  <2> QED BY <2>3, <2>4, <2>5, <2>6 DEF Left
<1>2. ASSUME NEW k \in 1 .. Len(conns') PROVE taken(k) \in {0, 1} /\ From(k, taken(k))
  <2> HIDE DEF From
  <2> QED BY <1>1
<1> HIDE DEF taken
<1>3. WireAsAsked'
      BY <1>2 DEF WireAsAsked
<1>4. WireOnce'
  <2> SUFFICES ASSUME NEW k \in 1 .. Len(conns'), NEW l \in 1 .. Len(conns'),
                      NEW i \in 1 .. Len(conns'[k].requests),
                      NEW j \in 1 .. Len(conns'[l].requests),
                      conns'[k].requests[i].id = conns'[l].requests[j].id
               PROVE  k = l /\ i = j
      BY DEF WireOnce
  <2>1. /\ k \in 1 .. Len(conns) /\ i + taken(k) \in 1 .. Len(conns[k].requests)
        /\ conns'[k].requests[i] = conns[k].requests[i + taken(k)]
        BY <1>2
  <2>2. /\ l \in 1 .. Len(conns) /\ j + taken(l) \in 1 .. Len(conns[l].requests)
        /\ conns'[l].requests[j] = conns[l].requests[j + taken(l)]
        BY <1>2
  <2>3. k = l /\ i + taken(k) = j + taken(l)
    <3> DEFINE a == i + taken(k)
               b == j + taken(l)
    <3> HIDE DEF a, b
    <3>1. /\ a \in 1 .. Len(conns[k].requests) /\ b \in 1 .. Len(conns[l].requests)
          /\ conns[k].requests[a].id = conns[l].requests[b].id
          BY <2>1, <2>2 DEF a, b
    <3>2. k \in 1 .. Len(conns) /\ l \in 1 .. Len(conns) /\ WireOnce
          BY <2>1, <2>2
    <3>3. \A x \in 1 .. Len(conns[k].requests), y \in 1 .. Len(conns[l].requests) :
              conns[k].requests[x].id = conns[l].requests[y].id => k = l /\ x = y
          BY <3>2, Zenon DEF WireOnce
    <3>4. k = l /\ a = b
          BY <3>1, <3>3, Zenon
    <3> QED BY <3>4 DEF a, b
  <2>4. taken(k) = taken(l) /\ taken(k) \in {0, 1} /\ i \in Int /\ j \in Int
        BY <1>2, <2>3
  <2> QED BY <2>3, <2>4
<1>5. ASSUME NEW k \in 1 .. Len(conns'), NEW i \in 1 .. Len(conns'[k].requests)
      PROVE  /\ k \in 1 .. Len(conns)
             /\ \E j \in 1 .. Len(conns[k].requests) :
                  conns'[k].requests[i] = conns[k].requests[j]
      BY <1>2
<1> QED BY <1>3, <1>4, <1>5

\* A step that performs nothing, and at most takes requests from connections.
LEMMA NothingDone ==
    ASSUME DoneInv, SessionsTyped', UNCHANGED <<asked, done>>,
           \A k \in 1 .. Len(conns') :
               \/ conns'[k].requests = << >>
               \/ k \in 1 .. Len(conns) /\ Left(conns'[k].requests, conns[k].requests),
           \A c \in Callers : Unsent(c)' => Unsent(c) /\ calls'[c].id = calls[c].id
    PROVE  DoneInv'
<1>1. /\ WireAsAsked' /\ WireOnce'
      /\ \A k \in 1 .. Len(conns') : \A i \in 1 .. Len(conns'[k].requests) :
           /\ k \in 1 .. Len(conns)
           /\ \E j \in 1 .. Len(conns[k].requests) :
                conns'[k].requests[i] = conns[k].requests[j]
      BY WireShrinks DEF DoneInv
<1>2. UnsentOnce'
  <2>1. ASSUME NEW c \in Callers, NEW d \in Callers, Unsent(c)', Unsent(d)',
               calls'[c].id = calls'[d].id
        PROVE  c = d
        BY <2>1 DEF DoneInv, UnsentOnce
  <2>2. ASSUME NEW c \in Callers, Unsent(c)'
        PROVE  /\ \A k \in 1 .. Len(conns') : \A i \in 1 .. Len(conns'[k].requests) :
                    conns'[k].requests[i].id # calls'[c].id
               /\ \A i \in DOMAIN done : done[i].id # calls'[c].id
    <3>1. Unsent(c) /\ calls'[c].id = calls[c].id
          BY <2>2
    <3>2. /\ \A k \in 1 .. Len(conns) : \A i \in 1 .. Len(conns[k].requests) :
               conns[k].requests[i].id # calls[c].id
          /\ \A i \in DOMAIN done : done[i].id # calls[c].id
          BY <3>1 DEF DoneInv, UnsentOnce
    <3> QED BY <1>1, <3>1, <3>2
  <2> QED BY <2>1, <2>2 DEF UnsentOnce
<1>3. DoneOnce'
  <2> SUFFICES ASSUME NEW n \in DOMAIN done
               PROVE  /\ done[n].id \in 1 .. Len(asked)
                      /\ \A k \in 1 .. Len(conns') : \A i \in 1 .. Len(conns'[k].requests) :
                           conns'[k].requests[i].id # done[n].id
      BY DEF DoneOnce
  <2>1. /\ done[n].id \in 1 .. Len(asked)
        /\ \A k \in 1 .. Len(conns) : \A i \in 1 .. Len(conns[k].requests) :
             conns[k].requests[i].id # done[n].id
        BY DEF DoneInv, DoneOnce
  <2> QED BY <1>1, <2>1
<1>4. done' \in Seq(Performance) /\ DoneAsAsked'
      BY DEF DoneInv, DoneAsAsked
<1> QED BY <1>1, <1>2, <1>3, <1>4 DEF DoneInv

\* What is performed is what was asked for.
LEMMA PerformedAsAsked ==
    ASSUME DoneInv, NEW k \in 1 .. Len(conns), conns[k].requests # << >>, Serve(k)
    PROVE  \/ UNCHANGED done
           \/ \E p \in Performance :
                /\ done' = Append(done, p)
                /\ p.id = conns[k].requests[1].id /\ p.call = asked[p.id]
                /\ p.admin \/ p.call.action \in PublicActions
<1> DEFINE requests == conns[k].requests
           request == Head(requests)
           call == Decode(request.bytes)
           p == [id |-> request.id, call |-> call, admin |-> conns[k].admin]
<1>1. conns[k] \in Conn
      BY DEF DoneInv, SessionsTyped
<1>2. requests \in Seq(Request) /\ conns[k].admin \in BOOLEAN
      BY <1>1 DEF Conn
<1>3. request = requests[1] /\ 1 \in 1 .. Len(requests)
      BY <1>2, HeadAndTail
<1>4. request.id \in 1 .. Len(asked) /\ request.bytes = Encode(asked[request.id])
      BY <1>3 DEF DoneInv, WireAsAsked
<1>5. asked[request.id] \in Calls /\ request.id \in Nat
      BY <1>4 DEF DoneInv, SessionsTyped
<1>6. call \in {asked[request.id], Undecodable}
  <2>1. IsCall(asked[request.id])
        BY <1>5, SessionsAssumption
  <2> QED BY <1>4, <2>1, CallsArrive
<1>7. \/ UNCHANGED done
      \/ /\ call # Undecodable /\ Performed(call, conns[k].admin)
         /\ done' = Append(done, p)
      BY DEF Serve
<1>8. CASE UNCHANGED done
      BY <1>8
<1>9. CASE /\ call # Undecodable /\ Performed(call, conns[k].admin)
           /\ done' = Append(done, p)
  <2> HIDE DEF call, request
  <2>1. call = asked[request.id]
        BY <1>6, <1>9
  <2>2. conns[k].admin \/ call.action \in PublicActions
        BY <1>9 DEF Performed
  <2>3. /\ p \in Performance /\ p.id = request.id /\ p.call = call
        /\ p.admin = conns[k].admin
        BY <1>2, <1>5, <2>1 DEF Performance
  <2> HIDE DEF p
  <2> QED BY <1>3, <1>9, <2>1, <2>2, <2>3
<1> QED BY <1>7, <1>8, <1>9

\* The server takes a request from a connection, and may perform it.
LEMMA ServeDone ==
    ASSUME DoneInv, NEW k \in DOMAIN conns, Serve(k), Served(conns'[k], conns[k])
    PROVE  DoneInv'
<1> DEFINE id == conns[k].requests[1].id
<1>1. /\ k \in 1 .. Len(conns) /\ SessionsTyped' /\ Len(conns') = Len(conns)
      /\ UNCHANGED <<calls, asked>>
      /\ \A j \in 1 .. Len(conns) : j # k => conns'[j] = conns[j]
      BY ServerEffect DEF DoneInv
<1>2. /\ conns[k].requests # << >> /\ conns'[k].requests = Tail(conns[k].requests)
      BY DEF Served
<1>3. \A j \in 1 .. Len(conns') :
          j \in 1 .. Len(conns) /\ Left(conns'[j].requests, conns[j].requests)
      BY <1>1, <1>2 DEF Left
<1>4. \A c \in Callers : Unsent(c)' => Unsent(c) /\ calls'[c].id = calls[c].id
      BY <1>1 DEF Unsent
<1>5. CASE UNCHANGED done
      BY <1>1, <1>3, <1>4, <1>5, NothingDone
<1>6. ASSUME NEW p \in Performance, done' = Append(done, p),
             p.id = id, p.call = asked[p.id], p.admin \/ p.call.action \in PublicActions
      PROVE  DoneInv'
  <2>1. conns[k].requests \in Seq(Request)
    <3>1. conns[k] \in Conn
          BY DEF DoneInv, SessionsTyped
    <3> QED BY <3>1 DEF Conn
  <2>2. /\ 1 \in 1 .. Len(conns[k].requests)
        /\ Len(conns'[k].requests) = Len(conns[k].requests) - 1
        /\ \A i \in 1 .. Len(conns[k].requests) - 1 :
             conns'[k].requests[i] = conns[k].requests[i + 1]
        BY <1>2, <2>1, HeadAndTail
  <2>3. id \in 1 .. Len(asked)
        BY <1>1, <2>2 DEF DoneInv, WireAsAsked
  <2>4. /\ WireAsAsked' /\ WireOnce'
        /\ \A j \in 1 .. Len(conns') : \A i \in 1 .. Len(conns'[j].requests) :
             /\ j \in 1 .. Len(conns)
             /\ \E h \in 1 .. Len(conns[j].requests) :
                  conns'[j].requests[i] = conns[j].requests[h]
        BY <1>1, <1>3, WireShrinks DEF DoneInv
  <2>5. ASSUME NEW j \in 1 .. Len(conns'), NEW i \in 1 .. Len(conns'[j].requests)
        PROVE  conns'[j].requests[i].id # id
    <3>1. CASE j = k
      <4> DEFINE h == i + 1
      <4>1. /\ h \in 1 .. Len(conns[k].requests) /\ h # 1
            /\ conns'[k].requests[i] = conns[k].requests[h]
            BY <2>1, <2>2, <3>1
      <4> HIDE DEF h
      <4>2. WireOnce
            BY DEF DoneInv
      <4>3. conns[k].requests[h].id # id
            BY <1>1, <2>2, <4>1, <4>2, SameRequest
      <4> QED BY <3>1, <4>1, <4>3
    <3>2. CASE j # k
      <4>1. /\ j \in 1 .. Len(conns) /\ i \in 1 .. Len(conns[j].requests)
            /\ conns'[j].requests[i] = conns[j].requests[i]
            BY <1>1, <3>2
      <4>2. WireOnce
            BY DEF DoneInv
      <4> QED BY <1>1, <2>2, <3>2, <4>1, <4>2, SameRequest
    <3> QED BY <3>1, <3>2
  <2>6. \A n \in DOMAIN done : done[n].id # id
        BY <1>1, <2>2 DEF DoneInv, DoneOnce
  <2>7. \A c \in Callers : Unsent(c) => calls[c].id # id
        BY <1>1, <2>2 DEF DoneInv, UnsentOnce
  <2>8. /\ done' \in Seq(Performance) /\ Len(done) \in Nat
        /\ DOMAIN done = 1 .. Len(done) /\ DOMAIN done' = 1 .. Len(done) + 1
        /\ done'[Len(done) + 1] = p /\ \A n \in 1 .. Len(done) : done'[n] = done[n]
        BY <1>6 DEF DoneInv
  <2> HIDE DEF id
  <2>9. \A n \in DOMAIN done' : \/ n \in DOMAIN done /\ done'[n] = done[n]
                                \/ n = Len(done) + 1 /\ done'[n] = p
    <3> SUFFICES ASSUME NEW n \in DOMAIN done'
                 PROVE  \/ n \in DOMAIN done /\ done'[n] = done[n]
                        \/ n = Len(done) + 1 /\ done'[n] = p
        OBVIOUS
    <3>1. n \in 1 .. Len(done) + 1
          BY <2>8
    <3>2. n \in 1 .. Len(done) \/ n = Len(done) + 1
          BY <2>8, <3>1
    <3> QED BY <2>8, <3>2
  <2>10. UnsentOnce'
    <3>1. ASSUME NEW c \in Callers, NEW d \in Callers, Unsent(c)', Unsent(d)',
                 calls'[c].id = calls'[d].id
          PROVE  c = d
          BY <1>4, <3>1 DEF DoneInv, UnsentOnce
    <3>2. ASSUME NEW c \in Callers, Unsent(c)'
          PROVE  /\ \A j \in 1 .. Len(conns') : \A i \in 1 .. Len(conns'[j].requests) :
                      conns'[j].requests[i].id # calls'[c].id
                 /\ \A i \in DOMAIN done' : done'[i].id # calls'[c].id
      <4>1. Unsent(c) /\ calls'[c].id = calls[c].id /\ calls[c].id # id
            BY <1>4, <2>7, <3>2
      <4>2. /\ \A j \in 1 .. Len(conns) : \A i \in 1 .. Len(conns[j].requests) :
                 conns[j].requests[i].id # calls[c].id
            /\ \A i \in DOMAIN done : done[i].id # calls[c].id
            BY <4>1 DEF DoneInv, UnsentOnce
      <4>3. \A j \in 1 .. Len(conns') : \A i \in 1 .. Len(conns'[j].requests) :
                conns'[j].requests[i].id # calls'[c].id
            BY <2>4, <4>1, <4>2
      <4>4. \A i \in DOMAIN done' : done'[i].id # calls'[c].id
            BY <1>6, <2>9, <4>1, <4>2
      <4> QED BY <4>3, <4>4
    <3> QED BY <3>1, <3>2 DEF UnsentOnce
  <2>11. DoneOnce'
    <3> SUFFICES ASSUME NEW n \in DOMAIN done'
                 PROVE  /\ done'[n].id \in 1 .. Len(asked)
                        /\ \A j \in 1 .. Len(conns') : \A i \in 1 .. Len(conns'[j].requests) :
                             conns'[j].requests[i].id # done'[n].id
        BY <1>1 DEF DoneOnce
    <3>1. CASE n \in DOMAIN done /\ done'[n] = done[n]
      <4>1. /\ done[n].id \in 1 .. Len(asked)
            /\ \A j \in 1 .. Len(conns) : \A i \in 1 .. Len(conns[j].requests) :
                 conns[j].requests[i].id # done[n].id
            BY <3>1 DEF DoneInv, DoneOnce
      <4> QED BY <2>4, <3>1, <4>1
    <3>2. CASE done'[n] = p
          BY <1>6, <2>3, <2>5, <3>2
    <3> QED BY <2>9, <3>1, <3>2
  <2>12. DoneAsAsked'
    <3>1. ASSUME NEW n \in DOMAIN done'
          PROVE  /\ done'[n].call = asked'[done'[n].id]
                 /\ done'[n].admin \/ done'[n].call.action \in PublicActions
          BY <1>1, <1>6, <2>9, <3>1 DEF DoneInv, DoneAsAsked
    <3>2. ASSUME NEW m \in DOMAIN done', NEW n \in DOMAIN done', done'[m].id = done'[n].id
          PROVE  m = n
          BY <1>6, <2>6, <2>9, <3>2 DEF DoneInv, DoneAsAsked
    <3> QED BY <3>1, <3>2 DEF DoneAsAsked
  <2> QED BY <1>1, <2>4, <2>8, <2>10, <2>11, <2>12 DEF DoneInv
<1> QED BY <1>1, <1>2, <1>5, <1>6, PerformedAsAsked

\* A new call has a number of its own.
LEMMA RPCDone ==
    ASSUME DoneInv, NEW c \in Callers, NEW call \in Calls, RPC(c, call)
    PROVE  DoneInv'
<1>1. /\ SessionsTyped /\ Len(asked) \in Nat
      /\ \A d \in Callers : calls[d] # Idle => calls[d].id \in 1 .. Len(asked)
      BY DEF DoneInv, SessionsTyped
<1>2. /\ SessionsTyped' /\ Len(asked') = Len(asked) + 1
      /\ \A i \in 1 .. Len(asked) : asked'[i] = asked[i]
      /\ calls'[c].id = Len(asked) + 1
      /\ \A d \in Callers \ {c} : calls'[d] = calls[d]
      BY <1>1, RPCEffect
<1>3. UNCHANGED <<conns, done>>
      BY DEF RPC
<1>4. /\ Len(asked) + 1 \notin 1 .. Len(asked)
      /\ \A i \in 1 .. Len(asked) : i \in 1 .. Len(asked')
      BY <1>1, <1>2
<1>5. WireAsAsked' /\ WireOnce'
      BY <1>2, <1>3, <1>4 DEF DoneInv, WireAsAsked, WireOnce
<1>6. UnsentOnce'
  <2>1. ASSUME NEW d \in Callers, Unsent(d)'
        PROVE  \/ d = c
               \/ d # c /\ calls'[d] = calls[d] /\ Unsent(d) /\ calls[d].id \in 1 .. Len(asked)
        BY <1>1, <1>2, <2>1 DEF Unsent
  <2>2. ASSUME NEW d \in Callers, NEW e \in Callers, Unsent(d)', Unsent(e)',
               calls'[d].id = calls'[e].id
        PROVE  d = e
        BY <1>2, <1>4, <2>1, <2>2 DEF DoneInv, UnsentOnce
  <2>3. ASSUME NEW d \in Callers, Unsent(d)'
        PROVE  /\ \A k \in 1 .. Len(conns) : \A i \in 1 .. Len(conns[k].requests) :
                    conns[k].requests[i].id # calls'[d].id
               /\ \A i \in DOMAIN done : done[i].id # calls'[d].id
    <3>1. CASE d = c
          BY <1>2, <1>4, <3>1 DEF DoneInv, WireAsAsked, DoneOnce
    <3>2. CASE d # c /\ calls'[d] = calls[d] /\ Unsent(d)
          BY <3>2 DEF DoneInv, UnsentOnce
    <3> QED BY <2>1, <2>3, <3>1, <3>2
  <2> QED BY <1>3, <2>2, <2>3 DEF UnsentOnce
<1>7. DoneOnce'
      BY <1>3, <1>4 DEF DoneInv, DoneOnce
<1>8. DoneAsAsked'
      BY <1>2, <1>3 DEF DoneInv, DoneAsAsked, DoneOnce
<1>9. done' \in Seq(Performance)
      BY <1>3 DEF DoneInv
<1> QED BY <1>2, <1>5, <1>6, <1>7, <1>8, <1>9 DEF DoneInv

\* A call goes from its caller to a connection.
LEMMA SendDone ==
    ASSUME DoneInv, NEW c \in Callers, Send(c)
    PROVE  DoneInv'
<1> DEFINE k == calls[c].conn
           id == calls[c].id
           request == [id |-> id, bytes |-> Encode(asked[id])]
<1>1. SessionsTyped
      BY DEF DoneInv
<1>2. /\ SessionsTyped' /\ ~calls[c].sent
      /\ k \in 1 .. Len(conns) /\ id \in 1 .. Len(asked) /\ Len(conns') = Len(conns)
      /\ \A j \in 1 .. Len(conns) : j # k => conns'[j] = conns[j]
      /\ conns'[k].requests = Append(conns[k].requests, request)
      /\ calls[c] # Idle /\ calls'[c].sent
      /\ \A d \in Callers \ {c} : calls'[d] = calls[d]
      BY <1>1, SendEffect
<1>3. UNCHANGED <<asked, done>>
      BY DEF Send, history
<1>4. conns[k].requests \in Seq(Request)
  <2>1. conns[k] \in Conn
        BY <1>1, <1>2 DEF SessionsTyped
  <2> QED BY <2>1 DEF Conn
<1>5. /\ request.id = id /\ request.bytes = Encode(asked[id])
      /\ request \in Request
  <2>1. id \in Nat /\ asked[id] \in Calls
        BY <1>1, <1>2 DEF SessionsTyped
  <2> QED BY <2>1 DEF Request
<1> DEFINE n == Len(conns[k].requests)
<1> HIDE DEF request
<1>6. /\ n \in Nat /\ Len(conns'[k].requests) = n + 1
      /\ conns'[k].requests[n + 1] = request
      /\ \A i \in 1 .. n : conns'[k].requests[i] = conns[k].requests[i]
  <2> DEFINE old == conns[k].requests
  <2>1. old \in Seq(Request) /\ n = Len(old) /\ conns'[k].requests = Append(old, request)
        BY <1>2, <1>4
  <2> HIDE DEF old, n
  <2>2. /\ n \in Nat /\ Len(Append(old, request)) = n + 1
        /\ Append(old, request)[n + 1] = request
        /\ \A i \in 1 .. n : Append(old, request)[i] = old[i]
        BY <1>5, <2>1
  <2> QED BY <2>1, <2>2 DEF old
<1> HIDE DEF n
<1>7. ASSUME NEW j \in 1 .. Len(conns'), NEW i \in 1 .. Len(conns'[j].requests)
      PROVE  \/ j = k /\ i = n + 1 /\ conns'[j].requests[i] = request
             \/ /\ j \in 1 .. Len(conns) /\ i \in 1 .. Len(conns[j].requests)
                /\ conns'[j].requests[i] = conns[j].requests[i]
  <2>1. CASE j = k
    <3>1. i = n + 1 \/ i \in 1 .. n
          BY <1>6, <2>1
    <3> QED BY <1>2, <1>6, <2>1, <3>1 DEF n
  <2>2. CASE j # k
        BY <1>2, <2>2
  <2> QED BY <2>1, <2>2
<1>8. Unsent(c)
      BY <1>2 DEF Unsent
<1>9. /\ \A j \in 1 .. Len(conns) : \A i \in 1 .. Len(conns[j].requests) :
           conns[j].requests[i].id # id
      /\ \A i \in DOMAIN done : done[i].id # id
      BY <1>8 DEF DoneInv, UnsentOnce
<1>10. WireAsAsked'
  <2> SUFFICES ASSUME NEW j \in 1 .. Len(conns'), NEW i \in 1 .. Len(conns'[j].requests)
               PROVE  /\ conns'[j].requests[i].id \in 1 .. Len(asked)
                      /\ conns'[j].requests[i].bytes = Encode(asked[conns'[j].requests[i].id])
      BY <1>3 DEF WireAsAsked
  <2>1. CASE conns'[j].requests[i] = request
        BY <1>2, <1>5, <2>1
  <2>2. CASE /\ j \in 1 .. Len(conns) /\ i \in 1 .. Len(conns[j].requests)
             /\ conns'[j].requests[i] = conns[j].requests[i]
        BY <2>2 DEF DoneInv, WireAsAsked
  <2> QED BY <1>7, <2>1, <2>2
<1>11. WireOnce'
  <2> SUFFICES ASSUME NEW j \in 1 .. Len(conns'), NEW l \in 1 .. Len(conns'),
                      NEW i \in 1 .. Len(conns'[j].requests),
                      NEW h \in 1 .. Len(conns'[l].requests),
                      conns'[j].requests[i].id = conns'[l].requests[h].id
               PROVE  j = l /\ i = h
      BY DEF WireOnce
  <2>1. \/ j = k /\ i = n + 1 /\ conns'[j].requests[i] = request
        \/ /\ j \in 1 .. Len(conns) /\ i \in 1 .. Len(conns[j].requests)
           /\ conns'[j].requests[i] = conns[j].requests[i]
        BY <1>7
  <2>2. \/ l = k /\ h = n + 1 /\ conns'[l].requests[h] = request
        \/ /\ l \in 1 .. Len(conns) /\ h \in 1 .. Len(conns[l].requests)
           /\ conns'[l].requests[h] = conns[l].requests[h]
        BY <1>7
  <2>3. CASE conns'[j].requests[i] = request /\ conns'[l].requests[h] = request
        BY <1>5, <1>9, <2>1, <2>2, <2>3
  <2>4. CASE conns'[j].requests[i] = request /\ conns'[l].requests[h] # request
        BY <1>5, <1>9, <2>2, <2>4
  <2>5. CASE conns'[j].requests[i] # request /\ conns'[l].requests[h] = request
        BY <1>5, <1>9, <2>1, <2>5
  <2>6. CASE conns'[j].requests[i] # request /\ conns'[l].requests[h] # request
    <3>1. WireOnce
          BY DEF DoneInv
    <3>2. /\ j \in 1 .. Len(conns) /\ i \in 1 .. Len(conns[j].requests)
          /\ conns'[j].requests[i] = conns[j].requests[i]
          BY <2>1, <2>6
    <3>3. /\ l \in 1 .. Len(conns) /\ h \in 1 .. Len(conns[l].requests)
          /\ conns'[l].requests[h] = conns[l].requests[h]
          BY <2>2, <2>6
    <3>4. conns[j].requests[i].id = conns[l].requests[h].id
          BY <3>2, <3>3
    <3> QED BY <3>1, <3>2, <3>3, <3>4, SameRequest
  <2> QED BY <2>3, <2>4, <2>5, <2>6
<1>12. ASSUME NEW d \in Callers, Unsent(d)'
       PROVE  /\ d # c /\ calls'[d] = calls[d] /\ Unsent(d)
              /\ calls[d].id # id
  <2>1. d # c /\ calls'[d] = calls[d] /\ Unsent(d)
        BY <1>2, <1>12 DEF Unsent
  <2> QED BY <1>8, <2>1 DEF DoneInv, UnsentOnce
<1>13. UnsentOnce'
  <2>1. ASSUME NEW d \in Callers, NEW e \in Callers, Unsent(d)', Unsent(e)',
               calls'[d].id = calls'[e].id
        PROVE  d = e
        BY <1>12, <2>1 DEF DoneInv, UnsentOnce
  <2>2. ASSUME NEW d \in Callers, Unsent(d)'
        PROVE  /\ \A j \in 1 .. Len(conns') : \A i \in 1 .. Len(conns'[j].requests) :
                    conns'[j].requests[i].id # calls'[d].id
               /\ \A i \in DOMAIN done : done[i].id # calls'[d].id
    <3>1. calls'[d] = calls[d] /\ Unsent(d) /\ calls[d].id # id
          BY <1>12, <2>2
    <3>2. /\ \A j \in 1 .. Len(conns) : \A i \in 1 .. Len(conns[j].requests) :
               conns[j].requests[i].id # calls[d].id
          /\ \A i \in DOMAIN done : done[i].id # calls[d].id
          BY <3>1 DEF DoneInv, UnsentOnce
    <3> QED BY <1>5, <1>7, <3>1, <3>2
  <2> QED BY <1>3, <2>1, <2>2 DEF UnsentOnce
<1>14. DoneOnce'
  <2> SUFFICES ASSUME NEW m \in DOMAIN done
               PROVE  /\ done[m].id \in 1 .. Len(asked)
                      /\ \A j \in 1 .. Len(conns') : \A i \in 1 .. Len(conns'[j].requests) :
                           conns'[j].requests[i].id # done[m].id
      BY <1>3 DEF DoneOnce
  <2>1. /\ done[m].id \in 1 .. Len(asked)
        /\ \A j \in 1 .. Len(conns) : \A i \in 1 .. Len(conns[j].requests) :
             conns[j].requests[i].id # done[m].id
        BY DEF DoneInv, DoneOnce
  <2> QED BY <1>5, <1>7, <1>9, <2>1
<1>15. done' \in Seq(Performance) /\ DoneAsAsked'
      BY <1>3 DEF DoneInv, DoneAsAsked
<1> QED BY <1>2, <1>10, <1>11, <1>13, <1>14, <1>15 DEF DoneInv

\* The other steps of a client perform nothing and send nothing.
LEMMA ClientDone ==
    ASSUME DoneInv, NEW c \in Callers, Dial(c) \/ Receive(c) \/ Fail(c) \/ Timeout(c)
    PROVE  DoneInv'
<1>1. SessionsTyped /\ Len(conns) \in Nat /\ Idle.id = 0
      BY DEF DoneInv, SessionsTyped, Idle
<1>2. UNCHANGED <<asked, done>>
      BY DEF Dial, Receive, Fail, Timeout, history
<1>3. CASE Dial(c)
  <2>1. /\ SessionsTyped' /\ ~calls[c].sent
        /\ \A d \in Callers \ {c} : calls'[d] = calls[d]
        BY <1>1, <1>3, DialEffect
  <2>2. CASE calls'[c] = Idle /\ UNCHANGED conns
    <3>1. \A d \in Callers : Unsent(d)' => Unsent(d) /\ calls'[d].id = calls[d].id
          BY <2>1, <2>2 DEF Unsent
    <3>2. \A k \in 1 .. Len(conns') :
              k \in 1 .. Len(conns) /\ Left(conns'[k].requests, conns[k].requests)
          BY <2>2 DEF Left
    <3> QED BY <1>2, <2>1, <3>1, <3>2, NothingDone
  <2>3. CASE ~(calls'[c] = Idle /\ UNCHANGED conns)
    <3>1. /\ Len(conns') = Len(conns) + 1
          /\ \A j \in 1 .. Len(conns) : conns'[j] = conns[j]
          /\ Clean(conns'[Len(conns) + 1])
          /\ calls'[c].id = calls[c].id
          BY <1>1, <1>3, <2>3, DialEffect
    <3>2. calls[c] # Idle
          BY <1>3 DEF Dial
    <3>3. \A d \in Callers : Unsent(d)' => Unsent(d) /\ calls'[d].id = calls[d].id
          BY <2>1, <3>1, <3>2 DEF Unsent
    <3>4. \A k \in 1 .. Len(conns') :
              \/ conns'[k].requests = << >>
              \/ k \in 1 .. Len(conns) /\ Left(conns'[k].requests, conns[k].requests)
          BY <1>1, <3>1 DEF Clean, Left
    <3> QED BY <1>2, <2>1, <3>3, <3>4, NothingDone
  <2> QED BY <2>2, <2>3
<1>4. CASE Receive(c)
  <2>1. /\ SessionsTyped' /\ calls'[c] = Idle /\ Len(conns') = Len(conns)
        /\ \A j \in 1 .. Len(conns) : j # calls[c].conn => conns'[j] = conns[j]
        /\ conns'[calls[c].conn].requests = conns[calls[c].conn].requests
        /\ \A d \in Callers \ {c} : calls'[d] = calls[d]
        BY <1>1, <1>4, ReceiveEffect
  <2>2. \A d \in Callers : Unsent(d)' => Unsent(d) /\ calls'[d].id = calls[d].id
        BY <2>1 DEF Unsent
  <2>3. \A k \in 1 .. Len(conns') :
            k \in 1 .. Len(conns) /\ Left(conns'[k].requests, conns[k].requests)
        BY <2>1 DEF Left
  <2> QED BY <1>2, <2>1, <2>2, <2>3, NothingDone
<1>5. CASE Fail(c) \/ Timeout(c)
  <2>1. /\ SessionsTyped' /\ calls'[c] = Idle /\ Len(conns') = Len(conns)
        /\ \A j \in 1 .. Len(conns) : SameTraffic(conns'[j], conns[j])
        /\ \A d \in Callers \ {c} : calls'[d] = calls[d]
        BY <1>1, <1>5, GiveUpEffect
  <2>2. \A d \in Callers : Unsent(d)' => Unsent(d) /\ calls'[d].id = calls[d].id
        BY <2>1 DEF Unsent
  <2>3. \A k \in 1 .. Len(conns') :
            k \in 1 .. Len(conns) /\ Left(conns'[k].requests, conns[k].requests)
        BY <2>1 DEF Left, SameTraffic
  <2> QED BY <1>2, <2>1, <2>2, <2>3, NothingDone
<1> QED BY <1>3, <1>4, <1>5

\* Every step keeps DoneInv.
LEMMA DoneStep == DoneInv /\ [Next]_vars => DoneInv'
<1> SUFFICES ASSUME DoneInv, [Next]_vars PROVE DoneInv'
    OBVIOUS
<1>1. SessionsTyped
      BY DEF DoneInv
<1>2. ASSUME NEW c \in Callers, NEW call \in Calls, RPC(c, call) PROVE DoneInv'
      BY <1>2, RPCDone
<1>3. ASSUME NEW c \in Callers, Send(c) PROVE DoneInv'
      BY <1>3, SendDone
<1>4. ASSUME NEW c \in Callers, Dial(c) \/ Receive(c) \/ Fail(c) \/ Timeout(c) PROVE DoneInv'
      BY <1>4, ClientDone
<1>5. ASSUME NEW k \in DOMAIN conns,
             AcceptUDP(k) \/ TestRunning(k) \/ Serve(k) \/ HandlerEnds(k) \/ NetFault(k)
      PROVE  DoneInv'
  <2>1. /\ k \in 1 .. Len(conns) /\ SessionsTyped' /\ Len(conns') = Len(conns)
        /\ UNCHANGED <<calls, asked>>
        /\ \A j \in 1 .. Len(conns) : j # k => conns'[j] = conns[j]
        BY <1>1, <1>5, ServerEffect
  <2>2. CASE SameTraffic(conns'[k], conns[k]) /\ UNCHANGED done
    <3>1. \A c \in Callers : Unsent(c)' => Unsent(c) /\ calls'[c].id = calls[c].id
          BY <2>1 DEF Unsent
    <3>2. \A j \in 1 .. Len(conns') :
              j \in 1 .. Len(conns) /\ Left(conns'[j].requests, conns[j].requests)
          BY <2>1, <2>2 DEF SameTraffic, Left
    <3> QED BY <2>1, <2>2, <3>1, <3>2, NothingDone
  <2>3. CASE Served(conns'[k], conns[k]) /\ Serve(k)
        BY <2>3, ServeDone
  <2> QED BY <1>1, <1>5, <2>2, <2>3, ServerEffect
<1>6. CASE (\E mode \in BOOLEAN : Listen(mode)) \/ Stop \/ Crash
  <2>1. /\ UNCHANGED <<calls, asked, done>> /\ SessionsTyped' /\ Len(conns') = Len(conns)
        /\ \A k \in 1 .. Len(conns) : conns'[k].requests \in {conns[k].requests, << >>}
        BY <1>1, <1>6, TurnEffect
  <2>2. \A c \in Callers : Unsent(c)' => Unsent(c) /\ calls'[c].id = calls[c].id
        BY <2>1 DEF Unsent
  <2>3. \A k \in 1 .. Len(conns') :
            \/ conns'[k].requests = << >>
            \/ k \in 1 .. Len(conns) /\ Left(conns'[k].requests, conns[k].requests)
        BY <2>1 DEF Left
  <2> QED BY <2>1, <2>2, <2>3, NothingDone
<1>7. CASE StopClient
  <2>1. /\ SessionsTyped' /\ Len(conns') = Len(conns)
        /\ \A j \in 1 .. Len(conns) : SameTraffic(conns'[j], conns[j])
        BY <1>1, <1>7, StopClientEffect
  <2>2. UNCHANGED <<calls, asked, done>>
        BY <1>7 DEF StopClient, history
  <2>3. \A c \in Callers : Unsent(c)' => Unsent(c) /\ calls'[c].id = calls[c].id
        BY <2>2 DEF Unsent
  <2>4. \A k \in 1 .. Len(conns') :
            k \in 1 .. Len(conns) /\ Left(conns'[k].requests, conns[k].requests)
        BY <2>1 DEF Left, SameTraffic
  <2> QED BY <2>1, <2>2, <2>3, <2>4, NothingDone
<1>8. CASE UNCHANGED vars
      BY <1>8 DEF vars, DoneInv, SessionsTyped, WireAsAsked, WireOnce, UnsentOnce, Unsent,
                  DoneOnce, DoneAsAsked
<1> QED BY <1>2, <1>3, <1>4, <1>5, <1>6, <1>7, <1>8 DEF Next

\* The server does what the client asked for, with the arguments it was given, at
\* most once, and on a connection accepted for the public only what is public
\* (serialize and deserialize of api/remoting.go, AdminRPC and PublicRPC of
\* nodes/rpc.go, and the connections of transports/tls, https and udp).
THEOREM CallsAreDoneAsAsked == Spec => []DoneAsAsked
<1>1. Init /\ SessionsTyped => DoneInv
  <2> SUFFICES ASSUME Init, SessionsTyped PROVE DoneInv
      OBVIOUS
  <2>1. done = << >> /\ done \in Seq(Performance) /\ DOMAIN done = {}
        BY DEF Init
  <2>2. Len(conns) = 0 /\ \A c \in Callers : ~Unsent(c)
        BY DEF Init, Unsent
  <2> QED BY <2>1, <2>2 DEF DoneInv, WireAsAsked, WireOnce, UnsentOnce, DoneOnce, DoneAsAsked
<1>2. DoneInv => DoneAsAsked
      BY DEF DoneInv
<1> QED BY <1>1, <1>2, DoneStep, TypesHold, PTL DEF Spec
=============================================================================
