-------------------------- MODULE LifecycleProofs --------------------------
(***************************************************************************)
(* Theorems about what is started and stopped: NodeLife, a node with its   *)
(* transport and its input loops, and P2P, for every set of peers and      *)
(* ranks.                                                                  *)
(***************************************************************************)
EXTENDS NodeLife, P2P, FiniteSetTheorems, SequenceTheorems, TLAPS

-----------------------------------------------------------------------------
(***************************************************************************)
(* The transport of a node, while one caller starts and stops it.          *)
(***************************************************************************)
\* Nothing listens; between net.Listen and the flag; listening (an HTTPS server may
\* have found its port taken); a node was started, perhaps without its port.
Down   == ~up /\ listener = "none" /\ accepting = 0
Opened == /\ ~up /\ accepting = 0
          /\ IF kind = "https" THEN refused # "no" \/ listener # "none" ELSE listener = "open"
Up     == /\ up
          /\ IF kind = "https" THEN accepting = 0 /\ (refused # "no" \/ listener # "none")
                               ELSE accepting = 1 /\ listener = "open"
Started == Up \/ (refused # "no" /\ Down)

\* Between the flag and the closing of the listener; waiting for the goroutine.
Closing ==
    IF kind = "https" THEN listener = "none" /\ accepting = 0
                      ELSE ~up /\ (Down \/ (accepting = 1 /\ listener = "open"))
Waiting == /\ ~up /\ accepting \in {0, 1}
           /\ listener # "pending" /\ (accepting = 0 => listener = "none")
           /\ kind = "https" => accepting = 0

\* Where the transport is, by the place of the one that calls Start and Stop.
Phase(l) ==
    /\ l = "idle"      => IF running THEN Started ELSE Down
    /\ l = "flag"      => IF node = "map" THEN Started ELSE Down
    /\ l = "listen"    => Down /\ (node = "sql" => running)
    /\ l = "listening" => Opened /\ (node = "sql" => running)
    /\ l = "loop"      => Started /\ running
    /\ l = "stop"      => Started \/ Down
    /\ l = "close"     => Closing
    /\ l = "wait"      => Waiting
    /\ l = "unflag"    => Down

\* TLS closes its own listener, under the mutex, before Stop waits.
TlsClean == kind = "tls" => refused # "own" /\ ~oldSocket

\* Phase holds unless HTTPS had no server to close, in which case its caller is gone.
LifeInv(c) ==
    /\ node \in {"map", "sql"} /\ kind \in {"tls", "https", "udp"}
    /\ running \in BOOLEAN /\ up \in BOOLEAN /\ panicked \in BOOLEAN
    /\ portTaken \in BOOLEAN /\ oldSocket \in BOOLEAN /\ refused \in {"no", "other", "own"}
    /\ pc \in [Controllers -> Labels]
    /\ TlsClean
    /\ panicked \/ Phase(pc[c])

\* Every step keeps LifeInv.
LEMMA LifeNext ==
    ASSUME NEW c, Controllers = {c}, LifeInv(c), [Next]_vars
    PROVE  LifeInv(c)'
<1> USE DEF LifeInv, transport, input, counters
<1> DEFINE Typed == /\ node \in {"map", "sql"} /\ kind \in {"tls", "https", "udp"}
                    /\ running \in BOOLEAN /\ up \in BOOLEAN
                    /\ panicked \in BOOLEAN /\ portTaken \in BOOLEAN
                    /\ oldSocket \in BOOLEAN /\ refused \in {"no", "other", "own"}
                    /\ pc \in [Controllers -> Labels]
<1> USE DEF TlsClean
<1>1. Typed
      OBVIOUS
<1>2. ASSUME Start(c) PROVE LifeInv(c)'
      BY <1>2 DEF Start, At, Goto, Phase, Labels, Down, Opened, Up, Started, Closing, Waiting
<1>3. ASSUME Stop(c) PROVE LifeInv(c)'
      BY <1>3 DEF Stop, At, Goto, Phase, Labels, Down, Opened, Up, Started, Closing, Waiting
<1>4. ASSUME SetRunning(c) PROVE LifeInv(c)'
      BY <1>4 DEF SetRunning, At, Goto, Phase, Labels, Down, Opened, Up, Started
<1>5. ASSUME ListenFails(c) PROVE LifeInv(c)'
      BY <1>5 DEF ListenFails, PortHeld, HeldByNode, Refusal, AfterPolicies, At, Goto, Phase,
                  Labels, Down, Started
<1>6. ASSUME Listens(c) PROVE LifeInv(c)'
      BY <1>6 DEF Listens, AfterPolicies, At, Goto, Phase, Labels, Down, Opened
<1>7. ASSUME SetUp(c) PROVE LifeInv(c)'
      BY <1>7 DEF SetUp, AfterPolicies, At, Goto, Phase, Labels, Opened, Up, Started
<1>8. ASSUME StartLoop(c) PROVE LifeInv(c)'
      BY <1>8 DEF StartLoop, At, Goto, Phase, Labels, Down, Up, Started
<1>9. ASSUME SetDown(c) PROVE LifeInv(c)'
      BY <1>9 DEF SetDown, At, Goto, Phase, Labels, Down, Up, Started, Closing
<1>10. ASSUME CloseServer(c) PROVE LifeInv(c)'
      BY <1>10 DEF CloseServer, At, Goto, Phase, Labels, Down, Up, Started, Closing
<1>11. ASSUME Close(c) PROVE LifeInv(c)'
  <2>1. /\ ~panicked /\ pc[c] = "close" /\ Closing /\ pc' = [pc EXCEPT ![c] = "wait"]
        /\ up' = IF kind = "https" THEN FALSE ELSE up
        /\ listener' = IF kind = "tls" THEN "none" ELSE listener
        /\ UNCHANGED <<node, kind, portTaken, running, refused, panicked, oldSocket, accepting>>
        BY <1>11 DEF Close, At, Goto, Phase
  <2>2. Waiting'
        BY <1>1, <2>1 DEF Closing, Waiting, Down
  <2>3. pc'[c] = "wait" /\ Typed'
        BY <1>1, <2>1 DEF Labels
  <2>4. TlsClean' /\ Phase(pc[c])'
        BY <2>1, <2>2, <2>3 DEF Phase
  <2> QED BY <2>3, <2>4
<1>12. ASSUME Waited(c) PROVE LifeInv(c)'
      BY <1>12 DEF Waited, At, Goto, Phase, Labels, Down, Waiting
<1>13. ASSUME SetNotRunning(c) PROVE LifeInv(c)'
      BY <1>13 DEF SetNotRunning, At, Goto, Phase, Labels, Down
<1>14. ASSUME ServeHTTPS PROVE LifeInv(c)'
  <2>1. /\ listener = "pending" /\ (oldSocket' = oldSocket)
        /\ \/ listener' = "none" /\ refused' \in {"other", "own"}
           \/ listener' = "open" /\ refused' = refused
        /\ (kind = "tls" /\ refused' = "own") => oldSocket \/ refused = "own"
        /\ UNCHANGED <<node, kind, portTaken, running, panicked, pc, up, accepting>>
        BY <1>14 DEF ServeHTTPS, Refusal, HeldByNode
  <2>2. Typed' /\ TlsClean'
        BY <1>1, <2>1
  <2>3. ASSUME ~panicked PROVE Phase(pc[c])'
    <3>1. Phase(pc[c])
          BY <2>3
    <3>2. /\ Started => Started' /\ kind = "https"
          /\ Opened => Opened' /\ kind = "https"
          /\ ~Down /\ ~Waiting /\ ~Closing
          BY <1>1, <2>1 DEF Down, Opened, Up, Started, Closing, Waiting
    <3> QED BY <2>1, <3>1, <3>2 DEF Phase
  <2>4. panicked' \/ Phase(pc[c])'
        BY <1>1, <2>1, <2>3
  <2> QED BY <2>2, <2>4
<1>15. ASSUME AcceptEnds PROVE LifeInv(c)'
      BY <1>15 DEF AcceptEnds, Phase, Labels, Down, Opened, Up, Started, Closing, Waiting
<1>16. ASSUME UNCHANGED <<node, kind, running, up, refused, panicked, pc, listener, accepting>>,
              portTaken' \in BOOLEAN, oldSocket' = oldSocket \/ oldSocket' = FALSE
       PROVE  LifeInv(c)'
  <2>1. Typed'
        BY <1>1, <1>16
  <2>2. TlsClean'
        BY <1>16
  <2>3. Phase(pc[c])' = Phase(pc[c])
        BY <1>16 DEF Phase, Down, Opened, Up, Started, Closing, Waiting
  <2>4. panicked' \/ Phase(pc[c])'
        BY <1>16, <2>3
  <2> QED BY <2>1, <2>2, <2>4
<1>17. ASSUME PortChanges \/ CloseOldSocket \/ UNCHANGED vars
              \/ \E l \in DOMAIN loops : TestRunning(l) \/ Receive(l) \/ SendMsg(l)
       PROVE  LifeInv(c)'
      BY <1>16, <1>17 DEF PortChanges, CloseOldSocket, vars, TestRunning, Receive, SendMsg
<1> QED BY <1>2, <1>3, <1>4, <1>5, <1>6, <1>7, <1>8, <1>9, <1>10, <1>11, <1>12, <1>13,
           <1>14, <1>15, <1>17 DEF Next, StartSteps, StopSteps

\* If one caller starts and stops a node, then between its calls a node that runs
\* accepts connections or did not get its port, and one that does not run accepts
\* none; TLS never finds its own socket on the port, as it closes the listener
\* before Stop returns.  UDP and HTTPS may, and then they run without a port.
THEOREM RunningListens ==
    ASSUME NEW c, Controllers = {c}
    PROVE  Spec => []RunningMeansListening
<1>1. Init => LifeInv(c)
      BY DEF Init, LifeInv, TlsClean, Phase, Down, Labels
<1>2. LifeInv(c) /\ [Next]_vars => LifeInv(c)'
      BY LifeNext
<1>3. LifeInv(c) => RunningMeansListening
      BY DEF LifeInv, TlsClean, RunningMeansListening, Settled, Phase, Down, Up, Started
<1> QED BY <1>1, <1>2, <1>3, PTL DEF Spec

-----------------------------------------------------------------------------
(***************************************************************************)
(* The input loops of a node.                                              *)
(***************************************************************************)
\* An input loop: where it is, and the message it is about to send.
InputLoop == [at : {"test", "receive", "send", "ended"}, msg : Nat]

\* The loops that may send one more message before they look at the flag.
Waking(ls) == {l \in DOMAIN ls : ls[l].at \in {"receive", "send"}}

\* Where the only loop is between taking a message and sending it.
Alone ==
    IF loops[1].at = "send" THEN loops[1].msg = taken /\ Len(sent) + 1 = taken
                            ELSE Len(sent) = taken

LoopsInv ==
    /\ running \in BOOLEAN /\ loops \in Seq(InputLoop)
    /\ taken \in Nat /\ sent \in Seq(Nat) /\ late \in Nat
    /\ IF running THEN late = 0 ELSE late + Cardinality(Waking(loops)) <= Len(loops)
    /\ loops = << >> => taken = 0 /\ sent = << >>
    /\ Len(loops) = 1 => Alone
    /\ Len(loops) <= 1 => \A i \in DOMAIN sent : sent[i] = i

\* The loops that may still send are finitely many, and not more than there are.
LEMMA WakingFinite ==
    ASSUME NEW ls \in Seq(InputLoop)
    PROVE  /\ IsFiniteSet(Waking(ls)) /\ Cardinality(Waking(ls)) \in Nat
           /\ Cardinality(Waking(ls)) <= Len(ls)
<1>1. DOMAIN ls = 1 .. Len(ls) /\ Len(ls) \in Nat
      OBVIOUS
<1>2. IsFiniteSet(1 .. Len(ls)) /\ Cardinality(1 .. Len(ls)) = Len(ls)
      BY <1>1, FS_Interval
<1>3. Waking(ls) \subseteq 1 .. Len(ls)
      BY <1>1 DEF Waking
<1> QED BY <1>2, <1>3, FS_Subset, FS_CardinalityType

\* What becomes of the loops when one of them moves.
LEMMA OneMoves ==
    ASSUME NEW ls \in Seq(InputLoop), NEW l \in DOMAIN ls, NEW r \in InputLoop
    PROVE  /\ [ls EXCEPT ![l] = r] \in Seq(InputLoop) /\ Len([ls EXCEPT ![l] = r]) = Len(ls)
           /\ [ls EXCEPT ![l] = r][l] = r
           /\ (r.at \notin {"receive", "send"} /\ ls[l].at \in {"receive", "send"})
                => Cardinality(Waking([ls EXCEPT ![l] = r])) + 1 = Cardinality(Waking(ls))
           /\ (r.at \notin {"receive", "send"} \/ ls[l].at \in {"receive", "send"})
                => Cardinality(Waking([ls EXCEPT ![l] = r])) <= Cardinality(Waking(ls))
<1> DEFINE new == [ls EXCEPT ![l] = r]
           W == Waking(ls)
           V == Waking(new)
<1>1. /\ new \in Seq(InputLoop) /\ Len(new) = Len(ls) /\ DOMAIN new = DOMAIN ls
      /\ \A k \in DOMAIN ls : new[k] = IF k = l THEN r ELSE ls[k]
      OBVIOUS
<1> HIDE DEF new
<1>2. IsFiniteSet(W) /\ IsFiniteSet(V) /\ Cardinality(W) \in Nat /\ Cardinality(V) \in Nat
      BY <1>1, WakingFinite
<1>3. ASSUME r.at \notin {"receive", "send"}, ls[l].at \in {"receive", "send"}
      PROVE  Cardinality(V) + 1 = Cardinality(W)
  <2>1. V = W \ {l} /\ l \in W
        BY <1>1, <1>3 DEF Waking
  <2>2. Cardinality(V) = Cardinality(W) - 1
        BY <1>2, <2>1, FS_RemoveElement
  <2> QED BY <1>2, <2>2
<1>4. ASSUME r.at \notin {"receive", "send"} \/ ls[l].at \in {"receive", "send"}
      PROVE  Cardinality(V) <= Cardinality(W)
  <2>1. V \subseteq W
        BY <1>1, <1>4 DEF Waking
  <2> QED BY <1>2, <2>1, FS_Subset
<1> QED BY <1>1, <1>3, <1>4 DEF new

\* Every step keeps LoopsInv.
LEMMA LoopsNext == LoopsInv /\ [Next]_vars => LoopsInv'
<1> SUFFICES ASSUME LoopsInv, [Next]_vars PROVE LoopsInv'
    OBVIOUS
<1> USE DEF transport, input, counters
<1>1. /\ running \in BOOLEAN /\ loops \in Seq(InputLoop)
      /\ taken \in Nat /\ sent \in Seq(Nat) /\ late \in Nat
      /\ Cardinality(Waking(loops)) \in Nat /\ Cardinality(Waking(loops)) <= Len(loops)
      /\ Len(loops) \in Nat /\ Len(sent) \in Nat
      BY WakingFinite DEF LoopsInv
<1>2. /\ IF running THEN late = 0 ELSE late + Cardinality(Waking(loops)) <= Len(loops)
      /\ loops = << >> => taken = 0 /\ sent = << >>
      /\ Len(loops) = 1 => Alone
      /\ Len(loops) <= 1 => \A i \in DOMAIN sent : sent[i] = i
      BY DEF LoopsInv
<1>3. ASSUME UNCHANGED <<running, loops, taken, sent, late>> PROVE LoopsInv'
      BY <1>1, <1>2, <1>3 DEF LoopsInv, Alone, Waking
<1>4. ASSUME NEW c \in Controllers, SetRunning(c) \/ SetNotRunning(c) PROVE LoopsInv'
  <2>1. /\ running' \in BOOLEAN /\ late' = 0 /\ UNCHANGED <<loops, taken, sent>>
        BY <1>4 DEF SetRunning, SetNotRunning
  <2>2. Waking(loops)' = Waking(loops) /\ Alone' = Alone
        BY <2>1 DEF Waking, Alone
  <2>3. late' + Cardinality(Waking(loops))' <= Len(loops)'
        BY <1>1, <2>1, <2>2
  <2> QED BY <1>1, <1>2, <2>1, <2>2, <2>3 DEF LoopsInv
<1>5. ASSUME NEW c \in Controllers, StartLoop(c) PROVE LoopsInv'
  <2> DEFINE new == Append(loops, [at |-> "test", msg |-> 0])
  <2>1. loops' = new /\ UNCHANGED <<running, taken, sent, late>>
        BY <1>5 DEF StartLoop
  <2>2. [at |-> "test", msg |-> 0] \in InputLoop
        BY DEF InputLoop
  <2>3. /\ new \in Seq(InputLoop) /\ Len(new) = Len(loops) + 1
        /\ DOMAIN new = 1 .. Len(loops) + 1 /\ DOMAIN loops = 1 .. Len(loops)
        /\ new[Len(loops) + 1] = [at |-> "test", msg |-> 0]
        /\ \A k \in 1 .. Len(loops) : new[k] = loops[k]
        BY <1>1, <2>2
  <2> HIDE DEF new
  <2>4. Waking(new) = Waking(loops)
        BY <1>1, <2>3 DEF Waking
  <2>5. IF running' THEN late' = 0 ELSE late' + Cardinality(Waking(loops')) <= Len(loops')
        BY <1>1, <1>2, <2>1, <2>3, <2>4
  <2>6. ASSUME Len(loops') <= 1
        PROVE  /\ loops = << >> /\ Alone'
               /\ \A i \in DOMAIN sent' : sent'[i] = i
    <3>1. Len(loops) = 0 /\ loops = << >>
          BY <1>1, <2>1, <2>3, <2>6
    <3>2. taken' = 0 /\ sent' = << >> /\ Len(sent') = 0
          BY <1>2, <2>1, <3>1
    <3>3. loops'[1] = [at |-> "test", msg |-> 0]
          BY <2>1, <2>3, <3>1
    <3>4. loops'[1].at = "test"
          BY <3>3
    <3> QED BY <3>1, <3>2, <3>4 DEF Alone
  <2>7. loops' # << >>
        BY <1>1, <2>1, <2>3
  <2>8. Len(loops') = Len(loops) + 1
        BY <2>1, <2>3
  <2> QED BY <1>1, <2>1, <2>3, <2>5, <2>6, <2>7, <2>8 DEF LoopsInv
<1>6. ASSUME NEW l \in DOMAIN loops, NEW r \in InputLoop, loops' = [loops EXCEPT ![l] = r]
      PROVE  /\ loops' \in Seq(InputLoop) /\ Len(loops') = Len(loops) /\ loops' # << >>
             /\ loops # << >> /\ loops'[l] = r
             /\ Len(loops) = 1 => l = 1
             /\ Cardinality(Waking(loops')) \in Nat
  <2>1. loops' \in Seq(InputLoop) /\ Len(loops') = Len(loops) /\ loops'[l] = r
        BY <1>1, <1>6, OneMoves
  <2>2. l \in 1 .. Len(loops)
        BY <1>1
  <2> QED BY <1>1, <2>1, <2>2, WakingFinite
<1>7. ASSUME NEW l \in DOMAIN loops, TestRunning(l) PROVE LoopsInv'
  <2> DEFINE r == [loops[l] EXCEPT !.at = IF running THEN "receive" ELSE "ended"]
  <2>1. /\ loops[l].at = "test" /\ UNCHANGED <<running, taken, sent, late>>
        /\ loops' = [loops EXCEPT ![l] = r]
        BY <1>7 DEF TestRunning
  <2>2. loops[l] \in InputLoop
        BY <1>1
  <2>3. /\ r \in InputLoop
        /\ r.at = IF running THEN "receive" ELSE "ended"
        BY <2>2 DEF InputLoop
  <2> HIDE DEF r
  <2>4. /\ loops' \in Seq(InputLoop) /\ Len(loops') = Len(loops) /\ loops' # << >>
        /\ loops'[l] = r /\ Len(loops) = 1 => l = 1
        BY <2>1, <2>3, <1>6
  <2>5. ~running => Cardinality(Waking(loops')) <= Cardinality(Waking(loops))
        BY <1>1, <2>1, <2>3, OneMoves
  <2>6. IF running' THEN late' = 0 ELSE late' + Cardinality(Waking(loops')) <= Len(loops')
    <3>1. Cardinality(Waking(loops')) \in Nat
          BY <2>4, WakingFinite
    <3> QED BY <1>1, <1>2, <2>1, <2>4, <2>5, <3>1
  <2>7. Len(loops') = 1 => Alone'
        BY <1>2, <2>1, <2>3, <2>4 DEF Alone
  <2> QED BY <1>1, <1>2, <2>1, <2>4, <2>6, <2>7 DEF LoopsInv
<1>8. ASSUME NEW l \in DOMAIN loops, Receive(l) PROVE LoopsInv'
  <2> DEFINE r == [at |-> "send", msg |-> taken + 1]
  <2>1. /\ loops[l].at = "receive" /\ UNCHANGED <<running, sent, late>> /\ taken' = taken + 1
        /\ loops' = [loops EXCEPT ![l] = r]
        BY <1>8 DEF Receive
  <2>2. r \in InputLoop /\ r.at = "send" /\ r.msg = taken + 1
        BY <1>1 DEF InputLoop
  <2> HIDE DEF r
  <2>3. /\ loops' \in Seq(InputLoop) /\ Len(loops') = Len(loops) /\ loops' # << >>
        /\ loops'[l] = r /\ Len(loops) = 1 => l = 1
        BY <2>1, <2>2, <1>6
  <2>4. Cardinality(Waking(loops')) <= Cardinality(Waking(loops))
        BY <1>1, <2>1, <2>2, OneMoves
  <2>5. IF running' THEN late' = 0 ELSE late' + Cardinality(Waking(loops')) <= Len(loops')
    <3>1. Cardinality(Waking(loops')) \in Nat
          BY <2>3, WakingFinite
    <3> QED BY <1>1, <1>2, <2>1, <2>3, <2>4, <3>1
  <2>6. Len(loops') = 1 => Alone'
    <3> SUFFICES ASSUME Len(loops') = 1 PROVE Alone'
        OBVIOUS
    <3>1. loops'[1] = r /\ loops[1].at = "receive" /\ Alone
          BY <1>2, <2>1, <2>3
    <3>2. Len(sent) = taken
          BY <3>1 DEF Alone
    <3> QED BY <1>1, <2>1, <2>2, <3>1, <3>2 DEF Alone
  <2> QED BY <1>1, <1>2, <2>1, <2>3, <2>5, <2>6 DEF LoopsInv
<1>9. ASSUME NEW l \in DOMAIN loops, SendMsg(l) PROVE LoopsInv'
  <2> DEFINE r == [at |-> "test", msg |-> 0]
  <2>1. /\ loops[l].at = "send" /\ UNCHANGED <<running, taken>>
        /\ sent' = Append(sent, loops[l].msg)
        /\ late' = IF running THEN 0 ELSE late + 1
        /\ loops' = [loops EXCEPT ![l] = r]
        BY <1>9 DEF SendMsg
  <2>2. r \in InputLoop /\ r.at = "test"
        BY DEF InputLoop
  <2> HIDE DEF r
  <2>3. /\ loops' \in Seq(InputLoop) /\ Len(loops') = Len(loops) /\ loops' # << >>
        /\ loops'[l] = r /\ Len(loops) = 1 => l = 1
        BY <2>1, <2>2, <1>6
  <2>4. Cardinality(Waking(loops')) + 1 = Cardinality(Waking(loops))
        BY <1>1, <2>1, <2>2, OneMoves
  <2>5. IF running' THEN late' = 0 ELSE late' + Cardinality(Waking(loops')) <= Len(loops')
    <3>1. Cardinality(Waking(loops')) \in Nat
          BY <2>3, WakingFinite
    <3> QED BY <1>1, <1>2, <2>1, <2>3, <2>4, <3>1
  <2>6. /\ loops[l].msg \in Nat /\ sent' \in Seq(Nat) /\ late' \in Nat
        /\ Len(sent') = Len(sent) + 1 /\ sent'[Len(sent) + 1] = loops[l].msg
        /\ \A i \in 1 .. Len(sent) : sent'[i] = sent[i]
    <3>1. loops[l] \in InputLoop
          BY <1>1
    <3>2. loops[l].msg \in Nat
          BY <3>1 DEF InputLoop
    <3> QED BY <1>1, <2>1, <3>2
  <2>7. ASSUME Len(loops') <= 1
        PROVE  Alone' /\ \A i \in DOMAIN sent' : sent'[i] = i
    <3>1. Len(loops) = 1 /\ l = 1
          BY <1>1, <2>3, <2>7
    <3>2. loops[l].msg = Len(sent) + 1 /\ Len(sent) + 1 = taken
          BY <1>1, <1>2, <2>1, <3>1 DEF Alone
    <3>3. loops'[1].at = "test" /\ Len(sent') = taken'
          BY <2>1, <2>2, <2>3, <2>6, <3>1, <3>2
    <3>4. \A i \in 1 .. Len(sent) : sent[i] = i
          BY <1>1, <1>2, <3>1
    <3>5. DOMAIN sent' = 1 .. Len(sent) + 1
          BY <2>6
    <3>6. \A i \in DOMAIN sent' : sent'[i] = i
          BY <1>1, <2>6, <3>2, <3>4, <3>5
    <3> QED BY <3>3, <3>6 DEF Alone
  <2>8. Len(loops') \in Nat /\ running' \in BOOLEAN /\ taken' \in Nat
        BY <1>1, <2>1, <2>3
  <2>9. (Len(loops') = 1 => Alone') /\ (Len(loops') <= 1 => \A i \in DOMAIN sent' : sent'[i] = i)
    <3>1. Len(loops') = 1 => Len(loops') <= 1
          BY <2>8
    <3> QED BY <2>7, <3>1, Zenon
  <2> HIDE DEF Alone
  <2> QED BY <2>3, <2>5, <2>6, <2>8, <2>9 DEF LoopsInv
<1>10. ASSUME NEW c \in Controllers,
              \/ Start(c) \/ Stop(c) \/ ListenFails(c) \/ Listens(c) \/ SetUp(c)
              \/ SetDown(c) \/ CloseServer(c) \/ Close(c) \/ Waited(c)
       PROVE  LoopsInv'
       BY <1>3, <1>10 DEF Start, Stop, ListenFails, Listens, SetUp, SetDown, CloseServer, Close,
                       Waited
<1>11. ASSUME ServeHTTPS \/ AcceptEnds \/ CloseOldSocket \/ PortChanges \/ UNCHANGED vars
       PROVE  LoopsInv'
       BY <1>3, <1>11 DEF ServeHTTPS, AcceptEnds, CloseOldSocket, PortChanges, vars
<1> QED BY <1>4, <1>5, <1>7, <1>8, <1>9, <1>10, <1>11 DEF Next, StartSteps, StopSteps

\* After Stop each input loop sends at most one message more, and as long as there
\* is one loop the messages are sent in the order in which they were put in: a
\* loop looks at isRunning before it takes a message (Start of the nodes).
THEOREM LastMessagesOnly == Spec => []LastMessages
<1>1. Init => LoopsInv
  <2> SUFFICES ASSUME Init PROVE LoopsInv
      OBVIOUS
  <2>1. Waking(loops) = {} /\ Len(loops) = 0 /\ loops \in Seq(InputLoop)
        BY DEF Init, Waking
  <2>2. Cardinality(Waking(loops)) = 0
        BY <2>1, FS_EmptySet
  <2>3. /\ running = FALSE /\ late = 0 /\ taken = 0 /\ sent = << >>
        /\ sent \in Seq(Nat) /\ \A i \in DOMAIN sent : sent[i] = i
        BY DEF Init
  <2>4. late + Cardinality(Waking(loops)) <= Len(loops)
        BY <2>1, <2>2, <2>3
  <2>5. Len(loops) # 1 /\ late \in Nat /\ taken \in Nat
    <3>1. 0 \in Nat /\ 0 # 1
          OBVIOUS
    <3> QED BY <2>1, <2>3, <3>1, Zenon
  <2>6. running \in BOOLEAN
        BY DEF Init
  <2> QED BY <2>1, <2>3, <2>4, <2>5, <2>6, Zenon DEF LoopsInv
<1>2. LoopsInv => LastMessages
  <2> SUFFICES ASSUME LoopsInv PROVE LastMessages
      OBVIOUS
  <2>1. late <= Len(loops)
    <3>1. Cardinality(Waking(loops)) \in Nat /\ late \in Nat /\ Len(loops) \in Nat
          BY WakingFinite DEF LoopsInv
    <3> QED BY <3>1 DEF LoopsInv
  <2> QED BY <2>1 DEF LoopsInv, LastMessages
<1> QED BY <1>1, <1>2, LoopsNext, PTL DEF Spec

-----------------------------------------------------------------------------
(***************************************************************************)
(* The peer-to-peer policy.                                                *)
(***************************************************************************)
\* A listener: it runs or is about to, and it has won some peers.
Listener == [at : {"born", "reading"}, peerlist : SUBSET Peers]

P2PTyped ==
    /\ rank \in [Peers -> Ranks]
    /\ listeners \in [Peers -> Seq(Listener)]
    /\ inbox \in [Peers -> SUBSET Announcement]
    /\ pollers \in [Peers -> [Peers -> Nat]]
    /\ runs \in [Peers -> Nat]

\* The listeners of p that have not won q: each of them may start one more poller.
Without(ls, q) == {l \in DOMAIN ls : q \notin ls[l].peerlist}

PollersInv ==
    /\ P2PTyped
    /\ \A p, q \in Peers : pollers[p][q] + Cardinality(Without(listeners[p], q)) <= runs[p]

\* The listeners without q are finitely many.
LEMMA WithoutFinite ==
    ASSUME NEW ls \in Seq(Listener), NEW q \in Peers
    PROVE  IsFiniteSet(Without(ls, q)) /\ Cardinality(Without(ls, q)) \in Nat
<1>1. IsFiniteSet(DOMAIN ls)
      BY FS_Interval
<1> QED BY <1>1, FS_Subset, FS_CardinalityType DEF Without

\* A listener that ends adds none.
LEMMA RemovedListener ==
    ASSUME NEW ls \in Seq(Listener), NEW l \in DOMAIN ls, NEW q \in Peers
    PROVE  /\ Removed(ls, l) \in Seq(Listener)
           /\ Cardinality(Without(Removed(ls, l), q)) <= Cardinality(Without(ls, q))
<1> DEFINE n == Len(ls)
           at(k) == IF k < l THEN k ELSE k + 1
           new == Removed(ls, l)
           S == Without(new, q)
           T == Without(ls, q)
           f == [k \in S |-> at(k)]
<1>1. n \in Nat /\ l \in 1 .. n /\ DOMAIN ls = 1 .. n
      OBVIOUS
<1>2. /\ SubSeq(ls, 1, l - 1) \in Seq(Listener) /\ Len(SubSeq(ls, 1, l - 1)) = l - 1
      /\ \A k \in 1 .. l - 1 : SubSeq(ls, 1, l - 1)[k] = ls[k]
      BY <1>1
<1>3. /\ SubSeq(ls, l + 1, n) \in Seq(Listener) /\ Len(SubSeq(ls, l + 1, n)) = n - l
      /\ \A k \in 1 .. n - l : SubSeq(ls, l + 1, n)[k] = ls[l + k]
      BY <1>1
<1>4. /\ new \in Seq(Listener) /\ Len(new) = n - 1 /\ DOMAIN new = 1 .. n - 1
      /\ \A k \in 1 .. n - 1 : new[k] = ls[at(k)]
  <2> DEFINE a == SubSeq(ls, 1, l - 1)
             b == SubSeq(ls, l + 1, n)
  <2> HIDE DEF a, b
  <2>1. /\ a \o b \in Seq(Listener) /\ Len(a \o b) = Len(a) + Len(b)
        /\ \A k \in 1 .. Len(a) + Len(b) :
             (a \o b)[k] = IF k <= Len(a) THEN a[k] ELSE b[k - Len(a)]
        BY <1>2, <1>3, ConcatProperties DEF a, b
  <2>2. new = a \o b /\ Len(a) = l - 1 /\ Len(b) = n - l
        BY <1>2, <1>3 DEF a, b, Removed
  <2>3. ASSUME NEW k \in 1 .. n - 1 PROVE new[k] = ls[at(k)]
    <3> HIDE DEF new
    <3>1. CASE k < l
      <4>1. new[k] = a[k] /\ k \in 1 .. l - 1
            BY <1>1, <2>1, <2>2, <3>1
      <4>2. a[k] = ls[k]
            BY <1>2, <4>1 DEF a
      <4> QED BY <3>1, <4>1, <4>2
    <3>2. CASE k >= l
      <4>1. new[k] = b[k - (l - 1)] /\ k - (l - 1) \in 1 .. n - l
            BY <1>1, <2>1, <2>2, <3>2
      <4>2. b[k - (l - 1)] = ls[l + (k - (l - 1))]
            BY <1>3, <4>1 DEF b
      <4>3. l + (k - (l - 1)) = k + 1 /\ at(k) = k + 1
            BY <1>1, <3>2
      <4> HIDE DEF at
      <4> QED BY <4>1, <4>2, <4>3
    <3> QED BY <1>1, <3>1, <3>2
  <2> HIDE DEF new, at
  <2>4. new \in Seq(Listener) /\ Len(new) = n - 1
    <3>1. new \in Seq(Listener) /\ Len(new) = Len(a) + Len(b)
          BY <2>1, <2>2, Zenon
    <3>2. Len(new) = (l - 1) + (n - l)
          BY <3>1, <2>2
    <3>3. (l - 1) + (n - l) = n - 1
          BY <1>1
    <3> QED BY <3>1, <3>2, <3>3, Zenon
  <2>5. DOMAIN new = 1 .. n - 1
        BY <2>4
  <2> QED BY <2>3, <2>4, <2>5
<1> HIDE DEF new
<1>5. f \in Injection(S, T)
  <2>1. \A k \in S : at(k) \in T
        BY <1>1, <1>4 DEF Without
  <2>2. \A j, k \in S : at(j) = at(k) => j = k
        BY <1>1, <1>4 DEF Without
  <2> QED BY <2>1, <2>2 DEF Injection, IsInjective
<1>6. IsFiniteSet(T)
      BY WithoutFinite
<1>7. Cardinality(S) <= Cardinality(T)
      BY <1>5, <1>6, FS_Injection
<1> QED BY <1>4, <1>7 DEF new

\* The listener l wins the peer a.
Winning(ls, l, a) == [ls EXCEPT ![l].peerlist = @ \union {a}]

\* The first listener to win a peer starts a poller of it; the others still may.
LEMMA WonPeer ==
    ASSUME NEW ls \in Seq(Listener), NEW l \in DOMAIN ls, NEW a \in Peers, NEW q \in Peers,
           a \notin ls[l].peerlist
    PROVE  /\ Winning(ls, l, a) \in Seq(Listener)
           /\ Cardinality(Without(Winning(ls, l, a), q)) =
                IF q = a THEN Cardinality(Without(ls, q)) - 1 ELSE Cardinality(Without(ls, q))
<1> DEFINE won == [ls[l] EXCEPT !.peerlist = @ \union {a}]
           new == [ls EXCEPT ![l] = won]
<1>1. ls[l] \in Listener /\ won \in Listener
  <2>1. ls[l] \in Listener
        OBVIOUS
  <2> QED BY <2>1 DEF Listener
<1>2. won.peerlist = ls[l].peerlist \union {a}
      BY <1>1 DEF Listener
<1>3. Winning(ls, l, a) = new
      BY DEF Winning
<1> HIDE DEF won
<1>4. /\ new \in Seq(Listener) /\ DOMAIN new = DOMAIN ls
      /\ \A k \in DOMAIN ls : new[k] = IF k = l THEN won ELSE ls[k]
      BY <1>1
<1> HIDE DEF new
<1>5. Without(new, q) = IF q = a THEN Without(ls, q) \ {l} ELSE Without(ls, q)
      BY <1>2, <1>4 DEF Without
<1>6. q = a => l \in Without(ls, q)
      BY DEF Without
<1>7. Cardinality(Without(new, q)) =
        IF q = a THEN Cardinality(Without(ls, q)) - 1 ELSE Cardinality(Without(ls, q))
      BY <1>5, <1>6, WithoutFinite, FS_RemoveElement
<1> QED BY <1>3, <1>4, <1>7

\* A new listener has won nobody.
LEMMA NewListener ==
    ASSUME NEW ls \in Seq(Listener), NEW q \in Peers
    PROVE  /\ Append(ls, [at |-> "born", peerlist |-> {}]) \in Seq(Listener)
           /\ Cardinality(Without(Append(ls, [at |-> "born", peerlist |-> {}]), q)) =
                Cardinality(Without(ls, q)) + 1
<1> DEFINE born == [at |-> "born", peerlist |-> {}]
           new == Append(ls, born)
           n == Len(ls)
<1>1. born \in Listener /\ born.peerlist = {} /\ n \in Nat /\ DOMAIN ls = 1 .. n
      BY DEF Listener
<1> HIDE DEF born
<1>2. /\ new \in Seq(Listener) /\ DOMAIN new = 1 .. n + 1
      /\ new[n + 1] = born /\ \A k \in 1 .. n : new[k] = ls[k]
      BY <1>1
<1> HIDE DEF new
<1>3. Without(new, q) = Without(ls, q) \cup {n + 1}
      BY <1>1, <1>2 DEF Without
<1>4. n + 1 \notin Without(ls, q)
      BY <1>1 DEF Without
<1> QED BY <1>2, <1>3, <1>4, WithoutFinite, FS_AddElement DEF new, born

\* One more or one fewer poller of a target.
LEMMA PollersUpdated ==
    ASSUME NEW table \in [Peers -> [Peers -> Nat]],
           NEW p \in Peers, NEW q \in Peers, NEW n \in Nat
    PROVE  /\ [table EXCEPT ![p][q] = n] \in [Peers -> [Peers -> Nat]]
           /\ \A d, e \in Peers :
                [table EXCEPT ![p][q] = n][d][e] = IF d = p /\ e = q THEN n ELSE table[d][e]
<1> DEFINE row == [table[p] EXCEPT ![q] = n]
<1>1. /\ row \in [Peers -> Nat]
      /\ \A e \in Peers : row[e] = IF e = q THEN n ELSE table[p][e]
      OBVIOUS
<1>2. [table EXCEPT ![p][q] = n] = [table EXCEPT ![p] = row]
      OBVIOUS
<1> HIDE DEF row
<1>3. /\ [table EXCEPT ![p] = row] \in [Peers -> [Peers -> Nat]]
      /\ \A d, e \in Peers :
           [table EXCEPT ![p] = row][d][e] = IF d = p THEN row[e] ELSE table[d][e]
      BY <1>1
<1> QED BY <1>1, <1>2, <1>3

-----------------------------------------------------------------------------
\* What a step may do to the pollers and listeners of a peer.
LEMMA PollersStep ==
    ASSUME PollersInv, P2PTyped',
           \A p, q \in Peers :
               \/ /\ pollers'[p][q] <= pollers[p][q] /\ runs'[p] = runs[p]
                  /\ Cardinality(Without(listeners'[p], q))
                       <= Cardinality(Without(listeners[p], q))
               \/ pollers'[p][q] + Cardinality(Without(listeners'[p], q)) <= runs'[p]
    PROVE  PollersInv'
<1> SUFFICES ASSUME NEW p \in Peers, NEW q \in Peers
             PROVE  pollers'[p][q] + Cardinality(Without(listeners'[p], q)) <= runs'[p]
    BY DEF PollersInv, Without
<1>1. /\ pollers[p][q] \in Nat /\ runs[p] \in Nat /\ listeners[p] \in Seq(Listener)
      /\ pollers'[p][q] \in Nat /\ runs'[p] \in Nat /\ listeners'[p] \in Seq(Listener)
      BY DEF PollersInv, P2PTyped
<1>2. /\ Cardinality(Without(listeners[p], q)) \in Nat
      /\ Cardinality(Without(listeners'[p], q)) \in Nat
      BY <1>1, WithoutFinite
<1>3. pollers[p][q] + Cardinality(Without(listeners[p], q)) <= runs[p]
      BY DEF PollersInv
<1> DEFINE old == Cardinality(Without(listeners[p], q))
           new == Cardinality(Without(listeners'[p], q))
<1>4. \/ pollers'[p][q] <= pollers[p][q] /\ runs'[p] = runs[p] /\ new <= old
      \/ pollers'[p][q] + new <= runs'[p]
      OBVIOUS
<1>5. old \in Nat /\ new \in Nat /\ pollers[p][q] + old <= runs[p]
      BY <1>2, <1>3
<1> HIDE DEF old, new
<1>6. pollers'[p][q] + new <= runs'[p]
      BY <1>1, <1>4, <1>5
<1> QED BY <1>6 DEF new

\* A step that leaves the pollers, the runs, and the lists of the listeners alone.
LEMMA PollersQuiet ==
    ASSUME PollersInv, UNCHANGED <<pollers, runs, listeners>>,
           rank' \in [Peers -> Ranks], inbox' \in [Peers -> SUBSET Announcement]
    PROVE  PollersInv'
BY DEF PollersInv, P2PTyped, Without

\* A listener of p ends.
LEMMA ListenerGone ==
    ASSUME PollersInv, NEW p \in Peers, NEW l \in DOMAIN listeners[p],
           listeners' = [listeners EXCEPT ![p] = Removed(@, l)],
           UNCHANGED <<pollers, runs, rank, inbox>>
    PROVE  PollersInv'
<1>1. listeners[p] \in Seq(Listener)
      BY DEF PollersInv, P2PTyped
<1>2. \A q \in Peers : /\ Removed(listeners[p], l) \in Seq(Listener)
                       /\ Cardinality(Without(Removed(listeners[p], l), q))
                            <= Cardinality(Without(listeners[p], q))
      BY <1>1, RemovedListener
<1>3. /\ listeners' \in [Peers -> Seq(Listener)]
      /\ \A d \in Peers :
           listeners'[d] = IF d = p THEN Removed(listeners[p], l) ELSE listeners[d]
      BY <1>2 DEF PollersInv, P2PTyped
<1>4. P2PTyped'
      BY <1>3 DEF PollersInv, P2PTyped
<1>5. \A d, q \in Peers :
        /\ pollers'[d][q] <= pollers[d][q] /\ runs'[d] = runs[d]
        /\ Cardinality(Without(listeners'[d], q)) <= Cardinality(Without(listeners[d], q))
  <2> TAKE d, q \in Peers
  <2>1. pollers[d][q] \in Nat /\ listeners[d] \in Seq(Listener)
        BY DEF PollersInv, P2PTyped
  <2>2. Cardinality(Without(listeners[d], q)) \in Nat
        BY <2>1, WithoutFinite
  <2>3. Cardinality(Without(listeners'[d], q)) <= Cardinality(Without(listeners[d], q))
        BY <1>2, <1>3, <2>2
  <2> QED BY <2>1, <2>3
<1> QED BY <1>4, <1>5, PollersStep

\* Every step keeps PollersInv.
LEMMA PollersNext == PollersInv /\ [P2PNext]_p2pVars => PollersInv'
<1> SUFFICES ASSUME PollersInv, [P2PNext]_p2pVars PROVE PollersInv'
    OBVIOUS
<1>1. P2PTyped
      BY DEF PollersInv
<1>2. ASSUME NEW p \in Peers, RunPolicy(p) PROVE PollersInv'
  <2> DEFINE born == Append(listeners[p], [at |-> "born", peerlist |-> {}])
  <2>1. \A q \in Peers : /\ born \in Seq(Listener)
                         /\ Cardinality(Without(born, q)) =
                              Cardinality(Without(listeners[p], q)) + 1
        BY <1>1, NewListener DEF P2PTyped
  <2>2. /\ listeners' = [listeners EXCEPT ![p] = born]
        /\ runs' = [runs EXCEPT ![p] = @ + 1] /\ UNCHANGED <<pollers, rank, inbox>>
        BY <1>2 DEF RunPolicy
  <2> HIDE DEF born
  <2>3. /\ \A d \in Peers : listeners'[d] = IF d = p THEN born ELSE listeners[d]
        /\ \A d \in Peers : runs'[d] = IF d = p THEN runs[p] + 1 ELSE runs[d]
        /\ listeners' \in [Peers -> Seq(Listener)] /\ runs' \in [Peers -> Nat]
        BY <1>1, <2>1, <2>2 DEF P2PTyped
  <2>4. P2PTyped'
        BY <1>1, <2>2, <2>3 DEF P2PTyped
  <2> SUFFICES ASSUME NEW d \in Peers, NEW q \in Peers
               PROVE  pollers'[d][q] + Cardinality(Without(listeners'[d], q)) <= runs'[d]
      BY <2>4 DEF PollersInv, Without
  <2>5. pollers[d][q] + Cardinality(Without(listeners[d], q)) <= runs[d]
        BY DEF PollersInv
  <2>6. CASE d # p
        BY <2>2, <2>3, <2>5, <2>6
  <2>7. CASE d = p
    <3>1. /\ listeners'[d] = born /\ runs'[d] = runs[p] + 1
          /\ pollers'[d][q] = pollers[p][q]
          /\ pollers[p][q] \in Nat /\ runs[p] \in Nat /\ listeners[p] \in Seq(Listener)
          BY <1>1, <2>2, <2>3, <2>7 DEF P2PTyped
    <3>2. Cardinality(Without(listeners[p], q)) \in Nat
          BY <3>1, WithoutFinite
    <3>3. Cardinality(Without(listeners'[d], q)) = Cardinality(Without(listeners[p], q)) + 1
          BY <2>1, <3>1
    <3> QED BY <2>5, <2>7, <3>1, <3>2, <3>3
  <2> QED BY <2>6, <2>7
<1>3. ASSUME NEW p \in Peers, NEW l \in DOMAIN listeners[p], ListenerBegins(p, l)
      PROVE  PollersInv'
  <2>1. CASE listening[p]
    <3> DEFINE ls == listeners[p]
               new == [ls EXCEPT ![l].at = "reading"]
               begun == [ls[l] EXCEPT !.at = "reading"]
    <3>1. ls \in Seq(Listener) /\ ls[l] \in Listener
          BY <1>1 DEF P2PTyped
    <3>2. begun \in Listener /\ begun.peerlist = ls[l].peerlist
          BY <3>1 DEF Listener
    <3>3. new = [ls EXCEPT ![l] = begun]
          OBVIOUS
    <3>4. /\ listeners' = [listeners EXCEPT ![p] = new]
          /\ UNCHANGED <<pollers, runs, rank, inbox>>
          BY <1>3, <2>1 DEF ListenerBegins
    <3>11. l \in DOMAIN ls
           OBVIOUS
    <3> HIDE DEF new, begun
    <3> HIDE DEF ls
    <3>5. new \in Seq(Listener) /\ DOMAIN new = DOMAIN ls
          BY <3>1, <3>2, <3>3, <3>11
    <3>6. \A k \in DOMAIN ls : new[k].peerlist = ls[k].peerlist
          BY <3>1, <3>2, <3>3, <3>11
    <3>7. \A q \in Peers : Without(new, q) = Without(ls, q)
          BY <3>5, <3>6 DEF Without
    <3>8. /\ \A d \in Peers : listeners'[d] = IF d = p THEN new ELSE listeners[d]
          /\ listeners' \in [Peers -> Seq(Listener)]
          BY <1>1, <3>4, <3>5 DEF P2PTyped
    <3>9. P2PTyped'
          BY <1>1, <3>4, <3>8 DEF P2PTyped
    <3>10. \A d, q \in Peers : Without(listeners'[d], q) = Without(listeners[d], q)
           BY <3>7, <3>8 DEF ls
    <3> QED BY <3>4, <3>9, <3>10 DEF PollersInv
  <2>2. CASE ~listening[p]
    <3>1. /\ listeners' = [listeners EXCEPT ![p] = Removed(@, l)]
          /\ UNCHANGED <<pollers, runs, rank, inbox>>
          BY <1>3, <2>2 DEF ListenerBegins
    <3> QED BY <3>1, ListenerGone
  <2> QED BY <2>1, <2>2
<1>4. ASSUME NEW p \in Peers, NEW l \in DOMAIN listeners[p],
             HearStray(p, l) \/ ListenerEnds(p, l)
      PROVE  PollersInv'
  <2>1. /\ listeners' = [listeners EXCEPT ![p] = Removed(@, l)]
        /\ UNCHANGED <<pollers, runs, rank, inbox>>
        BY <1>4 DEF HearStray, ListenerEnds
  <2> QED BY <2>1, ListenerGone
<1>5. ASSUME NEW p \in Peers, NEW l \in DOMAIN listeners[p], NEW a \in Announcement,
             Hear(p, l, a)
      PROVE  PollersInv'
  <2> DEFINE ls == listeners[p]
             new == Winning(ls, l, a.from)
  <2>1. a.from \in Peers /\ ls \in Seq(Listener)
        BY <1>1 DEF Announcement, P2PTyped
  <2>2. inbox' \in [Peers -> SUBSET Announcement] /\ UNCHANGED <<runs, rank>>
        BY <1>1, <1>5 DEF Hear, P2PTyped
  <2>3. CASE UNCHANGED <<listeners, pollers>>
        BY <1>1, <2>2, <2>3, PollersQuiet DEF P2PTyped
  <2>4. CASE ~UNCHANGED <<listeners, pollers>>
    <3>1. /\ a.from \notin ls[l].peerlist
          /\ listeners' = [listeners EXCEPT ![p] = new]
          /\ pollers' = [pollers EXCEPT ![p][a.from] = @ + 1]
          BY <1>5, <2>4 DEF Hear, Winning
    <3>2. /\ new \in Seq(Listener)
          /\ \A q \in Peers : Cardinality(Without(new, q)) =
               IF q = a.from THEN Cardinality(Without(ls, q)) - 1
                             ELSE Cardinality(Without(ls, q))
      <4>1. a.from \in Peers /\ l \in DOMAIN ls /\ a.from \notin ls[l].peerlist
            BY <2>1, <3>1
      <4> HIDE DEF ls
      <4>2. ASSUME NEW q \in Peers
            PROVE  /\ new \in Seq(Listener)
                   /\ Cardinality(Without(new, q)) =
                        IF q = a.from THEN Cardinality(Without(ls, q)) - 1
                                      ELSE Cardinality(Without(ls, q))
            BY <2>1, <4>1, WonPeer
      <4> QED BY <2>1, <4>2
    <3> HIDE DEF new
    <3>3. /\ \A d \in Peers : listeners'[d] = IF d = p THEN new ELSE listeners[d]
          /\ listeners' \in [Peers -> Seq(Listener)]
          BY <1>1, <3>1, <3>2 DEF P2PTyped
    <3>4. /\ \A d, q \in Peers :
               pollers'[d][q] = IF d = p /\ q = a.from THEN pollers[d][q] + 1 ELSE pollers[d][q]
          /\ pollers' \in [Peers -> [Peers -> Nat]]
      <4> DEFINE more == pollers[p][a.from] + 1
      <4>1. pollers' = [pollers EXCEPT ![p][a.from] = more]
            BY <3>1
      <4>2. more \in Nat /\ pollers \in [Peers -> [Peers -> Nat]]
        <5>1. pollers \in [Peers -> [Peers -> Nat]] /\ a.from \in Peers
              BY <1>1, <2>1 DEF P2PTyped
        <5>2. pollers[p][a.from] \in Nat
              BY <5>1
        <5> QED BY <5>1, <5>2
      <4> HIDE DEF more
      <4>3. /\ pollers' \in [Peers -> [Peers -> Nat]]
            /\ \A d, q \in Peers :
                 pollers'[d][q] = IF d = p /\ q = a.from THEN more ELSE pollers[d][q]
            BY <2>1, <4>1, <4>2, PollersUpdated
      <4> QED BY <4>3 DEF more
    <3>5. P2PTyped'
          BY <1>1, <2>2, <3>3, <3>4 DEF P2PTyped
    <3> SUFFICES ASSUME NEW d \in Peers, NEW q \in Peers
                 PROVE  pollers'[d][q] + Cardinality(Without(listeners'[d], q)) <= runs'[d]
        BY <3>5 DEF PollersInv, Without
    <3>6. pollers[d][q] + Cardinality(Without(listeners[d], q)) <= runs[d]
          BY DEF PollersInv
    <3>7. CASE ~(d = p /\ q = a.from)
          BY <2>2, <3>2, <3>3, <3>4, <3>6, <3>7
    <3>8. CASE d = p /\ q = a.from
      <4>1. /\ pollers[p][q] \in Nat /\ runs[p] \in Nat
            /\ Cardinality(Without(ls, q)) \in Nat
            BY <1>1, <2>1, WithoutFinite DEF P2PTyped
      <4>2. /\ pollers'[d][q] = pollers[p][q] + 1 /\ runs'[d] = runs[p]
            /\ Cardinality(Without(listeners'[d], q)) = Cardinality(Without(ls, q)) - 1
            BY <2>2, <3>2, <3>3, <3>4, <3>8
      <4> QED BY <3>6, <3>8, <4>1, <4>2
    <3> QED BY <3>7, <3>8
  <2> QED BY <2>3, <2>4
<1>6. ASSUME NEW p \in Peers, NEW q \in Peers, PollerEnds(p, q) PROVE PollersInv'
  <2>1. /\ pollers[p][q] > 0 /\ pollers' = [pollers EXCEPT ![p][q] = @ - 1]
        /\ UNCHANGED <<runs, listeners, rank, inbox>>
        BY <1>6 DEF PollerEnds
  <2>2. /\ pollers' \in [Peers -> [Peers -> Nat]]
        /\ \A d, e \in Peers : pollers'[d][e] <= pollers[d][e]
    <3> DEFINE fewer == pollers[p][q] - 1
    <3>1. pollers' = [pollers EXCEPT ![p][q] = fewer]
          BY <2>1
    <3>2. /\ pollers \in [Peers -> [Peers -> Nat]] /\ pollers[p][q] \in Nat
          /\ fewer \in Nat /\ fewer <= pollers[p][q]
          BY <1>1, <2>1 DEF P2PTyped
    <3> HIDE DEF fewer
    <3>3. /\ pollers' \in [Peers -> [Peers -> Nat]]
          /\ \A d, e \in Peers :
               pollers'[d][e] = IF d = p /\ e = q THEN fewer ELSE pollers[d][e]
          BY <3>1, <3>2, PollersUpdated
    <3>4. \A d, e \in Peers : pollers[d][e] \in Nat
          BY <3>2
    <3> QED BY <3>2, <3>3, <3>4
  <2>3. P2PTyped'
        BY <1>1, <2>1, <2>2 DEF P2PTyped
  <2>4. \A d, e \in Peers : Cardinality(Without(listeners[d], e)) \in Nat
        BY <1>1, WithoutFinite DEF P2PTyped
  <2>5. \A d, e \in Peers :
          /\ pollers'[d][e] <= pollers[d][e] /\ runs'[d] = runs[d]
          /\ Cardinality(Without(listeners'[d], e)) <= Cardinality(Without(listeners[d], e))
        BY <2>1, <2>2, <2>4
  <2> QED BY <2>3, <2>5, PollersStep
<1>7. ASSUME NEW p \in Peers, Restart(p) PROVE PollersInv'
  <2>1. /\ listeners' = [listeners EXCEPT ![p] = << >>] /\ UNCHANGED runs
        /\ pollers' = [pollers EXCEPT ![p] = [q \in Peers |-> 0]]
        /\ inbox' = [inbox EXCEPT ![p] = {}]
        /\ \E r \in Ranks : rank' = [rank EXCEPT ![p] = r]
        BY <1>7 DEF Restart
  <2>2. << >> \in Seq(Listener) /\ \A q \in Peers : Without(<< >>, q) = {}
        BY DEF Without
  <2>3. P2PTyped'
        BY <1>1, <2>1, <2>2 DEF P2PTyped
  <2> SUFFICES ASSUME NEW d \in Peers, NEW q \in Peers
               PROVE  pollers'[d][q] + Cardinality(Without(listeners'[d], q)) <= runs'[d]
      BY <2>3 DEF PollersInv, Without
  <2>4. CASE d # p
    <3>1. pollers'[d] = pollers[d] /\ listeners'[d] = listeners[d] /\ runs'[d] = runs[d]
          BY <1>1, <2>1, <2>4 DEF P2PTyped
    <3> QED BY <3>1 DEF PollersInv
  <2>5. CASE d = p
    <3>1. pollers'[d][q] = 0 /\ listeners'[d] = << >> /\ runs'[d] \in Nat
          BY <1>1, <2>1, <2>5 DEF P2PTyped
    <3>2. Cardinality(Without(listeners'[d], q)) = 0
          BY <2>2, <3>1, FS_EmptySet
    <3> QED BY <3>1, <3>2
  <2> QED BY <2>4, <2>5
<1>8. ASSUME NEW p \in Peers,
             \/ StopPolicy(p) \/ EndStop(p) \/ AdvertiserEnds(p)
             \/ \E q \in Peers : AdvertiseTo(p, q)
      PROVE  PollersInv'
  <2>1. inbox' \in [Peers -> SUBSET Announcement]
    <3>1. \A q \in Peers : [from |-> p, rank |-> rank[p]] \in Announcement
          BY <1>1 DEF P2PTyped, Announcement
    <3>2. \/ inbox' = inbox \/ inbox' = [inbox EXCEPT ![p] = {}]
          \/ \E q \in Peers :
               inbox' = [inbox EXCEPT ![q] = @ \union {[from |-> p, rank |-> rank[p]]}]
          BY <1>8 DEF StopPolicy, EndStop, AdvertiserEnds, AdvertiseTo
    <3> QED BY <1>1, <3>1, <3>2 DEF P2PTyped
  <2> QED BY <1>1, <1>8, <2>1, PollersQuiet
          DEF StopPolicy, EndStop, AdvertiserEnds, AdvertiseTo, P2PTyped
<1>9. CASE UNCHANGED p2pVars
      BY <1>1, <1>9, PollersQuiet DEF p2pVars, P2PTyped
<1> QED BY <1>2, <1>3, <1>4, <1>5, <1>6, <1>7, <1>8, <1>9 DEF P2PNext, Listening

\* Nobody polls at first.
LEMMA PollersInit == P2PInit => PollersInv
<1> SUFFICES ASSUME P2PInit PROVE PollersInv
    OBVIOUS
<1>1. << >> \in Seq(Listener) /\ \A q \in Peers : Without(<< >>, q) = {}
      BY DEF Without
<1>2. P2PTyped
      BY <1>1 DEF P2PInit, P2PTyped
<1>3. ASSUME NEW p \in Peers, NEW q \in Peers
      PROVE  pollers[p][q] + Cardinality(Without(listeners[p], q)) <= runs[p]
  <2>1. pollers[p][q] = 0 /\ listeners[p] = << >> /\ runs[p] = 0
        BY DEF P2PInit
  <2>2. Cardinality(Without(listeners[p], q)) = 0
        BY <1>1, <2>1, FS_EmptySet
  <2> QED BY <2>1, <2>2
<1> QED BY <1>2, <1>3 DEF PollersInv

\* A peer has at most one poller of a target for each run of the policy: the
\* listener enters a target in its list before it starts a poller of it
\* (policy/p2p, mdnsListen), and a run starts one listener.
THEOREM PollersAreBounded == P2PSpec => []PollersBounded
<1>1. P2PInit => PollersInv
      BY PollersInit
<1>2. PollersInv => PollersBounded
  <2> SUFFICES ASSUME PollersInv, NEW p \in Peers, NEW q \in Peers
               PROVE  pollers[p][q] <= runs[p]
      BY DEF PollersBounded
  <2>1. /\ pollers[p][q] \in Nat /\ runs[p] \in Nat
        /\ Cardinality(Without(listeners[p], q)) \in Nat
        BY WithoutFinite DEF PollersInv, P2PTyped
  <2> QED BY <2>1 DEF PollersInv
<1> QED BY <1>1, <1>2, PollersNext, PTL DEF P2PSpec

-----------------------------------------------------------------------------
\* While no rank was drawn anew, an announcement carries the rank of the peer it
\* comes from, and a peer polls only those of no lower rank.
TiesInv ==
    redrawn \/ /\ \A p \in Peers : \A a \in inbox[p] : a.rank = rank[a.from]
               /\ \A p, q \in Peers : pollers[p][q] > 0 => rank[p] <= rank[q]

\* Every step keeps TiesInv.
LEMMA TiesNext == PollersInv /\ TiesInv /\ [P2PNext]_p2pVars => TiesInv'
<1> SUFFICES ASSUME PollersInv, TiesInv, [P2PNext]_p2pVars, ~redrawn' PROVE TiesInv'
    BY DEF TiesInv
<1>1. P2PTyped
      BY DEF PollersInv
<1>2. ~redrawn
      BY DEF P2PNext, Listening, RunPolicy, StopPolicy, EndStop, AdvertiserEnds, Restart,
             ListenerBegins, ListenerEnds, Hear, AdvertiseTo, PollerEnds, HearStray, p2pVars
<1>3. /\ \A p \in Peers : \A a \in inbox[p] : a.rank = rank[a.from]
      /\ \A p, q \in Peers : pollers[p][q] > 0 => rank[p] <= rank[q]
      BY <1>2 DEF TiesInv
<1>4. ASSUME NEW p \in Peers, NEW l, NEW a \in Announcement, Hear(p, l, a) PROVE TiesInv'
  <2>1. /\ a \in inbox[p] /\ rank' = rank /\ inbox' = [inbox EXCEPT ![p] = @ \ {a}]
        /\ \/ pollers' = pollers
           \/ Wins(p, a) /\ pollers' = [pollers EXCEPT ![p][a.from] = @ + 1]
        BY <1>4 DEF Hear
  <2>2. \A q \in Peers : inbox'[q] \subseteq inbox[q]
        BY <1>1, <2>1 DEF P2PTyped
  <2>3. \A q \in Peers : \A b \in inbox'[q] : b.rank = rank'[b.from]
        BY <1>3, <2>1, <2>2
  <2>4. CASE pollers' = pollers
        BY <1>3, <2>1, <2>3, <2>4 DEF TiesInv
  <2>5. CASE Wins(p, a) /\ pollers' = [pollers EXCEPT ![p][a.from] = @ + 1]
    <3>1. rank[p] <= rank[a.from] /\ a.from \in Peers
          BY <1>3, <2>1, <2>5 DEF Wins, Announcement
    <3>2. pollers[p][a.from] \in Nat /\ pollers \in [Peers -> [Peers -> Nat]]
          BY <1>1, <3>1 DEF P2PTyped
    <3> DEFINE more == pollers[p][a.from] + 1
    <3>3. more \in Nat /\ pollers' = [pollers EXCEPT ![p][a.from] = more]
          BY <2>5, <3>2
    <3> HIDE DEF more
    <3>4. \A d, e \in Peers :
            pollers'[d][e] = IF d = p /\ e = a.from THEN more ELSE pollers[d][e]
          BY <3>1, <3>2, <3>3, PollersUpdated
    <3>5. \A d, e \in Peers : pollers'[d][e] > 0 => rank[d] <= rank[e]
          BY <1>3, <3>1, <3>4
    <3> QED BY <2>1, <2>3, <3>5 DEF TiesInv
  <2> QED BY <2>1, <2>4, <2>5
<1>5. ASSUME NEW p \in Peers, NEW q \in Peers, AdvertiseTo(p, q) PROVE TiesInv'
  <2>1. /\ inbox' = [inbox EXCEPT ![q] = @ \union {[from |-> p, rank |-> rank[p]]}]
        /\ rank' = rank /\ pollers' = pollers
        BY <1>5 DEF AdvertiseTo
  <2>2. \A d \in Peers : \A a \in inbox'[d] :
          a \in inbox[d] \/ a = [from |-> p, rank |-> rank[p]]
        BY <1>1, <2>1 DEF P2PTyped
  <2>3. \A d \in Peers : \A a \in inbox'[d] : a.rank = rank'[a.from]
        BY <1>3, <2>1, <2>2
  <2> QED BY <1>3, <2>1, <2>3 DEF TiesInv
<1>6. ASSUME NEW p \in Peers, NEW q \in Peers, PollerEnds(p, q) PROVE TiesInv'
  <2>1. /\ pollers[p][q] > 0 /\ pollers' = [pollers EXCEPT ![p][q] = @ - 1]
        /\ rank' = rank /\ inbox' = inbox
        BY <1>6 DEF PollerEnds
  <2>2. pollers[p][q] \in Nat /\ pollers \in [Peers -> [Peers -> Nat]]
        BY <1>1 DEF P2PTyped
  <2> DEFINE fewer == pollers[p][q] - 1
  <2>3. fewer \in Nat /\ pollers' = [pollers EXCEPT ![p][q] = fewer]
        BY <2>1, <2>2
  <2> HIDE DEF fewer
  <2>4. \A d, e \in Peers :
          pollers'[d][e] = IF d = p /\ e = q THEN fewer ELSE pollers[d][e]
        BY <2>2, <2>3, PollersUpdated
  <2>5. \A d, e \in Peers : pollers'[d][e] > 0 => pollers[d][e] > 0
        BY <2>1, <2>4
  <2> QED BY <1>3, <2>1, <2>5 DEF TiesInv
<1>7. ASSUME NEW p \in Peers, Restart(p) PROVE TiesInv'
  <2>1. /\ rank' = rank
        /\ inbox' = [inbox EXCEPT ![p] = {}]
        /\ pollers' = [pollers EXCEPT ![p] = [q \in Peers |-> 0]]
        BY <1>7 DEF Restart
  <2>2. \A d, e \in Peers : /\ pollers'[d][e] = IF d = p THEN 0 ELSE pollers[d][e]
                            /\ inbox'[d] \subseteq inbox[d]
        BY <1>1, <2>1 DEF P2PTyped
  <2>3. \A d \in Peers : \A a \in inbox'[d] : a.rank = rank'[a.from]
        BY <1>3, <2>1, <2>2
  <2>4. \A d, e \in Peers : pollers'[d][e] > 0 => rank'[d] <= rank'[e]
        BY <1>3, <2>1, <2>2
  <2> QED BY <2>3, <2>4 DEF TiesInv
<1>8. ASSUME UNCHANGED <<rank, pollers>>,
             inbox' = inbox \/ \E p \in Peers : inbox' = [inbox EXCEPT ![p] = {}]
      PROVE  TiesInv'
  <2>1. \A d \in Peers : inbox'[d] \subseteq inbox[d]
        BY <1>1, <1>8 DEF P2PTyped
  <2>2. \A d \in Peers : \A a \in inbox'[d] : a.rank = rank'[a.from]
        BY <1>3, <1>8, <2>1
  <2> QED BY <1>3, <1>8, <2>2 DEF TiesInv
<1>9. ASSUME NEW p \in Peers,
             \/ RunPolicy(p) \/ StopPolicy(p) \/ EndStop(p) \/ AdvertiserEnds(p)
             \/ \E l \in DOMAIN listeners[p] :
                  ListenerBegins(p, l) \/ ListenerEnds(p, l) \/ HearStray(p, l)
      PROVE  TiesInv'
      BY <1>8, <1>9 DEF RunPolicy, StopPolicy, EndStop, AdvertiserEnds,
                        ListenerBegins, ListenerEnds, HearStray
<1> QED BY <1>4, <1>5, <1>6, <1>7, <1>8, <1>9 DEF P2PNext, Listening, p2pVars

\* Unless a rank was drawn anew, two peers poll each other only when they drew the
\* same rank: an announcement carries the rank of its sender, which keeps it, and
\* a peer polls only those of no lower rank (policy/p2p, mdnsListen).
THEOREM TiesOnly == P2PSpec => []BothPollOnTies
<1>1. P2PInit => TiesInv
      BY DEF P2PInit, TiesInv
<1>2. P2PInit => PollersInv
      BY PollersInit
<1>3. PollersInv /\ TiesInv => BothPollOnTies
  <2> SUFFICES ASSUME PollersInv, TiesInv, ~redrawn, NEW p \in Peers, NEW q \in Peers,
                      pollers[p][q] > 0, pollers[q][p] > 0
               PROVE  rank[p] = rank[q]
      BY DEF BothPollOnTies
  <2>1. rank[p] \in Nat /\ rank[q] \in Nat
        BY P2PAssumption DEF PollersInv, P2PTyped
  <2> QED BY <2>1 DEF TiesInv
<1> QED BY <1>1, <1>2, <1>3, PollersNext, TiesNext, PTL DEF P2PSpec
=============================================================================
