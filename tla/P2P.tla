-------------------------------- MODULE P2P --------------------------------
(***************************************************************************)
(* The peer-to-peer policy (policy/p2p): peers announce their address and  *)
(* a random rank by multicast; of two peers the one with the lower rank    *)
(* polls the other.  RunPolicy starts a listener and an advertiser, the    *)
(* listener starts one poller for each target it wins.  Stop (StopPolicy   *)
(* here) waits for the listener and the advertiser, not for the pollers,   *)
(* and the listener enters itself in the wait group only when it begins to *)
(* run.                                                                    *)
(*                                                                         *)
(* The names that NodeLife has too are prefixed, so that LifecycleProofs   *)
(* can extend both.                                                        *)
(***************************************************************************)
EXTENDS Integers, FiniteSets, SequencesExt

CONSTANTS
    Peers,
    Ranks,                          \* negotiation ranks, 64 bits in the code
    MaxRuns, MaxRestarts, MaxStray  \* bounds of the model

ASSUME P2PAssumption ==
    /\ Ranks \subseteq Nat /\ Ranks # {}
    /\ MaxRuns \in Nat /\ MaxRestarts \in Nat /\ MaxStray \in Nat

VARIABLES
    rank,       \* peer -> its rank, drawn once for each instance of the policy
    listening,  \* peer -> isListening (and isAdvertising; its sockets are open)
    stopping,   \* peer -> its Stop waits for the wait group
    advertiser, \* peer -> its advertiser runs
    listeners,  \* peer -> sequence of [at, peerlist], one for each mdnsListen
    inbox,      \* peer -> announcements in its listening socket
    pollers,    \* peer -> target -> how many goroutines poll it
    runs,       \* peer -> calls of RunPolicy
    restarts, stray,
    \* History, read by the properties only:
    garbled,    \* peers whose listener met a name it cannot decode
    redrawn     \* some peer began anew with another rank

p2pVars == <<rank, listening, stopping, advertiser, listeners, inbox, pollers, runs,
             restarts, stray, garbled, redrawn>>

Announcement == [from : Peers, rank : Ranks]

P2PInit ==
    /\ rank \in [Peers -> Ranks]
    /\ listening = [p \in Peers |-> FALSE]
    /\ stopping = [p \in Peers |-> FALSE]
    /\ advertiser = [p \in Peers |-> FALSE]
    /\ listeners = [p \in Peers |-> << >>]
    /\ inbox = [p \in Peers |-> {}]
    /\ pollers = [p \in Peers |-> [q \in Peers |-> 0]]
    /\ runs = [p \in Peers |-> 0]
    /\ restarts = 0 /\ stray = 0 /\ garbled = {} /\ redrawn = FALSE

-----------------------------------------------------------------------------
RunPolicy(p) ==
    /\ ~listening[p] /\ ~stopping[p] /\ runs[p] < MaxRuns
    /\ runs' = [runs EXCEPT ![p] = @ + 1]
    /\ listening' = [listening EXCEPT ![p] = TRUE]
    /\ advertiser' = [advertiser EXCEPT ![p] = TRUE]
    /\ listeners' = [listeners EXCEPT ![p] = Append(@, [at |-> "born", peerlist |-> {}])]
    /\ garbled' = garbled \ {p}
    /\ UNCHANGED <<rank, stopping, inbox, pollers, restarts, stray, redrawn>>

\* It clears the flags, closes the sockets, and waits.
StopPolicy(p) ==
    /\ listening[p]
    /\ listening' = [listening EXCEPT ![p] = FALSE]
    /\ stopping' = [stopping EXCEPT ![p] = TRUE]
    /\ inbox' = [inbox EXCEPT ![p] = {}]
    /\ UNCHANGED <<rank, advertiser, listeners, pollers, runs, restarts, stray, garbled, redrawn>>

Counted(p) == {l \in DOMAIN listeners[p] : listeners[p][l].at = "reading"}

EndStop(p) ==
    /\ stopping[p] /\ ~advertiser[p] /\ Counted(p) = {}
    /\ stopping' = [stopping EXCEPT ![p] = FALSE]
    /\ UNCHANGED <<rank, listening, advertiser, listeners, inbox, pollers, runs,
                   restarts, stray, garbled, redrawn>>

\* Multicast: each receiver gets an announcement or not.  A peer hears its own too
\* and drops it, which is left out.
AdvertiseTo(p, q) ==
    /\ p # q /\ advertiser[p] /\ listening[p] /\ listening[q]
    /\ inbox' = [inbox EXCEPT ![q] = @ \union {[from |-> p, rank |-> rank[p]]}]
    /\ UNCHANGED <<rank, listening, stopping, advertiser, listeners, pollers, runs,
                   restarts, stray, garbled, redrawn>>

AdvertiserEnds(p) ==
    /\ advertiser[p] /\ ~listening[p]
    /\ advertiser' = [advertiser EXCEPT ![p] = FALSE]
    /\ UNCHANGED <<rank, listening, stopping, listeners, inbox, pollers, runs,
                   restarts, stray, garbled, redrawn>>

-----------------------------------------------------------------------------
(***************************************************************************)
(* The listener.                                                           *)
(***************************************************************************)
Removed(ls, l) == SubSeq(ls, 1, l - 1) \o SubSeq(ls, l + 1, Len(ls))

\* wg.Add(1), and the first look at the flag.
ListenerBegins(p, l) ==
    /\ listeners[p][l].at = "born"
    /\ listeners' = [listeners EXCEPT ![p] =
           IF listening[p] THEN [@ EXCEPT ![l].at = "reading"] ELSE Removed(@, l)]
    /\ UNCHANGED <<rank, listening, stopping, advertiser, inbox, pollers, runs,
                   restarts, stray, garbled, redrawn>>

\* Mutant: of two equal ranks none polls.
Wins_Strictly(p, a) == a.rank > 0 /\ rank[p] < a.rank

\* The lowest rank does the push and pull; a rank of 0 counts as missing.
Wins(p, a) == a.rank > 0 /\ rank[p] <= a.rank

\* Mutant: the target is not entered in the list of peers.
Hear_NotListed(p, l, a) ==
    /\ listeners[p][l].at = "reading" /\ a \in inbox[p]
    /\ inbox' = [inbox EXCEPT ![p] = @ \ {a}]
    /\ pollers' = IF Wins(p, a) THEN [pollers EXCEPT ![p][a.from] = @ + 1] ELSE pollers
    /\ UNCHANGED <<rank, listening, stopping, advertiser, listeners, runs,
                   restarts, stray, garbled, redrawn>>

Hear(p, l, a) ==
    /\ listeners[p][l].at = "reading" /\ a \in inbox[p]
    /\ inbox' = [inbox EXCEPT ![p] = @ \ {a}]
    /\ IF Wins(p, a) /\ a.from \notin listeners[p][l].peerlist
         THEN /\ listeners' = [listeners EXCEPT ![p][l].peerlist = @ \union {a.from}]
              /\ pollers' = [pollers EXCEPT ![p][a.from] = @ + 1]
         ELSE UNCHANGED <<listeners, pollers>>
    /\ UNCHANGED <<rank, listening, stopping, advertiser, runs, restarts, stray, garbled, redrawn>>

\* A message of another program has a name that begins with "rn." or "ng." and is
\* not in hexadecimal: the listener returns, and the policy goes on without one.
HearStray(p, l) ==
    /\ listeners[p][l].at = "reading" /\ listening[p] /\ stray < MaxStray
    /\ stray' = stray + 1
    /\ garbled' = garbled \union {p}
    /\ listeners' = [listeners EXCEPT ![p] = Removed(@, l)]
    /\ UNCHANGED <<rank, listening, stopping, advertiser, inbox, pollers, runs, restarts, redrawn>>

\* The socket is closed: the read fails.
ListenerEnds(p, l) ==
    /\ listeners[p][l].at = "reading" /\ ~listening[p]
    /\ listeners' = [listeners EXCEPT ![p] = Removed(@, l)]
    /\ UNCHANGED <<rank, listening, stopping, advertiser, inbox, pollers, runs,
                   restarts, stray, garbled, redrawn>>

\* A poller looks at the flag between two polls.
PollerEnds(p, q) ==
    /\ pollers[p][q] > 0 /\ ~listening[p]
    /\ pollers' = [pollers EXCEPT ![p][q] = @ - 1]
    /\ UNCHANGED <<rank, listening, stopping, advertiser, listeners, inbox, runs,
                   restarts, stray, garbled, redrawn>>

\* The process ends and begins again: New draws a rank.
Restart(p) ==
    /\ restarts < MaxRestarts
    /\ restarts' = restarts + 1
    /\ \E r \in Ranks : rank' = [rank EXCEPT ![p] = r]
    /\ redrawn' = (redrawn \/ rank' # rank)
    /\ listening' = [listening EXCEPT ![p] = FALSE]
    /\ stopping' = [stopping EXCEPT ![p] = FALSE]
    /\ advertiser' = [advertiser EXCEPT ![p] = FALSE]
    /\ listeners' = [listeners EXCEPT ![p] = << >>]
    /\ inbox' = [inbox EXCEPT ![p] = {}]
    /\ pollers' = [pollers EXCEPT ![p] = [q \in Peers |-> 0]]
    /\ garbled' = garbled \ {p}
    /\ UNCHANGED <<runs, stray>>

Listening(p) ==
    \E l \in DOMAIN listeners[p] :
        \/ ListenerBegins(p, l) \/ ListenerEnds(p, l)
        \/ \E a \in Announcement : Hear(p, l, a)

P2PNext ==
    \E p \in Peers :
        \/ RunPolicy(p) \/ StopPolicy(p) \/ EndStop(p) \/ AdvertiserEnds(p)
        \/ Restart(p) \/ Listening(p)
        \/ \E q \in Peers : AdvertiseTo(p, q) \/ PollerEnds(p, q)
        \/ \E l \in DOMAIN listeners[p] : HearStray(p, l)

P2PSpec == P2PInit /\ [][P2PNext]_p2pVars

\* Goroutines go on; an announcement is repeated at every interval, and one of
\* them arrives.  Nobody has to start or stop the policy.
P2PFairSpec ==
    /\ P2PSpec
    /\ \A p \in Peers :
        /\ WF_p2pVars(EndStop(p)) /\ WF_p2pVars(AdvertiserEnds(p))
        /\ WF_p2pVars(\E l \in DOMAIN listeners[p] : ListenerBegins(p, l))
        /\ WF_p2pVars(\E l \in DOMAIN listeners[p] : ListenerEnds(p, l))
        /\ WF_p2pVars(\E l \in DOMAIN listeners[p], a \in Announcement : Hear(p, l, a))
        /\ \A q \in Peers : WF_p2pVars(AdvertiseTo(p, q)) /\ WF_p2pVars(PollerEnds(p, q))

-----------------------------------------------------------------------------
(***************************************************************************)
(* Properties.                                                             *)
(***************************************************************************)
P2PTypeOK ==
    /\ rank \in [Peers -> Ranks]
    /\ {listening, stopping, advertiser} \subseteq [Peers -> BOOLEAN]
    /\ listeners \in [Peers -> Seq([at : {"born", "reading"}, peerlist : SUBSET Peers])]
    /\ inbox \in [Peers -> SUBSET Announcement]
    /\ pollers \in [Peers -> [Peers -> 0 .. MaxRuns]]
    /\ runs \in [Peers -> 0 .. MaxRuns]
    /\ garbled \subseteq Peers /\ redrawn \in BOOLEAN

\* A peer has at most one poller of a target for each time the policy was run: a
\* poller that slept through Stop and RunPolicy goes on, and the new listener,
\* with a new list of peers, starts another.
PollersBounded == \A p, q \in Peers : pollers[p][q] <= runs[p]

\* A target is polled once.  (Fails: see PollersBounded.)
OnePoller == \A p, q \in Peers : pollers[p][q] <= 1

\* Of two peers that poll each other the ranks are equal, unless a rank was drawn
\* anew, and then both may go on polling.
BothPollOnTies ==
    redrawn \/ \A p, q \in Peers : pollers[p][q] > 0 /\ pollers[q][p] > 0 => rank[p] = rank[q]

\* Of two peers that run the policy, one polls the other in the end, unless both
\* drew 0, which counts as no rank, or a listener ended at a stray message.
Paired ==
    \A p, q \in Peers :
        p # q =>
            (listening[p] /\ listening[q])
                ~> \/ pollers[p][q] > 0 \/ pollers[q][p] > 0
                   \/ ~listening[p] \/ ~listening[q]
                   \/ rank[p] = 0 /\ rank[q] = 0
                   \/ p \in garbled \/ q \in garbled

\* Two peers that run the policy are paired.  (Fails: a stray message, or two
\* ranks of 0.)
AlwaysPaired ==
    \A p, q \in Peers :
        p # q =>
            (listening[p] /\ listening[q])
                ~> (pollers[p][q] > 0 \/ pollers[q][p] > 0 \/ ~listening[p] \/ ~listening[q])
=============================================================================
