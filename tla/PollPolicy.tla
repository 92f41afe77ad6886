----------------------------- MODULE PollPolicy -----------------------------
(***************************************************************************)
(* The poll policy (policy/poll): a goroutine that goes round the enabled  *)
(* peers of one group, counting consecutive failures; a peer with          *)
(* RetryAttempts of them is left out, and when all are left out the policy *)
(* moves to the next group.  RunPolicy starts the goroutine; Stop clears a *)
(* flag that it reads once a round, and waits for it.                      *)
(*                                                                         *)
(* A call of PollServer, which Flood describes, succeeds if the peer can   *)
(* be reached and fails if not.  The names that Flood has too are          *)
(* prefixed, so that FloodProofs can extend both.                          *)
(***************************************************************************)
EXTENDS Integers, Sequences

CONSTANTS
    Peers,
    Groups,         \* the enabled peers of each group of the policy, in turn
    Loops,          \* goroutines a policy may have
    RetryAttempts,
    FlushEvery,     \* rounds between two flushes
    Hasty,          \* RunPolicy and Stop may be called while a goroutine has
                    \* not yet set isRunning, or while another Stop waits
    MaxRuns, MaxChanges     \* bounds of the model

ASSUME PollAssumption ==
    /\ Groups \in Seq(SUBSET Peers) /\ Groups # << >>
    /\ Hasty \in BOOLEAN
    /\ RetryAttempts \in Nat \ {0} /\ FlushEvery \in Nat \ {0}
    /\ MaxRuns \in Nat /\ MaxChanges \in Nat

VARIABLES
    RetryForever,   \* set by the application before it runs the policy
    isRunning,
    curGroupIndex,  \* index in Groups, from 1
    pc,             \* loop -> where its goroutine is
    fails,          \* loop -> peer -> consecutive failures (0: not in the map)
    tries,          \* loop -> was a peer tried in this round?
    todo,           \* loop -> peers left in this round
    counter,        \* loop -> rounds since the last flush
    stopping,       \* a Stop waits for the goroutines
    up,             \* peers that can be reached
    runs, changes

loopVars == <<pc, fails, tries, todo, counter>>
env      == <<RetryForever, up, changes>>
pollVars == <<isRunning, curGroupIndex, loopVars, stopping, env, runs>>

NoFails == [p \in Peers |-> 0]

PollInit ==
    /\ isRunning = FALSE
    /\ curGroupIndex = 1
    /\ pc = [t \in Loops |-> "none"]
    /\ fails = [t \in Loops |-> NoFails]
    /\ tries = [t \in Loops |-> FALSE]
    /\ todo = [t \in Loops |-> {}]
    /\ counter = [t \in Loops |-> 0]
    /\ stopping = FALSE
    /\ RetryForever \in BOOLEAN
    /\ up \in SUBSET Peers
    /\ runs = 0 /\ changes = 0

\* What a patient caller waits for before it calls RunPolicy or Stop.
Settled == ~stopping /\ \A t \in Loops : pc[t] \notin {"spawned", "checked"}

-----------------------------------------------------------------------------
(***************************************************************************)
(* Starting and stopping.                                                  *)
(***************************************************************************)
\* While isRunning is set this returns "Policy is already running".
RunPolicy(t) ==
    /\ Hasty \/ Settled
    /\ runs < MaxRuns
    /\ ~isRunning /\ pc[t] = "none"
    /\ runs' = runs + 1
    /\ pc' = [pc EXCEPT ![t] = "spawned"]
    /\ UNCHANGED <<isRunning, curGroupIndex, fails, tries, todo, counter, stopping, env>>

\* The goroutine tests isRunning once more ...
Check(t) ==
    /\ pc[t] = "spawned"
    /\ pc' = [pc EXCEPT ![t] = IF isRunning THEN "none" ELSE "checked"]
    /\ UNCHANGED <<isRunning, curGroupIndex, fails, tries, todo, counter, stopping, env, runs>>

\* ... and sets it.
SetRunning(t) ==
    /\ pc[t] = "checked"
    /\ isRunning' = TRUE
    /\ pc' = [pc EXCEPT ![t] = "top"]
    /\ fails' = [fails EXCEPT ![t] = NoFails]
    /\ counter' = [counter EXCEPT ![t] = 0]
    /\ UNCHANGED <<curGroupIndex, tries, todo, stopping, env, runs>>

\* Stop clears the flag ...
Stop ==
    /\ Hasty \/ Settled
    /\ ~stopping /\ runs > 0
    /\ isRunning' = FALSE
    /\ stopping' = TRUE
    /\ UNCHANGED <<curGroupIndex, loopVars, env, runs>>

\* Mutant: it does not wait.
StopWaited_Not ==
    /\ stopping
    /\ stopping' = FALSE
    /\ UNCHANGED <<isRunning, curGroupIndex, loopVars, env, runs>>

\* ... and waits for the goroutines.
StopWaited ==
    /\ stopping /\ \A t \in Loops : pc[t] = "none"
    /\ stopping' = FALSE
    /\ UNCHANGED <<isRunning, curGroupIndex, loopVars, env, runs>>

-----------------------------------------------------------------------------
(***************************************************************************)
(* A round.  (When GetPeers fails the round is left out; nothing changes.) *)
(***************************************************************************)
\* Mutant: the flag is not read.
Top_Endless(t) ==
    /\ pc[t] = "top"
    /\ pc' = [pc EXCEPT ![t] = "round"]
    /\ todo' = [todo EXCEPT ![t] = Groups[curGroupIndex]]
    /\ tries' = [tries EXCEPT ![t] = FALSE]
    /\ UNCHANGED <<isRunning, curGroupIndex, fails, counter, stopping, env, runs>>

Top(t) ==
    /\ pc[t] = "top"
    /\ \/ ~isRunning /\ pc' = [pc EXCEPT ![t] = "none"] /\ UNCHANGED <<todo, tries>>
       \/ /\ isRunning
          /\ pc' = [pc EXCEPT ![t] = "round"]
          /\ todo' = [todo EXCEPT ![t] = Groups[curGroupIndex]]
          /\ tries' = [tries EXCEPT ![t] = FALSE]
    /\ UNCHANGED <<isRunning, curGroupIndex, fails, counter, stopping, env, runs>>

Poll(t, p) ==
    /\ pc[t] = "round" /\ p \in todo[t]
    /\ fails[t][p] < RetryAttempts
    /\ tries' = [tries EXCEPT ![t] = TRUE]
    /\ fails' = [fails EXCEPT ![t][p] = IF p \in up THEN 0 ELSE @ + 1]
    /\ todo' = [todo EXCEPT ![t] = @ \ {p}]
    /\ UNCHANGED <<isRunning, curGroupIndex, pc, counter, stopping, env, runs>>

LeaveOut(t, p) ==
    /\ pc[t] = "round" /\ p \in todo[t]
    /\ fails[t][p] >= RetryAttempts
    /\ todo' = [todo EXCEPT ![t] = @ \ {p}]
    /\ UNCHANGED <<isRunning, curGroupIndex, pc, fails, tries, counter, stopping, env, runs>>

\* Mutant: the failures counted so far are kept.
NextGroup_FailsKept(t) ==
    /\ curGroupIndex' = IF curGroupIndex < Len(Groups) THEN curGroupIndex + 1
                        ELSE IF RetryForever THEN 1 ELSE curGroupIndex
    /\ UNCHANGED fails

\* Nobody was tried: on to the next group, or back to the first.
NextGroup(t) ==
    \/ /\ curGroupIndex < Len(Groups)
       /\ curGroupIndex' = curGroupIndex + 1
       /\ fails' = [fails EXCEPT ![t] = NoFails]
    \/ /\ curGroupIndex = Len(Groups) /\ RetryForever
       /\ curGroupIndex' = 1
       /\ fails' = [fails EXCEPT ![t] = NoFails]
    \/ /\ curGroupIndex = Len(Groups) /\ ~RetryForever
       /\ UNCHANGED <<curGroupIndex, fails>>

\* Mutant: only rounds in which nobody was tried are counted.
Counted_Idle(t) == IF tries[t] THEN counter[t] ELSE (counter[t] + 1) % FlushEvery

\* FlushOutbox is called in the rounds in which this was 0.
Counted(t) == (counter[t] + 1) % FlushEvery

EndRound(t) ==
    /\ pc[t] = "round" /\ todo[t] = {}
    /\ \/ ~tries[t] /\ NextGroup(t)
       \/ tries[t] /\ UNCHANGED <<curGroupIndex, fails>>
    /\ counter' = [counter EXCEPT ![t] = Counted(t)]
    /\ pc' = [pc EXCEPT ![t] = "top"]
    /\ UNCHANGED <<isRunning, tries, todo, stopping, env, runs>>

\* A peer becomes reachable, or can be reached no more.
Change(p) ==
    /\ changes < MaxChanges
    /\ changes' = changes + 1
    /\ up' = IF p \in up THEN up \ {p} ELSE up \cup {p}
    /\ UNCHANGED <<RetryForever, isRunning, curGroupIndex, loopVars, stopping, runs>>

Loop(t) ==
    \/ Check(t) \/ SetRunning(t) \/ Top(t) \/ EndRound(t)
    \/ \E p \in Peers : Poll(t, p) \/ LeaveOut(t, p)

PollNext ==
    \/ \E t \in Loops : RunPolicy(t) \/ Loop(t)
    \/ Stop \/ StopWaited
    \/ \E p \in Peers : Change(p)

PollSpec == PollInit /\ [][PollNext]_pollVars

\* The goroutines go on (every call of PollServer returns), and so does a Stop
\* that need not wait any longer.
PollFairSpec == PollSpec /\ WF_pollVars(StopWaited) /\ \A t \in Loops : WF_pollVars(Loop(t))

-----------------------------------------------------------------------------
(***************************************************************************)
(* Properties.                                                             *)
(***************************************************************************)
\* Every variable of the policy keeps its type; the group index, which Top uses
\* unchecked, stays in the list of groups (type invariant).
PollTypeOK ==
    /\ RetryForever \in BOOLEAN /\ isRunning \in BOOLEAN /\ stopping \in BOOLEAN
    /\ curGroupIndex \in 1..Len(Groups)
    /\ pc \in [Loops -> {"none", "spawned", "checked", "top", "round"}]
    /\ fails \in [Loops -> [Peers -> 0..RetryAttempts]]
    /\ tries \in [Loops -> BOOLEAN]
    /\ todo \in [Loops -> SUBSET Peers]
    /\ counter \in [Loops -> 0..FlushEvery - 1]
    /\ up \subseteq Peers
    /\ runs \in 0..MaxRuns /\ changes \in 0..MaxChanges

\* However often the policy is stopped and run again, one goroutine at most goes
\* round the peers: curGroupIndex and the peer table are not shared.
Going(t) == pc[t] \in {"top", "round"}
OneLoop == \A t, u \in Loops : Going(t) /\ Going(u) => t = u

\* A call of Stop returns: the goroutine sees the cleared flag in the end.
StopReturns == stopping ~> ~stopping

\* While the policy runs and retries for ever, and some peer of one of its
\* groups can be reached, it goes on exchanging messages with some peer: the
\* move to the next group finds it, although peers failed before.
Member(p) == \E g \in 1..Len(Groups) : p \in Groups[g]
FailOver ==
    \A t \in Loops :
        /\ RetryForever /\ <>[]Going(t)
        /\ \E p \in Peers : Member(p) /\ <>[](p \in up)
        => []<><<\E p \in Peers : Poll(t, p) /\ p \in up>>_pollVars

\* While the policy runs, FlushOutbox is called again and again.
Flushes ==
    \A t \in Loops : <>[]Going(t) => []<><<EndRound(t) /\ counter[t] = 0>>_pollVars
=============================================================================
