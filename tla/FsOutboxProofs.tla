--------------------------- MODULE FsOutboxProofs ---------------------------
(***************************************************************************)
(* Proofs about FsOutbox: type correctness, the order in which a reader is *)
(* handed messages, and what a Pickup may pass over, for any number of     *)
(* writers, readers, directories and messages.                             *)
(***************************************************************************)
EXTENDS FsOutbox, TLAPS

\* What the fields of a file are, as numbers.
LEMMA FileFields ==
    ASSUME NEW f \in Files
    PROVE  /\ f.id \in Nat /\ f.id > 0 /\ f.dir \in Dirs
           /\ f.time \in Nat /\ f.time > 0 /\ f.time <= MaxTime
           /\ f.size \in Nat
<1>1. /\ f.id \in 1 .. MaxMsgs /\ f.dir \in Dirs /\ f.time \in 1 .. MaxTime
      /\ f.size \in Sizes \cup {0}
      BY DEF Files
<1>2. MaxMsgs \in Nat /\ MaxTime \in Nat /\ Sizes \subseteq Nat
      BY FsAssumption
<1>3. f.size \in Nat
  <2>1. CASE f.size \in Sizes
        BY <1>2, <2>1, Zenon
  <2>2. CASE f.size = 0
        BY <2>2
  <2> QED BY <1>1, <2>1, <2>2, Zenon
<1>4. /\ f.id \in Nat /\ f.id > 0
      /\ f.time \in Nat /\ f.time > 0 /\ f.time <= MaxTime
      BY <1>1, <1>2
<1> QED BY <1>1, <1>3, <1>4

\* A walk that takes a file and goes on is a walk.
LEMMA TakenIsWalk ==
    ASSUME NEW W \in Walks, NEW p \in SUBSET Files, NEW b \in Nat, NEW t \in 0 .. MaxTime
    PROVE  [W EXCEPT !.picked = p, !.bytes = b, !.time = t] \in Walks
<1> DEFINE F == SUBSET Files  E == SUBSET Entries  T == 0 .. MaxTime
<1> HIDE DEF F, E, T
<1> QED BY DEF Walks, F, E, T

\* Every step of the specification keeps every variable in its type.
LEMMA TypeStep == TypeOK /\ [Next]_vars => TypeOK'
<1> USE FsAssumption DEF Dirs
<1> SUFFICES ASSUME TypeOK, [Next]_vars PROVE TypeOK'
    OBVIOUS
<1>1. ASSUME NEW w \in Writers, NEW d \in Dirs, NEW s \in Sizes, Stamp(w, d, s)
      PROVE  TypeOK'
  <2>1. [id |-> made + 1, dir |-> d, size |-> s, time |-> now + 1, created |-> FALSE] \in Drafts
        BY <1>1 DEF TypeOK, Stamp, Drafts
  <2>2. writing' \in [Writers -> Drafts \cup {Idle}]
        BY <1>1, <2>1 DEF TypeOK, Stamp
  <2> QED BY <1>1, <2>2 DEF TypeOK, Stamp
<1>2. ASSUME NEW w \in Writers, Create(w) PROVE TypeOK'
  <2>1. writing[w] \in Drafts
        BY <1>2 DEF TypeOK, Create
  <2>2. [id |-> writing[w].id, dir |-> writing[w].dir,
         time |-> writing[w].time, size |-> 0, modTime |-> now] \in Files
        BY <2>1 DEF TypeOK, Drafts, Files
  <2>3. [writing[w] EXCEPT !.created = TRUE] \in Drafts
        BY <2>1 DEF Drafts
  <2>4. writing' \in [Writers -> Drafts \cup {Idle}]
        BY <1>2, <2>3 DEF TypeOK, Create
  <2> QED BY <1>2, <2>2, <2>4 DEF TypeOK, Create
<1>3. ASSUME NEW w \in Writers, Write(w) PROVE TypeOK'
  <2>1. writing[w] \in Drafts
        BY <1>3 DEF TypeOK, Write
  <2>2. ASSUME NEW f \in files
        PROVE  [f EXCEPT !.size = writing[w].size, !.modTime = now] \in Files
    <3>1. f \in Files /\ now \in 1 .. MaxTime /\ writing[w].size \in Sizes
          BY <2>1 DEF TypeOK, Drafts
    <3> QED BY <3>1 DEF Files
  <2>3. files' \subseteq Files
    <3>1. ASSUME NEW g \in files' PROVE g \in Files
      <4>1. PICK f \in files : g = IF f.id = writing[w].id
                                  THEN [f EXCEPT !.size = writing[w].size, !.modTime = now]
                                  ELSE f
            BY <1>3 DEF Write
      <4> QED BY <4>1, <2>2 DEF TypeOK
    <3> QED BY <3>1
  <2> QED BY <1>3, <2>3 DEF TypeOK, Write
<1>4. ASSUME NEW r \in Readers, PickupStep(r) PROVE TypeOK'
  <2>0. ASSUME NEW W, W \in Walks \cup {Idle}, walk' = [walk EXCEPT ![r] = W]
        PROVE  walk' \in [Readers -> Walks \cup {Idle}]
        BY <2>0 DEF TypeOK
  <2>1. CASE Pickup(r)
    <3>1. [id |-> 1, todo |-> Names(Root) \cup {[dir |-> d, time |-> 0] : d \in dirs},
           time |-> cursor[r], bytes |-> 0, picked |-> {},
           start |-> {f \in files : f.size > 0}] \in Walks
          BY DEF TypeOK, Walks, Names, Entries, Files
    <3> QED BY <2>0, <2>1, <3>1 DEF TypeOK, Pickup
  <2>2. ASSUME NEW e \in Entries, VisitDir(r, e) PROVE TypeOK'
    <3>1. walk[r] \in Walks
          BY <2>2 DEF TypeOK, VisitDir, IsNext
    <3>2. [walk[r] EXCEPT !.todo = (@ \ {e}) \cup Names(e.dir)] \in Walks
          BY <3>1 DEF TypeOK, Walks, Names, Entries, Files
    <3> QED BY <2>0, <2>2, <3>2 DEF TypeOK, VisitDir
  <2>3. ASSUME NEW e \in Entries, VisitFile(r, e) PROVE TypeOK'
    <3>1. walk[r] \in Walks
          BY <2>3 DEF TypeOK, VisitFile, IsNext
    <3>2. PICK f \in files :
              walk' = [walk EXCEPT ![r] = [Taken(r, f) EXCEPT !.todo = @ \ {e}]]
          BY <2>3 DEF VisitFile
    <3>3. f \in Files
          BY DEF TypeOK
    <3>4. Taken(r, f) \in Walks
      <4>1. f.size \in Nat /\ f.time \in 0 .. MaxTime
            BY <3>3, FileFields
      <4>2. walk[r].bytes + f.size \in Nat /\ walk[r].picked \cup {f} \in SUBSET Files
            BY <3>1, <3>3, <4>1 DEF Walks
      <4> DEFINE p == walk[r].picked \cup {f}  b == walk[r].bytes + f.size
      <4>3. p \in SUBSET Files /\ b \in Nat
            BY <4>2
      <4> HIDE DEF p, b
      <4>4. [walk[r] EXCEPT !.picked = p, !.bytes = b, !.time = f.time] \in Walks
            BY ONLY <3>1, <4>1, <4>3, TakenIsWalk
      <4> QED BY <3>1, <4>4 DEF Taken, p, b
    <3>5. [Taken(r, f) EXCEPT !.todo = @ \ {e}] \in Walks
          BY <3>4 DEF Walks
    <3> QED BY <2>0, <2>3, <3>2, <3>5 DEF TypeOK, VisitFile
  <2>4. ASSUME NEW e \in Entries, LimitReached(r, e) PROVE TypeOK'
    <3>1. walk[r] \in Walks
          BY <2>4 DEF TypeOK, LimitReached, IsNext
    <3>2. [walk[r] EXCEPT !.todo = {}] \in Walks
          BY <3>1 DEF Walks
    <3> QED BY <2>0, <2>4, <3>2 DEF TypeOK, LimitReached, Cut
  <2>5. ASSUME NEW e \in Entries, TooBig(r, e) PROVE TypeOK'
        BY <2>5 DEF TypeOK, TooBig, EndProcess
  <2>6. ASSUME NEW e \in Entries, Vanished(r, e) PROVE TypeOK'
        BY <2>6, <2>0 DEF TypeOK, Vanished
  <2>7. CASE EndPickup(r)
    <3>1. walk[r] \in Walks
          BY <2>7 DEF TypeOK, EndPickup
    <3>2. walk[r].time \in 0 .. MaxTime /\ walk[r].picked \subseteq Files
          BY <3>1 DEF Walks
    <3> QED BY <2>0, <2>7, <3>2 DEF TypeOK, EndPickup
  <2> QED BY <1>4, <2>1, <2>2, <2>3, <2>4, <2>5, <2>6, <2>7 DEF PickupStep
<1>5. ASSUME NEW f \in files, Flush(f) PROVE TypeOK'
      BY <1>5 DEF TypeOK, Flush
<1>6. CASE Crash
      BY <1>6 DEF TypeOK, Crash, EndProcess
<1>7. CASE Tick
      BY <1>7 DEF TypeOK, Tick
<1>8. CASE UNCHANGED vars
      BY <1>8 DEF TypeOK, vars
<1> QED BY <1>1, <1>2, <1>3, <1>4, <1>5, <1>6, <1>7, <1>8 DEF Next

\* The files, the walks and the cursors of the file-system outbox keep their
\* types, whatever is written, picked up, flushed or lost in a crash.
THEOREM FsTyped == Spec => []TypeOK
<1>1. Init => TypeOK
      BY FsAssumption DEF Init, TypeOK, Dirs
<1> QED BY <1>1, TypeStep, PTL DEF Spec

-----------------------------------------------------------------------------
(***************************************************************************)
(* What a step of a Pickup does to the walk.                               *)
(***************************************************************************)
\* Only the walk of r changes in a step of its Pickup, unless the process ends.
OthersWalk(r) == \A q \in Readers \ {r} : walk'[q] = walk[q]

\* The fields of the walk after a step that keeps start: a walk goes on.
GoesOn(r, todo, time, picked) ==
    /\ walk'[r] # Idle
    /\ walk'[r].todo = todo /\ walk'[r].time = time
    /\ walk'[r].picked = picked /\ walk'[r].start = walk[r].start

\* The fields of a walk in progress.
LEMMA WalkFields ==
    ASSUME TypeOK, NEW r \in Readers, walk[r] # Idle
    PROVE  /\ walk[r] \in Walks
           /\ walk[r].time \in Nat /\ cursor[r] \in Nat
           /\ walk[r].todo \subseteq Entries
           /\ walk[r].picked \subseteq Files /\ walk[r].start \subseteq Files
<1>1. walk[r] \in Walks /\ cursor[r] \in 0 .. MaxTime
      BY DEF TypeOK
<1>2. walk[r].time \in 0 .. MaxTime /\ walk[r].todo \in SUBSET Entries
      /\ walk[r].picked \in SUBSET Files /\ walk[r].start \in SUBSET Files
      BY <1>1 DEF Walks
<1> QED BY <1>1, <1>2, FsAssumption

\* A directory is replaced by the files in it.
LEMMA VisitDirStep ==
    ASSUME TypeOK, NEW r \in Readers, NEW e \in Entries, VisitDir(r, e)
    PROVE  /\ OthersWalk(r)
           /\ GoesOn(r, (walk[r].todo \ {e}) \cup Names(e.dir), walk[r].time, walk[r].picked)
<1>1. walk[r] \in Walks
      BY WalkFields DEF VisitDir, IsNext
<1>2. /\ walk' = [walk EXCEPT ![r] = [walk[r] EXCEPT !.todo = (walk[r].todo \ {e}) \cup Names(e.dir)]]
      /\ walk \in [Readers -> Walks \cup {Idle}]
      BY DEF VisitDir, TypeOK
<1>3. walk'[r] = [walk[r] EXCEPT !.todo = (walk[r].todo \ {e}) \cup Names(e.dir)] /\ OthersWalk(r)
      BY <1>2 DEF OthersWalk
<1>4. walk'[r].id = 1
      BY <1>1, <1>3 DEF Walks
<1> QED BY <1>1, <1>3, <1>4 DEF GoesOn, Walks, Idle

\* A file is taken if its time is after the last one taken.
LEMMA VisitFileStep ==
    ASSUME TypeOK, NEW r \in Readers, NEW e \in Entries, VisitFile(r, e)
    PROVE  \E f \in files :
             /\ f.dir = e.dir /\ f.time = e.time
             /\ OthersWalk(r)
             /\ IF f.time > walk[r].time
                  THEN GoesOn(r, walk[r].todo \ {e}, f.time, walk[r].picked \cup {f})
                  ELSE GoesOn(r, walk[r].todo \ {e}, walk[r].time, walk[r].picked)
<1>1. walk[r] \in Walks
      BY WalkFields DEF VisitFile, IsNext
<1>2. PICK f \in files :
          /\ f.dir = e.dir /\ f.time = e.time
          /\ walk' = [walk EXCEPT ![r] = [Taken(r, f) EXCEPT !.todo = @ \ {e}]]
      BY DEF VisitFile
<1>3. walk'[r] = [Taken(r, f) EXCEPT !.todo = @ \ {e}] /\ OthersWalk(r)
      BY <1>2 DEF TypeOK, OthersWalk
<1>4. CASE f.time > walk[r].time
  <2>1. Taken(r, f) = [walk[r] EXCEPT !.picked = @ \cup {f}, !.bytes = @ + f.size, !.time = f.time]
        BY <1>4 DEF Taken, IsNew
  <2>2. walk'[r].id = 1
        BY <1>1, <1>3, <2>1 DEF Walks
  <2>3. GoesOn(r, walk[r].todo \ {e}, f.time, walk[r].picked \cup {f})
        BY <1>1, <1>3, <2>1, <2>2 DEF GoesOn, Walks, Idle
  <2> QED BY <1>2, <1>3, <1>4, <2>3
<1>5. CASE ~(f.time > walk[r].time)
  <2>1. Taken(r, f) = walk[r]
        BY <1>5 DEF Taken, IsNew
  <2>2. walk'[r].id = 1
        BY <1>1, <1>3, <2>1 DEF Walks
  <2>3. GoesOn(r, walk[r].todo \ {e}, walk[r].time, walk[r].picked)
        BY <1>1, <1>3, <2>1, <2>2 DEF GoesOn, Walks, Idle
  <2> QED BY <1>2, <1>3, <1>5, <2>3
<1> QED BY <1>4, <1>5

\* At the byte limit the walk is over, with what it has.
LEMMA LimitStep ==
    ASSUME TypeOK, NEW r \in Readers, NEW e \in Entries, LimitReached(r, e)
    PROVE  OthersWalk(r) /\ GoesOn(r, {}, walk[r].time, walk[r].picked)
<1>1. walk[r] \in Walks
      BY WalkFields DEF LimitReached, IsNext
<1>2. walk' = [walk EXCEPT ![r] = [walk[r] EXCEPT !.todo = {}]]
      BY DEF LimitReached, Cut
<1>3. walk'[r] = [walk[r] EXCEPT !.todo = {}] /\ OthersWalk(r)
      BY <1>2 DEF TypeOK, OthersWalk
<1>4. walk'[r].id = 1
      BY <1>1, <1>3 DEF Walks
<1> QED BY <1>1, <1>3, <1>4 DEF GoesOn, Walks, Idle

\* Pickup starts with the names in basePath.
LEMMA BeginStep ==
    ASSUME TypeOK, NEW r \in Readers, Pickup(r)
    PROVE  /\ OthersWalk(r) /\ walk'[r] # Idle
           /\ walk'[r].todo = Names(Root) \cup {[dir |-> d, time |-> 0] : d \in dirs}
           /\ walk'[r].time = cursor[r] /\ walk'[r].picked = {}
           /\ walk'[r].start = {f \in files : f.size > 0}
BY DEF TypeOK, Pickup, OthersWalk, Idle

\* A step of a Pickup that ends it without a result.
LEMMA GivenUpStep ==
    ASSUME TypeOK, NEW r \in Readers, NEW e \in Entries,
           Vanished(r, e) \/ TooBig(r, e)
    PROVE  \A q \in Readers : walk'[q] = Idle \/ walk'[q] = walk[q]
BY DEF TypeOK, Vanished, TooBig, EndProcess

-----------------------------------------------------------------------------
(***************************************************************************)
(* The order in which a reader is handed messages.                         *)
(***************************************************************************)
\* What was handed over is not after the cursor, what is being picked up is,
\* and not after the time that will be returned.
OrderInv ==
    \A r \in Readers :
        /\ \A g \in got[r] : g.time <= cursor[r]
        /\ walk[r] # Idle =>
              /\ cursor[r] <= walk[r].time
              /\ \A f \in walk[r].picked : cursor[r] < f.time /\ f.time <= walk[r].time

\* Every step keeps that order.
LEMMA OrderStep == TypeOK /\ OrderInv /\ [Next]_vars => OrderInv'
<1> SUFFICES ASSUME TypeOK, OrderInv, [Next]_vars PROVE OrderInv'
    OBVIOUS
<1> DEFINE Part(q) ==
      /\ \A g \in got[q] : g.time <= cursor[q]
      /\ walk[q] # Idle =>
            /\ cursor[q] <= walk[q].time
            /\ \A f \in walk[q].picked : cursor[q] < f.time /\ f.time <= walk[q].time
<1>0. ASSUME NEW q \in Readers PROVE Part(q)
      BY DEF OrderInv
<1>1. ASSUME NEW q \in Readers, got'[q] = got[q], cursor'[q] = cursor[q],
             walk'[q] = walk[q] \/ walk'[q] = Idle
      PROVE  Part(q)'
      BY <1>0, <1>1
<1>2. ASSUME UNCHANGED <<got, cursor>>,
             \A q \in Readers : walk'[q] = walk[q] \/ walk'[q] = Idle
      PROVE  OrderInv'
      BY <1>1, <1>2 DEF OrderInv
<1>3. ASSUME NEW r \in Readers, PickupStep(r) PROVE OrderInv'
  <2>0. ASSUME OthersWalk(r), UNCHANGED <<got, cursor>>, Part(r)' PROVE OrderInv'
    <3>1. ASSUME NEW q \in Readers PROVE Part(q)'
          BY <2>0, <1>1 DEF OthersWalk
    <3> QED BY <3>1 DEF OrderInv
  <2>1. CASE Pickup(r)
    <3>1. UNCHANGED <<got, cursor>>
          BY <2>1 DEF Pickup
    <3>2. cursor[r] \in Nat
          BY FsAssumption DEF TypeOK
    <3> QED BY <2>0, <2>1, <3>1, <3>2, <1>0, BeginStep
  <2>2. ASSUME NEW e \in Entries, VisitDir(r, e) PROVE OrderInv'
    <3>1. UNCHANGED <<got, cursor>> /\ walk[r] # Idle
          BY <2>2 DEF VisitDir, IsNext
    <3> QED BY <2>0, <2>2, <3>1, <1>0, VisitDirStep DEF GoesOn
  <2>3. ASSUME NEW e \in Entries, VisitFile(r, e) PROVE OrderInv'
    <3>1. UNCHANGED <<got, cursor>> /\ walk[r] # Idle
          BY <2>3 DEF VisitFile, IsNext
    <3>2. PICK f \in files :
             /\ OthersWalk(r)
             /\ IF f.time > walk[r].time
                  THEN GoesOn(r, walk[r].todo \ {e}, f.time, walk[r].picked \cup {f})
                  ELSE GoesOn(r, walk[r].todo \ {e}, walk[r].time, walk[r].picked)
          BY <2>3, VisitFileStep
    <3>3. /\ f.time \in Nat /\ walk[r].time \in Nat /\ cursor[r] \in Nat
          /\ \A g \in walk[r].picked : g.time \in Nat
          BY <3>1, WalkFields, FileFields DEF TypeOK
    <3>4. CASE f.time > walk[r].time
          BY <2>0, <3>1, <3>2, <3>3, <3>4, <1>0 DEF GoesOn
    <3>5. CASE ~(f.time > walk[r].time)
          BY <2>0, <3>1, <3>2, <3>3, <3>5, <1>0 DEF GoesOn
    <3> QED BY <3>4, <3>5
  <2>4. ASSUME NEW e \in Entries, LimitReached(r, e) PROVE OrderInv'
    <3>1. UNCHANGED <<got, cursor>> /\ walk[r] # Idle
          BY <2>4 DEF LimitReached, IsNext
    <3> QED BY <2>0, <2>4, <3>1, <1>0, LimitStep DEF GoesOn
  <2>5. ASSUME NEW e \in Entries, TooBig(r, e) \/ Vanished(r, e) PROVE OrderInv'
    <3>1. UNCHANGED <<got, cursor>>
          BY <2>5 DEF TooBig, Vanished, EndProcess
    <3> QED BY <1>2, <2>5, <3>1, GivenUpStep
  <2>6. CASE EndPickup(r)
    <3>1. /\ walk[r] # Idle
          /\ cursor' = [cursor EXCEPT ![r] = walk[r].time]
          /\ got' = [got EXCEPT ![r] = @ \cup walk[r].picked]
          /\ walk' = [walk EXCEPT ![r] = Idle]
          BY <2>6 DEF EndPickup
    <3>2. /\ walk[r].time \in Nat /\ cursor[r] \in Nat
          /\ \A g \in walk[r].picked \cup got[r] : g.time \in Nat
          BY <3>1, WalkFields, FileFields DEF TypeOK
    <3>3. Part(r)'
      <4>1. cursor'[r] = walk[r].time /\ got'[r] = got[r] \cup walk[r].picked /\ walk'[r] = Idle
            BY <3>1 DEF TypeOK
      <4>2. ASSUME NEW g \in got'[r] PROVE g.time <= cursor'[r]
            BY <3>1, <3>2, <4>1, <1>0
      <4> QED BY <4>1, <4>2
    <3>4. ASSUME NEW q \in Readers, q # r PROVE Part(q)'
          BY <1>1, <3>1, <3>4 DEF TypeOK
    <3> QED BY <3>3, <3>4 DEF OrderInv
  <2> QED BY <1>3, <2>1, <2>2, <2>3, <2>4, <2>5, <2>6 DEF PickupStep
<1>4. ASSUME NEW w \in Writers, NEW d \in Dirs, NEW s \in Sizes, Stamp(w, d, s) PROVE OrderInv'
      BY <1>2, <1>4 DEF Stamp
<1>5. ASSUME NEW w \in Writers, Create(w) \/ Write(w) PROVE OrderInv'
      BY <1>2, <1>5 DEF Create, Write
<1>6. ASSUME NEW f \in files, Flush(f) PROVE OrderInv'
      BY <1>2, <1>6 DEF Flush
<1>7. CASE Crash
      BY <1>2, <1>7 DEF Crash, EndProcess
<1>8. CASE Tick \/ UNCHANGED vars
      BY <1>2, <1>8 DEF Tick, vars
<1> QED BY <1>3, <1>4, <1>5, <1>6, <1>7, <1>8 DEF Next

\* A reader of the file-system outbox is handed messages in the order of their
\* times, none twice, for any number of writers, readers and directories.
THEOREM FsInOrder == Spec => InOrder
<1>1. Init => TypeOK /\ OrderInv
      BY FsAssumption DEF Init, TypeOK, OrderInv, Dirs
<1>2. TypeOK /\ OrderInv =>
         [\A r \in Readers : EndPickup(r) =>
            \A f \in walk[r].picked, g \in got[r] : g.time < f.time]_vars
  <2> SUFFICES ASSUME TypeOK, OrderInv, NEW r \in Readers, EndPickup(r),
                      NEW f \in walk[r].picked, NEW g \in got[r]
               PROVE  g.time < f.time
      OBVIOUS
  <2>1. walk[r] # Idle
        BY DEF EndPickup
  <2>2. f \in Files /\ g \in Files /\ cursor[r] \in Nat
        BY <2>1, WalkFields DEF TypeOK
  <2>3. f.time \in Nat /\ g.time \in Nat
        BY <2>2, FileFields
  <2> QED BY <2>1, <2>2, <2>3 DEF OrderInv
<1> QED BY <1>1, <1>2, TypeStep, OrderStep, PTL DEF Spec, InOrder

-----------------------------------------------------------------------------
(***************************************************************************)
(* What a Pickup may pass over.                                            *)
(***************************************************************************)
\* Files have a time of their own, lie in a directory that exists, and the one
\* a writer is about to write is empty.
FilesInv ==
    /\ \A f \in files : f.id <= made /\ f.time <= now /\ f.dir \in dirs \cup {Root}
    /\ \A f, g \in files : f.time = g.time => f = g
    /\ \A w \in Writers : writing[w] # Idle =>
          /\ writing[w].id <= made /\ writing[w].time <= now
          /\ writing[w].dir \in dirs \cup {Root}
          /\ ~writing[w].created => \A f \in files : f.time # writing[w].time
          /\ \A f \in files : f.id = writing[w].id => f.size = 0
    /\ \A v, w \in Writers :
          v # w /\ writing[v] # Idle /\ writing[w] # Idle =>
              writing[v].id # writing[w].id /\ writing[v].time # writing[w].time

\* A draft in numbers.
LEMMA DraftFields ==
    ASSUME TypeOK, NEW w \in Writers, writing[w] # Idle
    PROVE  /\ writing[w].id \in Nat /\ writing[w].time \in Nat
           /\ writing[w].dir \in Dirs /\ writing[w].created \in BOOLEAN
<1>1. writing[w] \in Drafts
      BY DEF TypeOK
<1>2. /\ writing[w].id \in 1 .. MaxMsgs /\ writing[w].time \in 1 .. MaxTime
      /\ writing[w].dir \in Dirs /\ writing[w].created \in BOOLEAN
      BY <1>1 DEF Drafts
<1> QED BY <1>2, FsAssumption

\* Every step keeps FilesInv.
LEMMA FilesStep == TypeOK /\ FilesInv /\ [Next]_vars => FilesInv'
<1> SUFFICES ASSUME TypeOK, FilesInv, [Next]_vars PROVE FilesInv'
    OBVIOUS
<1>0. /\ made \in Nat /\ now \in Nat
      /\ \A f \in files : f.id \in Nat /\ f.time \in Nat
      BY FileFields, FsAssumption DEF TypeOK
<1>1. ASSUME NEW w \in Writers, NEW d \in Dirs, NEW s \in Sizes, Stamp(w, d, s)
      PROVE  FilesInv'
  <2>1. /\ files' = files /\ made' = made + 1 /\ now' = now + 1
        /\ dirs' = dirs \cup ({d} \ {Root})
        /\ writing'[w].id = made + 1 /\ writing'[w].time = now + 1 /\ writing'[w].dir = d
        /\ \A v \in Writers \ {w} : writing'[v] = writing[v]
        BY <1>1 DEF Stamp, TypeOK
  <2>2. \A f \in files : f.id # made + 1 /\ f.time # now + 1
        BY <1>0 DEF FilesInv
  <2>3. \A v \in Writers : writing[v] # Idle =>
            writing[v].id # made + 1 /\ writing[v].time # now + 1
        BY <1>0, DraftFields DEF FilesInv
  <2>4. \A f \in files' : f.id <= made' /\ f.time <= now' /\ f.dir \in dirs' \cup {Root}
        BY <1>0, <2>1 DEF FilesInv
  <2>5. ASSUME NEW v \in Writers, writing'[v] # Idle
        PROVE  /\ writing'[v].id <= made' /\ writing'[v].time <= now'
               /\ writing'[v].dir \in dirs' \cup {Root}
               /\ ~writing'[v].created => \A f \in files' : f.time # writing'[v].time
               /\ \A f \in files' : f.id = writing'[v].id => f.size = 0
    <3>1. CASE v = w
          BY <1>0, <2>1, <2>2, <3>1
    <3>2. CASE v # w
      <4>1. writing'[v] = writing[v] /\ writing[v].id \in Nat /\ writing[v].time \in Nat
            BY <2>1, <2>5, <3>2, DraftFields
      <4> QED BY <1>0, <2>1, <2>5, <4>1 DEF FilesInv
    <3> QED BY <3>1, <3>2
  <2>6. ASSUME NEW u \in Writers, NEW v \in Writers, u # v,
               writing'[u] # Idle, writing'[v] # Idle
        PROVE  writing'[u].id # writing'[v].id /\ writing'[u].time # writing'[v].time
        BY <2>1, <2>3, <2>6 DEF FilesInv
  <2> QED BY <2>1, <2>4, <2>5, <2>6 DEF FilesInv
<1>2. ASSUME NEW w \in Writers, Create(w) PROVE FilesInv'
  <2> DEFINE n == [id |-> writing[w].id, dir |-> writing[w].dir,
                   time |-> writing[w].time, size |-> 0, modTime |-> now]
  <2>1. /\ writing[w] # Idle /\ ~writing[w].created
        /\ files' = files \cup {n}
        /\ UNCHANGED <<dirs, now, made>>
        BY <1>2 DEF Create
  <2>2. /\ n.id = writing[w].id /\ n.time = writing[w].time
        /\ n.dir = writing[w].dir /\ n.size = 0
        OBVIOUS
  <2>3. /\ writing[w] \in Drafts
        /\ writing' = [writing EXCEPT ![w] = [writing[w] EXCEPT !.created = TRUE]]
        BY <1>2, <2>1 DEF Create, TypeOK
  <2>4. /\ writing'[w] = [writing[w] EXCEPT !.created = TRUE]
        /\ \A v \in Writers \ {w} : writing'[v] = writing[v]
        BY <2>3 DEF TypeOK
  <2>5. /\ writing'[w].id = writing[w].id /\ writing'[w].time = writing[w].time
        /\ writing'[w].dir = writing[w].dir /\ writing'[w].created = TRUE
        BY <2>3, <2>4 DEF Drafts
  <2> HIDE DEF n
  <2>6. \A f \in files' : f.id <= made' /\ f.time <= now' /\ f.dir \in dirs' \cup {Root}
        BY <2>1, <2>2 DEF FilesInv
  <2>7. \A f, g \in files' : f.time = g.time => f = g
        BY <2>1, <2>2 DEF FilesInv
  <2>8. ASSUME NEW v \in Writers, writing'[v] # Idle
        PROVE  /\ writing'[v].id <= made' /\ writing'[v].time <= now'
               /\ writing'[v].dir \in dirs' \cup {Root}
               /\ ~writing'[v].created => \A f \in files' : f.time # writing'[v].time
               /\ \A f \in files' : f.id = writing'[v].id => f.size = 0
    <3>1. CASE v = w
      <4>1. ~(~writing'[v].created)
            BY <2>5, <3>1
      <4>2. \A f \in files : f.id = writing[w].id => f.size = 0
            BY <2>1 DEF FilesInv
      <4> QED BY <2>1, <2>2, <2>5, <3>1, <4>1, <4>2 DEF FilesInv
    <3>2. CASE v # w
      <4>1. writing'[v] = writing[v] /\ writing[v] # Idle
            BY <2>4, <2>8, <3>2
      <4>2. writing[v].id # writing[w].id /\ writing[v].time # writing[w].time
            BY <2>1, <3>2, <4>1 DEF FilesInv
      <4> QED BY <2>1, <2>2, <4>1, <4>2 DEF FilesInv
    <3> QED BY <3>1, <3>2
  <2>9. ASSUME NEW u \in Writers, NEW v \in Writers, u # v,
               writing'[u] # Idle, writing'[v] # Idle
        PROVE  writing'[u].id # writing'[v].id /\ writing'[u].time # writing'[v].time
    <3>1. \A v1 \in Writers : writing'[v1] # Idle =>
              /\ writing[v1] # Idle
              /\ writing'[v1].id = writing[v1].id /\ writing'[v1].time = writing[v1].time
          BY <2>1, <2>4, <2>5
    <3> QED BY <2>9, <3>1 DEF FilesInv
  <2> QED BY <2>6, <2>7, <2>8, <2>9 DEF FilesInv
<1>3. ASSUME NEW w \in Writers, Write(w) PROVE FilesInv'
  <2> DEFINE Img(f) == IF f.id = writing[w].id
                         THEN [f EXCEPT !.size = writing[w].size, !.modTime = now] ELSE f
  <2>1. /\ writing[w] # Idle /\ files' = {Img(f) : f \in files}
        /\ UNCHANGED <<dirs, now, made>>
        /\ writing'[w] = Idle /\ \A v \in Writers \ {w} : writing'[v] = writing[v]
        BY <1>3 DEF Write, TypeOK
  <2>2. ASSUME NEW f \in files
        PROVE  /\ Img(f).id = f.id /\ Img(f).time = f.time /\ Img(f).dir = f.dir
               /\ f.id # writing[w].id => Img(f).size = f.size
        BY DEF TypeOK, Files
  <2> HIDE DEF Img
  <2>3. \A f \in files' : f.id <= made' /\ f.time <= now' /\ f.dir \in dirs' \cup {Root}
        BY <2>1, <2>2 DEF FilesInv
  <2>4. \A f, g \in files' : f.time = g.time => f = g
        BY <2>1, <2>2 DEF FilesInv
  <2>5. ASSUME NEW v \in Writers, writing'[v] # Idle
        PROVE  /\ writing'[v].id <= made' /\ writing'[v].time <= now'
               /\ writing'[v].dir \in dirs' \cup {Root}
               /\ ~writing'[v].created => \A f \in files' : f.time # writing'[v].time
               /\ \A f \in files' : f.id = writing'[v].id => f.size = 0
    <3>1. v # w /\ writing'[v] = writing[v]
          BY <2>1, <2>5
    <3>2. writing[v].id # writing[w].id
          BY <2>1, <2>5, <3>1 DEF FilesInv
    <3> QED BY <2>1, <2>2, <2>5, <3>1, <3>2 DEF FilesInv
  <2>6. ASSUME NEW u \in Writers, NEW v \in Writers, u # v,
               writing'[u] # Idle, writing'[v] # Idle
        PROVE  writing'[u].id # writing'[v].id /\ writing'[u].time # writing'[v].time
        BY <2>1, <2>6 DEF FilesInv
  <2> QED BY <2>3, <2>4, <2>5, <2>6 DEF FilesInv
<1>4. ASSUME UNCHANGED <<dirs, files, now, made>>,
             \A w \in Writers : writing'[w] = writing[w] \/ writing'[w] = Idle
      PROVE  FilesInv'
      BY <1>4 DEF FilesInv
<1>5. ASSUME NEW r \in Readers, PickupStep(r) PROVE FilesInv'
  <2>1. UNCHANGED <<dirs, files, now, made>>
        BY <1>5 DEF PickupStep, Pickup, VisitDir, VisitFile, LimitReached, TooBig,
                    EndProcess, Vanished, EndPickup
  <2>2. writing' = writing \/ writing' = [w \in Writers |-> Idle]
        BY <1>5 DEF PickupStep, Pickup, VisitDir, VisitFile, LimitReached, TooBig,
                    EndProcess, Vanished, EndPickup
  <2> QED BY <1>4, <2>1, <2>2
<1>6. ASSUME NEW f \in files, Flush(f) PROVE FilesInv'
      BY <1>6 DEF Flush, FilesInv
<1>7. CASE Crash
      BY <1>4, <1>7 DEF Crash, EndProcess
<1>8. CASE Tick
  <2>1. UNCHANGED <<dirs, files, writing, made>> /\ now' = now + 1
        BY <1>8 DEF Tick
  <2> QED BY <1>0, <2>1, DraftFields DEF FilesInv
<1>9. CASE UNCHANGED vars
      BY <1>4, <1>9 DEF vars
<1> QED BY <1>1, <1>2, <1>3, <1>5, <1>6, <1>7, <1>8, <1>9 DEF Next

\* A file the walk has not come to yet, by itself or by its directory.
Ahead(r, f) == \E e \in walk[r].todo : e.dir = f.dir /\ (e.time = 0 \/ e.time = f.time)

\* A file passed over for a later one of a directory that comes before.
Excused(r, f) ==
    \E g \in walk[r].picked : Rank[g.dir] < Rank[f.dir] /\ f.time <= g.time

\* A file behind the place where the byte limit ended the walk.
Beyond(r, f) == walk[r].todo = {} /\ \A g \in walk[r].picked : Precedes(g, f)

\* Files that were whole when the walk began stay as they were.
StartInv(r) ==
    \A f \in walk[r].start :
        /\ f.size > 0 /\ f.id <= made
        /\ \A w \in Writers : writing[w] # Idle => writing[w].id # f.id

\* What is picked precedes what is left to visit, and ends at the time returned.
PlaceInv(r) ==
    /\ walk[r].time = cursor[r] \/ \E g \in walk[r].picked : g.time = walk[r].time
    /\ \A g \in walk[r].picked, e \in walk[r].todo : Precedes(g, e)

\* A file that was there when the walk began is picked, ahead, beyond the end or
\* passed over with the excuse above.
SkipInv(r) ==
    \A f \in walk[r].start \cap files :
        cursor[r] < f.time /\ f \notin walk[r].picked =>
            Ahead(r, f) \/ Excused(r, f) \/ Beyond(r, f)

WalkInv == \A r \in Readers : walk[r] # Idle => StartInv(r) /\ PlaceInv(r) /\ SkipInv(r)

\* A walk that a step does not touch keeps its invariant if no file of start
\* appears or is written to.
LEMMA Undisturbed ==
    ASSUME TypeOK, WalkInv, NEW r \in Readers, walk'[r] # Idle,
           walk'[r] = walk[r], cursor'[r] = cursor[r],
           walk[r].start \cap files' \subseteq files,
           StartInv(r)'
    PROVE  (StartInv(r) /\ PlaceInv(r) /\ SkipInv(r))'
<1>1. PlaceInv(r) /\ SkipInv(r)
      BY DEF WalkInv
<1>2. PlaceInv(r)'
      BY <1>1 DEF PlaceInv, Precedes
<1>3. SkipInv(r)'
      BY <1>1 DEF SkipInv, Ahead, Excused, Beyond, Precedes
<1> QED BY <1>2, <1>3

\* StartInv needs no more than that drafts are old ones, or newer than start.
LEMMA StartKept ==
    ASSUME TypeOK, NEW r \in Readers, walk[r] # Idle, walk'[r] # Idle, StartInv(r),
           walk'[r].start = walk[r].start, made' \in Nat, made' >= made,
           \A w \in Writers : writing'[w] # Idle =>
              \/ writing[w] # Idle /\ writing'[w].id = writing[w].id
              \/ writing'[w].id > made
    PROVE  StartInv(r)'
<1>1. made \in Nat
      BY FsAssumption DEF TypeOK
<1>2. \A f \in walk[r].start : f.id \in Nat
      BY WalkFields, FileFields
<1>3. ASSUME NEW f \in walk'[r].start
      PROVE  f.size > 0 /\ f.id <= made'
      BY <1>1, <1>2 DEF StartInv
<1>4. ASSUME NEW f \in walk'[r].start, NEW w \in Writers, writing'[w] # Idle
      PROVE  writing'[w].id # f.id
  <2>1. CASE writing[w] # Idle /\ writing'[w].id = writing[w].id
        BY <1>4, <2>1 DEF StartInv
  <2>2. CASE writing'[w].id > made
    <3>1. f.id <= made /\ f.id \in Nat
          BY <1>2 DEF StartInv
    <3> QED BY <1>1, <2>2, <3>1
  <2> QED BY <1>4, <2>1, <2>2
<1> QED BY <1>3, <1>4 DEF StartInv

\* The beginning of a walk, and each of its visits, keep the invariant.
LEMMA BeginKeeps ==
    ASSUME TypeOK, FilesInv, NEW r \in Readers, Pickup(r)
    PROVE  (StartInv(r) /\ PlaceInv(r) /\ SkipInv(r))'
<1>1. UNCHANGED <<dirs, files, writing, cursor, made>>
      BY DEF Pickup
<1>2. StartInv(r)'
      BY <1>1, BeginStep DEF StartInv, FilesInv
<1>3. PlaceInv(r)'
      BY <1>1, BeginStep DEF PlaceInv
<1>4. ASSUME NEW f \in files PROVE Ahead(r, f)'
  <2>1. CASE f.dir = Root
    <3>1. [dir |-> Root, time |-> f.time] \in walk'[r].todo
          BY <2>1, BeginStep DEF Names
    <3> QED BY <2>1, <3>1 DEF Ahead
  <2>2. CASE f.dir \in dirs
    <3>1. [dir |-> f.dir, time |-> 0] \in walk'[r].todo
          BY <2>2, BeginStep
    <3> QED BY <3>1 DEF Ahead
  <2> QED BY <2>1, <2>2 DEF FilesInv
<1>5. SkipInv(r)'
      BY <1>1, <1>4 DEF SkipInv
<1> QED BY <1>2, <1>3, <1>5

\* The files of a directory come in place of the directory.
LEMMA VisitDirKeeps ==
    ASSUME TypeOK, NEW r \in Readers, NEW e \in Entries, VisitDir(r, e),
           StartInv(r), PlaceInv(r), SkipInv(r)
    PROVE  (PlaceInv(r) /\ SkipInv(r))'
<1>1. /\ UNCHANGED <<files, cursor>> /\ walk[r] # Idle
      /\ e \in walk[r].todo /\ e.time = 0
      BY DEF VisitDir, IsNext
<1>2. /\ walk'[r].todo = (walk[r].todo \ {e}) \cup Names(e.dir)
      /\ walk'[r].time = walk[r].time /\ walk'[r].picked = walk[r].picked
      /\ walk'[r].start = walk[r].start
      BY VisitDirStep DEF GoesOn
<1>3. ASSUME NEW g \in walk[r].picked, NEW n \in Names(e.dir) PROVE Precedes(g, n)
  <2>1. Precedes(g, e) /\ g.time \in Nat /\ n.dir = e.dir
        BY <1>1, WalkFields, FileFields DEF PlaceInv, Names
  <2> QED BY <1>1, <2>1 DEF Precedes
<1>4. PlaceInv(r)'
  <2>1. ASSUME NEW g \in walk'[r].picked, NEW n \in walk'[r].todo PROVE Precedes(g, n)
        BY <1>2, <1>3 DEF PlaceInv
  <2> QED BY <1>1, <1>2, <2>1 DEF PlaceInv, Precedes
<1>5. ASSUME NEW f \in files, Ahead(r, f) PROVE Ahead(r, f)'
  <2>1. PICK d \in walk[r].todo : d.dir = f.dir /\ (d.time = 0 \/ d.time = f.time)
        BY <1>5 DEF Ahead
  <2>2. CASE d # e
        BY <1>2, <2>1, <2>2 DEF Ahead
  <2>3. CASE d = e
    <3>1. [dir |-> f.dir, time |-> f.time] \in Names(e.dir)
          BY <2>1, <2>3 DEF Names
    <3> QED BY <1>2, <3>1 DEF Ahead
  <2> QED BY <2>2, <2>3
<1>6. ASSUME NEW f \in walk'[r].start \cap files', cursor'[r] < f.time, f \notin walk'[r].picked
      PROVE  (Ahead(r, f) \/ Excused(r, f) \/ Beyond(r, f))'
  <2>1. Ahead(r, f) \/ Excused(r, f)
        BY <1>1, <1>2, <1>6 DEF SkipInv, Beyond
  <2> QED BY <1>1, <1>2, <1>5, <1>6, <2>1 DEF Excused
<1>7. SkipInv(r)'
      BY <1>6 DEF SkipInv
<1> QED BY <1>4, <1>7

\* A file that is not taken has the excuse that the last one taken gives.
LEMMA VisitFileKeeps ==
    ASSUME TypeOK, FilesInv, NEW r \in Readers, NEW e \in Entries, VisitFile(r, e),
           StartInv(r), PlaceInv(r), SkipInv(r)
    PROVE  (PlaceInv(r) /\ SkipInv(r))'
<1>1. /\ UNCHANGED <<files, cursor>> /\ walk[r] # Idle
      /\ e \in walk[r].todo /\ e.time > 0
      /\ \A d \in walk[r].todo : d = e \/ Precedes(e, d)
      BY DEF VisitFile, IsNext
<1>2. PICK h \in files :
         /\ h.dir = e.dir /\ h.time = e.time
         /\ IF h.time > walk[r].time
              THEN GoesOn(r, walk[r].todo \ {e}, h.time, walk[r].picked \cup {h})
              ELSE GoesOn(r, walk[r].todo \ {e}, walk[r].time, walk[r].picked)
      BY VisitFileStep
<1>3. /\ h.time \in Nat /\ walk[r].time \in Nat /\ cursor[r] \in Nat
      /\ \A g \in walk[r].picked : g.time \in Nat
      BY <1>1, WalkFields, FileFields DEF TypeOK
<1>4. walk'[r].todo = walk[r].todo \ {e} /\ walk'[r].start = walk[r].start
      BY <1>2 DEF GoesOn
<1>5. ASSUME NEW f \in files, Ahead(r, f), f # h PROVE Ahead(r, f)'
  <2>1. PICK d \in walk[r].todo : d.dir = f.dir /\ (d.time = 0 \/ d.time = f.time)
        BY <1>5 DEF Ahead
  <2>2. d # e
        BY <1>1, <1>2, <1>5, <2>1 DEF FilesInv
  <2> QED BY <1>4, <2>1, <2>2 DEF Ahead
<1>6. CASE h.time > walk[r].time
  <2>1. walk'[r].time = h.time /\ walk'[r].picked = walk[r].picked \cup {h}
        BY <1>2, <1>6 DEF GoesOn
  <2>2. ASSUME NEW d \in walk'[r].todo PROVE Precedes(h, d)
        BY <1>1, <1>2, <1>4 DEF Precedes
  <2>3. ASSUME NEW g \in walk'[r].picked, NEW d \in walk'[r].todo PROVE Precedes(g, d)
        BY <1>4, <2>1, <2>2 DEF PlaceInv
  <2>4. PlaceInv(r)'
        BY <1>1, <2>1, <2>3 DEF PlaceInv, Precedes
  <2>5. ASSUME NEW f \in walk'[r].start \cap files', cursor'[r] < f.time,
               f \notin walk'[r].picked
        PROVE  (Ahead(r, f) \/ Excused(r, f) \/ Beyond(r, f))'
    <3>1. f # h /\ (Ahead(r, f) \/ Excused(r, f))
          BY <1>1, <1>4, <2>1, <2>5 DEF SkipInv, Beyond
    <3> QED BY <1>1, <1>5, <2>1, <2>5, <3>1 DEF Excused
  <2> QED BY <2>4, <2>5 DEF SkipInv
<1>7. CASE ~(h.time > walk[r].time)
  <2>1. walk'[r].time = walk[r].time /\ walk'[r].picked = walk[r].picked
        BY <1>2, <1>7 DEF GoesOn
  <2>2. PlaceInv(r)'
        BY <1>1, <1>4, <2>1 DEF PlaceInv, Precedes
  <2>3. ASSUME cursor[r] < h.time PROVE Excused(r, h)
    <3>1. PICK g \in walk[r].picked : g.time = walk[r].time
          BY <1>3, <1>7, <2>3 DEF PlaceInv
    <3>2. Precedes(g, e)
          BY <1>1 DEF PlaceInv
    <3>3. h.time <= g.time
          BY <1>3, <1>7, <3>1
    <3>4. Rank[g.dir] < Rank[h.dir]
          BY <1>2, <1>3, <3>2, <3>3 DEF Precedes
    <3> QED BY <3>3, <3>4 DEF Excused
  <2>4. ASSUME NEW f \in walk'[r].start \cap files', cursor'[r] < f.time,
               f \notin walk'[r].picked
        PROVE  (Ahead(r, f) \/ Excused(r, f) \/ Beyond(r, f))'
    <3>1. Ahead(r, f) \/ Excused(r, f)
          BY <1>1, <1>4, <2>1, <2>4 DEF SkipInv, Beyond
    <3>2. f = h => Excused(r, f)
          BY <1>1, <2>3, <2>4
    <3> QED BY <1>1, <1>5, <2>1, <2>4, <3>1, <3>2 DEF Excused
  <2> QED BY <2>2, <2>4 DEF SkipInv
<1> QED BY <1>6, <1>7

\* At the byte limit what was ahead is beyond the end.
LEMMA LimitKeeps ==
    ASSUME TypeOK, NEW r \in Readers, NEW e \in Entries, LimitReached(r, e),
           StartInv(r), PlaceInv(r), SkipInv(r)
    PROVE  (PlaceInv(r) /\ SkipInv(r))'
<1>1. UNCHANGED <<files, cursor>> /\ walk[r] # Idle
      BY DEF LimitReached, IsNext
<1>2. /\ walk'[r].todo = {} /\ walk'[r].time = walk[r].time
      /\ walk'[r].picked = walk[r].picked /\ walk'[r].start = walk[r].start
      BY LimitStep DEF GoesOn
<1>3. PlaceInv(r)'
      BY <1>1, <1>2 DEF PlaceInv
<1>4. ASSUME NEW f \in files, Ahead(r, f) PROVE Beyond(r, f)'
  <2>1. PICK d \in walk[r].todo : d.dir = f.dir /\ (d.time = 0 \/ d.time = f.time)
        BY <1>4 DEF Ahead
  <2>2. ASSUME NEW g \in walk[r].picked PROVE Precedes(g, f)
    <3>1. Precedes(g, d) /\ g.time \in Nat
          BY <1>1, WalkFields, FileFields DEF PlaceInv
    <3> QED BY <2>1, <3>1 DEF Precedes
  <2> QED BY <1>2, <2>2 DEF Beyond, Precedes
<1>5. ASSUME NEW f \in walk'[r].start \cap files', cursor'[r] < f.time, f \notin walk'[r].picked
      PROVE  (Ahead(r, f) \/ Excused(r, f) \/ Beyond(r, f))'
      BY <1>1, <1>2, <1>4, <1>5 DEF SkipInv, Excused, Beyond, Precedes
<1> QED BY <1>3, <1>5 DEF SkipInv

\* Every step keeps the invariant of every walk.
LEMMA WalkStep == TypeOK /\ TypeOK' /\ FilesInv /\ WalkInv /\ [Next]_vars => WalkInv'
<1> SUFFICES ASSUME TypeOK, TypeOK', FilesInv, WalkInv, [Next]_vars PROVE WalkInv'
    OBVIOUS
<1> DEFINE Part(q) == walk[q] # Idle => StartInv(q) /\ PlaceInv(q) /\ SkipInv(q)
<1>0. made \in Nat /\ made' \in Nat
      BY FsAssumption DEF TypeOK
<1>1. ASSUME NEW q \in Readers, walk'[q] = walk[q] \/ walk'[q] = Idle,
             cursor'[q] = cursor[q], walk[q].start \cap files' \subseteq files, made' >= made,
             \A w \in Writers : writing'[w] # Idle =>
                \/ writing[w] # Idle /\ writing'[w].id = writing[w].id
                \/ writing'[w].id > made
      PROVE  Part(q)'
  <2> SUFFICES ASSUME walk'[q] # Idle PROVE (StartInv(q) /\ PlaceInv(q) /\ SkipInv(q))'
      OBVIOUS
  <2>1. walk'[q] = walk[q] /\ walk[q] # Idle
        BY <1>1
  <2>2. StartInv(q)
        BY <2>1 DEF WalkInv
  <2>3. StartInv(q)'
        BY <1>0, <1>1, <2>1, <2>2, StartKept
  <2> QED BY <1>1, <2>1, <2>3, Undisturbed
<1>2. ASSUME UNCHANGED <<files, cursor, made>>,
             \A w \in Writers : writing'[w] = writing[w] \/ writing'[w] = Idle,
             \A q \in Readers : walk'[q] = walk[q] \/ walk'[q] = Idle
      PROVE  WalkInv'
  <2>1. ASSUME NEW q \in Readers PROVE Part(q)'
        BY <1>0, <1>1, <1>2
  <2> QED BY <2>1 DEF WalkInv
<1>3. ASSUME NEW r \in Readers, PickupStep(r) PROVE WalkInv'
  <2>0. ASSUME OthersWalk(r), UNCHANGED <<files, writing, cursor, made>>, Part(r)'
        PROVE  WalkInv'
    <3>1. ASSUME NEW q \in Readers, q # r PROVE Part(q)'
          BY <1>0, <1>1, <2>0, <3>1 DEF OthersWalk
    <3> QED BY <2>0, <3>1 DEF WalkInv
  <2>1. CASE Pickup(r)
    <3>1. UNCHANGED <<files, writing, cursor, made>>
          BY <2>1 DEF Pickup
    <3> QED BY <2>0, <2>1, <3>1, BeginStep, BeginKeeps
  <2>2. ASSUME NEW e \in Entries, VisitDir(r, e) PROVE WalkInv'
    <3>1. UNCHANGED <<files, writing, cursor, made>> /\ walk[r] # Idle
          BY <2>2 DEF VisitDir, IsNext
    <3>2. StartInv(r) /\ PlaceInv(r) /\ SkipInv(r)
          BY <3>1 DEF WalkInv
    <3>3. OthersWalk(r) /\ walk'[r] # Idle /\ walk'[r].start = walk[r].start
          BY <2>2, VisitDirStep DEF GoesOn
    <3>4. StartInv(r)'
          BY <3>1, <3>2, <3>3 DEF StartInv
    <3> QED BY <2>0, <2>2, <3>1, <3>2, <3>3, <3>4, VisitDirKeeps
  <2>3. ASSUME NEW e \in Entries, VisitFile(r, e) PROVE WalkInv'
    <3>1. UNCHANGED <<files, writing, cursor, made>> /\ walk[r] # Idle
          BY <2>3 DEF VisitFile, IsNext
    <3>2. StartInv(r) /\ PlaceInv(r) /\ SkipInv(r)
          BY <3>1 DEF WalkInv
    <3>3. OthersWalk(r) /\ walk'[r] # Idle /\ walk'[r].start = walk[r].start
          BY <2>3, VisitFileStep DEF GoesOn
    <3>4. StartInv(r)'
          BY <3>1, <3>2, <3>3 DEF StartInv
    <3> QED BY <2>0, <2>3, <3>1, <3>2, <3>3, <3>4, VisitFileKeeps
  <2>4. ASSUME NEW e \in Entries, LimitReached(r, e) PROVE WalkInv'
    <3>1. UNCHANGED <<files, writing, cursor, made>> /\ walk[r] # Idle
          BY <2>4 DEF LimitReached, IsNext
    <3>2. StartInv(r) /\ PlaceInv(r) /\ SkipInv(r)
          BY <3>1 DEF WalkInv
    <3>3. OthersWalk(r) /\ walk'[r] # Idle /\ walk'[r].start = walk[r].start
          BY <2>4, LimitStep DEF GoesOn
    <3>4. StartInv(r)'
          BY <3>1, <3>2, <3>3 DEF StartInv
    <3> QED BY <2>0, <2>4, <3>1, <3>2, <3>3, <3>4, LimitKeeps
  <2>5. ASSUME NEW e \in Entries, TooBig(r, e) \/ Vanished(r, e) PROVE WalkInv'
    <3>1. UNCHANGED <<files, cursor, made>>
          BY <2>5 DEF TooBig, Vanished, EndProcess
    <3>2. \A w \in Writers : writing'[w] = writing[w] \/ writing'[w] = Idle
          BY <2>5 DEF TooBig, Vanished, EndProcess
    <3> QED BY <1>2, <2>5, <3>1, <3>2, GivenUpStep
  <2>6. CASE EndPickup(r)
    <3>1. /\ UNCHANGED <<files, writing, made>>
          /\ cursor' = [cursor EXCEPT ![r] = walk[r].time]
          /\ walk' = [walk EXCEPT ![r] = Idle]
          BY <2>6 DEF EndPickup
    <3>2. ASSUME NEW q \in Readers PROVE Part(q)'
      <4>1. CASE q = r
            BY <3>1, <4>1 DEF TypeOK
      <4>2. CASE q # r
        <5>1. walk'[q] = walk[q] /\ cursor'[q] = cursor[q]
              BY <3>1, <4>2 DEF TypeOK
        <5> QED BY <1>0, <1>1, <3>1, <5>1
      <4> QED BY <4>1, <4>2
    <3> QED BY <3>2 DEF WalkInv
  <2> QED BY <1>3, <2>1, <2>2, <2>3, <2>4, <2>5, <2>6 DEF PickupStep
<1>4. ASSUME NEW w \in Writers, NEW d \in Dirs, NEW s \in Sizes, Stamp(w, d, s) PROVE WalkInv'
  <2>1. /\ UNCHANGED <<files, walk, cursor>> /\ made' = made + 1
        /\ writing'[w].id = made + 1 /\ \A v \in Writers \ {w} : writing'[v] = writing[v]
        BY <1>4 DEF Stamp, TypeOK
  <2>2. ASSUME NEW q \in Readers PROVE Part(q)'
        BY <1>0, <1>1, <2>1
  <2> QED BY <2>2 DEF WalkInv
<1>5. ASSUME NEW w \in Writers, Create(w) PROVE WalkInv'
  <2> DEFINE n == [id |-> writing[w].id, dir |-> writing[w].dir,
                   time |-> writing[w].time, size |-> 0, modTime |-> now]
  <2>1. /\ writing[w] # Idle /\ files' = files \cup {n}
        /\ UNCHANGED <<walk, cursor, made>>
        /\ writing' = [writing EXCEPT ![w] = [writing[w] EXCEPT !.created = TRUE]]
        BY <1>5 DEF Create
  <2>2. ASSUME NEW v \in Writers, writing'[v] # Idle
        PROVE  writing[v] # Idle /\ writing'[v].id = writing[v].id
    <3>1. writing[w] \in Drafts
          BY <2>1 DEF TypeOK
    <3>2. [writing[w] EXCEPT !.created = TRUE].id = writing[w].id
          BY <3>1 DEF Drafts
    <3> QED BY <2>1, <2>2, <3>2 DEF TypeOK
  <2>3. ASSUME NEW q \in Readers PROVE Part(q)'
    <3> SUFFICES ASSUME walk'[q] # Idle PROVE Part(q)'
        OBVIOUS
    <3>1. StartInv(q)
          BY <2>1 DEF WalkInv
    <3>2. n.size = 0
          OBVIOUS
    <3>3. walk[q].start \cap files' \subseteq files
          BY <2>1, <3>1, <3>2 DEF StartInv
    <3> QED BY <1>0, <1>1, <2>1, <2>2, <3>3
  <2> QED BY <2>3 DEF WalkInv
<1>6. ASSUME NEW w \in Writers, Write(w) PROVE WalkInv'
  <2>1. /\ writing[w] # Idle /\ UNCHANGED <<walk, cursor, made>>
        /\ files' = {IF f.id = writing[w].id
                        THEN [f EXCEPT !.size = writing[w].size, !.modTime = now]
                        ELSE f : f \in files}
        /\ \A v \in Writers : writing'[v] = writing[v] \/ writing'[v] = Idle
        BY <1>6 DEF Write, TypeOK
  <2>2. ASSUME NEW q \in Readers PROVE Part(q)'
    <3> SUFFICES ASSUME walk'[q] # Idle PROVE Part(q)'
        OBVIOUS
    <3>1. StartInv(q)
          BY <2>1 DEF WalkInv
    <3>2. ASSUME NEW f \in walk[q].start \cap files' PROVE f \in files
      <4>1. PICK g \in files : f = IF g.id = writing[w].id
                                  THEN [g EXCEPT !.size = writing[w].size, !.modTime = now]
                                  ELSE g
            BY <2>1
      <4>2. f.id # writing[w].id
            BY <2>1, <3>1 DEF StartInv
      <4>3. f.id = g.id
        <5>1. g \in Files
              BY DEF TypeOK
        <5>2. [g EXCEPT !.size = writing[w].size, !.modTime = now].id = g.id
              BY <5>1 DEF Files
        <5>3. CASE g.id = writing[w].id
              BY <4>1, <5>2, <5>3
        <5>4. CASE g.id # writing[w].id
              BY <4>1, <5>4
        <5> QED BY <5>3, <5>4
      <4>4. g.id # writing[w].id
            BY <4>2, <4>3
      <4> QED BY <4>1, <4>4
    <3>3. walk[q].start \cap files' \subseteq files
          BY <3>2
    <3>4. \A v \in Writers : writing'[v] # Idle =>
              writing[v] # Idle /\ writing'[v].id = writing[v].id
          BY <2>1
    <3>5. walk' = walk /\ cursor' = cursor /\ made' = made
          BY <2>1
    <3>6. walk'[q] = walk[q] /\ cursor'[q] = cursor[q] /\ made' >= made
          BY <1>0, <3>5
    <3> QED BY <1>1, <3>3, <3>4, <3>6
  <2> QED BY <2>2 DEF WalkInv
<1>7. ASSUME NEW f \in files, Flush(f) PROVE WalkInv'
  <2>1. UNCHANGED <<walk, cursor, made, writing>> /\ files' \subseteq files
        BY <1>7 DEF Flush
  <2>2. ASSUME NEW q \in Readers PROVE Part(q)'
        BY <1>0, <1>1, <2>1
  <2> QED BY <2>2 DEF WalkInv
<1>8. CASE Crash
  <2>1. /\ UNCHANGED <<files, cursor, made>>
        /\ \A w \in Writers : writing'[w] = Idle
        /\ \A q \in Readers : walk'[q] = Idle
        BY <1>8 DEF Crash, EndProcess
  <2> QED BY <1>2, <2>1
<1>9. CASE Tick \/ UNCHANGED vars
      BY <1>2, <1>9 DEF Tick, vars
<1> QED BY <1>3, <1>4, <1>5, <1>6, <1>7, <1>8, <1>9 DEF Next

\* A Pickup of the file-system outbox passes over a message that was there,
\* whole, when it began only if it took a later one from a directory before.
THEOREM FsSkipsOnlyBehind == Spec => SkippedOnlyBehind
<1>1. Init => TypeOK /\ FilesInv /\ WalkInv
      BY FsAssumption DEF Init, TypeOK, Dirs, FilesInv, WalkInv
<1>2. TypeOK /\ WalkInv =>
         [\A r \in Readers : EndPickup(r) =>
            \A f \in Skipped(r) : \E g \in walk[r].picked :
                Rank[g.dir] < Rank[f.dir] /\ f.time <= g.time]_vars
  <2> SUFFICES ASSUME TypeOK, WalkInv, NEW r \in Readers, EndPickup(r), NEW f \in Skipped(r)
               PROVE  Excused(r, f)
      BY DEF Excused
  <2>1. walk[r] # Idle /\ walk[r].todo = {}
        BY DEF EndPickup
  <2>2. /\ f \in walk[r].start \cap files /\ f \notin walk[r].picked
        /\ cursor[r] < f.time /\ f.time <= walk[r].time
        BY DEF Skipped
  <2>3. PlaceInv(r) /\ (Excused(r, f) \/ Beyond(r, f))
        BY <2>1, <2>2 DEF WalkInv, SkipInv, Ahead
  <2>4. /\ cursor[r] \in Nat /\ walk[r].time \in Nat /\ f.time \in Nat
        /\ \A g \in walk[r].picked : g.time \in Nat
        BY <2>1, <2>2, WalkFields, FileFields
  <2>5. CASE Beyond(r, f)
    <3>1. PICK g \in walk[r].picked : g.time = walk[r].time
          BY <2>2, <2>3, <2>4 DEF PlaceInv
    <3>2. Precedes(g, f)
          BY <2>5 DEF Beyond
    <3>3. Rank[g.dir] < Rank[f.dir]
          BY <2>2, <2>4, <3>1, <3>2 DEF Precedes
    <3> QED BY <2>2, <3>1, <3>3 DEF Excused
  <2> QED BY <2>3, <2>5
<1> QED BY <1>1, <1>2, TypeStep, FilesStep, WalkStep, PTL DEF Spec, SkippedOnlyBehind
=============================================================================
