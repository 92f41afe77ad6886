------------------------------ MODULE FsOutbox ------------------------------
(***************************************************************************)
(* The outbox of nodes/fs: one file per message under basePath, messages   *)
(* of a channel in a directory of its own, each file named by the time of  *)
(* its message in 16 hexadecimal digits.  Nothing is locked: writers       *)
(* (SendMsg, Forward) make the directory, read the clock, create the file  *)
(* and write it; readers (Pickup) walk the tree in the order of the names; *)
(* the poll loop's flush removes old files; the process may end at any     *)
(* time, and finds the files again when it restarts.                       *)
(*                                                                         *)
(* No two readings of the clock are equal here.  A file is written by one  *)
(* call, so a reader finds it empty or whole.                              *)
(***************************************************************************)
EXTENDS Integers, FiniteSets, FiniteSetsExt

CONSTANTS
    Writers, Readers,
    Root, Channels, \* the directories: basePath and one per channel
    Rank,           \* the place of a directory's name: < 0 before the names of
                    \* the message files, > 0 after them; 0 for Root itself
    Sizes,          \* lengths a message may have
    MaxBytes,       \* the byte limit the readers pass, 0 for none
    MaxAge,         \* the age after which FlushOutbox removes a file
    MaxTime, MaxMsgs, MaxCrashes  \* bounds of the model

Dirs == Channels \cup {Root}

ASSUME FsAssumption ==
    /\ Root \notin Channels
    /\ Rank \in [Dirs -> Int] /\ Rank[Root] = 0
    /\ \A c, d \in Dirs : Rank[c] = Rank[d] => c = d
    /\ Sizes \subseteq Nat \ {0}
    /\ MaxBytes \in Nat /\ MaxAge \in Nat
    /\ MaxTime \in Nat \ {0} /\ MaxMsgs \in Nat /\ MaxCrashes \in Nat

VARIABLES
    dirs,       \* the channel directories that exist
    files,      \* the message files
    now,        \* the clock
    writing,    \* writer -> the message it is sending, or Idle
    walk,       \* reader -> the Pickup in progress, or Idle
    cursor,     \* reader -> the lastTime of its next call
    made,       \* how many messages there were
    crashes,
    got         \* history: reader -> every file it was handed, as it was read
vars == <<dirs, files, now, writing, walk, cursor, made, crashes, got>>

Idle == [id |-> 0]

\* A file whose size is 0 is created and not yet written.
Files == [id : 1 .. MaxMsgs, dir : Dirs, time : 1 .. MaxTime,
          size : Sizes \cup {0}, modTime : 1 .. MaxTime]

\* What the walk has left to visit: the file of that time, or, if the time is
\* 0, the directory.
Entries == [dir : Dirs, time : 0 .. MaxTime]

Drafts == [id : 1 .. MaxMsgs, dir : Dirs, size : Sizes, time : 1 .. MaxTime,
           created : BOOLEAN]

Walks == [id : {1}, todo : SUBSET Entries, time : 0 .. MaxTime, bytes : Nat,
          picked : SUBSET Files, start : SUBSET Files]

\* basePath may have directories from an earlier life of the node.
Init ==
    /\ dirs \in SUBSET Channels
    /\ files = {}
    /\ now = 1
    /\ writing = [w \in Writers |-> Idle]
    /\ walk = [r \in Readers |-> Idle]
    /\ cursor = [r \in Readers |-> 0]
    /\ made = 0
    /\ crashes = 0
    /\ got = [r \in Readers |-> {}]

-----------------------------------------------------------------------------
(***************************************************************************)
(* SendMsg and Forward.  (The directory may be there already, so that it is *)
(* made when the clock is read loses no behaviour.)                        *)
(***************************************************************************)
Stamp(w, d, s) ==
    /\ writing[w] = Idle
    /\ made < MaxMsgs /\ now < MaxTime
    /\ made' = made + 1
    /\ dirs' = dirs \cup ({d} \ {Root})
    /\ now' = now + 1
    /\ writing' = [writing EXCEPT ![w] =
                     [id |-> made + 1, dir |-> d, size |-> s, time |-> now + 1, created |-> FALSE]]
    /\ UNCHANGED <<files, walk, cursor, crashes, got>>

Create(w) ==
    /\ writing[w] # Idle /\ ~writing[w].created
    /\ files' = files \cup {[id |-> writing[w].id, dir |-> writing[w].dir,
                             time |-> writing[w].time, size |-> 0, modTime |-> now]}
    /\ writing' = [writing EXCEPT ![w].created = TRUE]
    /\ UNCHANGED <<dirs, now, walk, cursor, made, crashes, got>>

\* If the file was removed in between, the writer fills a file nobody can see.
Write(w) ==
    /\ writing[w] # Idle /\ writing[w].created
    /\ files' = {IF f.id = writing[w].id
                   THEN [f EXCEPT !.size = writing[w].size, !.modTime = now]
                   ELSE f : f \in files}
    /\ writing' = [writing EXCEPT ![w] = Idle]
    /\ UNCHANGED <<dirs, now, walk, cursor, made, crashes, got>>

-----------------------------------------------------------------------------
(***************************************************************************)
(* Pickup.  filepath.Walk reads the names in a directory when it comes to  *)
(* it, and visits them in the order of the names, which is that of the     *)
(* times within a directory.                                               *)
(***************************************************************************)
Names(d) == {[dir |-> d, time |-> f.time] : f \in {g \in files : g.dir = d}}

Precedes(e, f) ==
    \/ Rank[e.dir] < Rank[f.dir]
    \/ e.dir = f.dir /\ e.time < f.time

IsNext(r, e) ==
    /\ walk[r] # Idle
    /\ e \in walk[r].todo
    /\ \A f \in walk[r].todo : f = e \/ Precedes(e, f)

Pickup(r) ==
    /\ walk[r] = Idle
    /\ walk' = [walk EXCEPT ![r] =
                  [id |-> 1,
                   todo |-> Names(Root) \cup {[dir |-> d, time |-> 0] : d \in dirs},
                   time |-> cursor[r], bytes |-> 0, picked |-> {},
                   start |-> {f \in files : f.size > 0}]]
    /\ UNCHANGED <<dirs, files, now, writing, cursor, made, crashes, got>>

VisitDir(r, e) ==
    /\ IsNext(r, e) /\ e.time = 0
    /\ walk' = [walk EXCEPT ![r].todo = (@ \ {e}) \cup Names(e.dir)]
    /\ UNCHANGED <<dirs, files, now, writing, cursor, made, crashes, got>>

TooMuch(r, f) == MaxBytes > 0 /\ walk[r].bytes + f.size > MaxBytes

\* Mutant: a file of exactly the last time is taken again.
IsNew_Inclusive(r, f) == f.time >= walk[r].time
IsNew(r, f) == f.time > walk[r].time

\* Mutant: what is passed over counts against the limit, too.
Taken_CountsAll(r, f) ==
    IF IsNew(r, f)
      THEN [walk[r] EXCEPT !.picked = @ \cup {f}, !.bytes = @ + f.size, !.time = f.time]
      ELSE [walk[r] EXCEPT !.bytes = @ + f.size]
Taken(r, f) ==
    IF IsNew(r, f)
      THEN [walk[r] EXCEPT !.picked = @ \cup {f}, !.bytes = @ + f.size, !.time = f.time]
      ELSE walk[r]

VisitFile(r, e) ==
    /\ IsNext(r, e) /\ e.time > 0
    /\ \E f \in files :
        /\ f.dir = e.dir /\ f.time = e.time
        /\ ~TooMuch(r, f)
        /\ walk' = [walk EXCEPT ![r] = [Taken(r, f) EXCEPT !.todo = @ \ {e}]]
    /\ UNCHANGED <<dirs, files, now, writing, cursor, made, crashes, got>>

\* Mutant: the time of the file that does not fit is returned.
Cut_TimeOfNext(r, f) == [walk[r] EXCEPT !.todo = {}, !.time = f.time]
Cut(r, f) == [walk[r] EXCEPT !.todo = {}]

\* io.EOF: the rest is left for the next call.
LimitReached(r, e) ==
    /\ IsNext(r, e) /\ e.time > 0
    /\ \E f \in files :
        /\ f.dir = e.dir /\ f.time = e.time
        /\ TooMuch(r, f) /\ walk[r].bytes > 0
        /\ walk' = [walk EXCEPT ![r] = Cut(r, f)]
    /\ UNCHANGED <<dirs, files, now, writing, cursor, made, crashes, got>>

EndProcess ==
    /\ crashes < MaxCrashes
    /\ crashes' = crashes + 1
    /\ writing' = [w \in Writers |-> Idle]
    /\ walk' = [r \in Readers |-> Idle]
    /\ UNCHANGED <<dirs, files, now, cursor, made, got>>

\* events.Critical: "Result too big to be fetched on this transport!"
TooBig(r, e) ==
    /\ IsNext(r, e) /\ e.time > 0
    /\ \E f \in files :
        f.dir = e.dir /\ f.time = e.time /\ TooMuch(r, f) /\ walk[r].bytes = 0
    /\ EndProcess

\* The file was removed since its name was read: Pickup fails, and the reader
\* calls it again with the same time.
Vanished(r, e) ==
    /\ IsNext(r, e) /\ e.time > 0
    /\ ~ \E f \in files : f.dir = e.dir /\ f.time = e.time
    /\ walk' = [walk EXCEPT ![r] = Idle]
    /\ UNCHANGED <<dirs, files, now, writing, cursor, made, crashes, got>>

EndPickup(r) ==
    /\ walk[r] # Idle /\ walk[r].todo = {}
    /\ cursor' = [cursor EXCEPT ![r] = walk[r].time]
    /\ got' = [got EXCEPT ![r] = @ \cup walk[r].picked]
    /\ walk' = [walk EXCEPT ![r] = Idle]
    /\ UNCHANGED <<dirs, files, now, writing, made, crashes>>

PickupStep(r) ==
    \/ Pickup(r)
    \/ \E e \in Entries :
        VisitDir(r, e) \/ VisitFile(r, e) \/ LimitReached(r, e) \/ TooBig(r, e) \/ Vanished(r, e)
    \/ EndPickup(r)

-----------------------------------------------------------------------------
IsOld(f) == now - f.modTime > MaxAge

\* FlushOutbox removes one old file after the other.
Flush(f) ==
    /\ IsOld(f)
    /\ files' = files \ {f}
    /\ UNCHANGED <<dirs, now, writing, walk, cursor, made, crashes, got>>

Crash == EndProcess

Tick ==
    /\ now < MaxTime
    /\ now' = now + 1
    /\ UNCHANGED <<dirs, files, writing, walk, cursor, made, crashes, got>>

Next ==
    \/ \E w \in Writers, d \in Dirs, s \in Sizes : Stamp(w, d, s)
    \/ \E w \in Writers : Create(w) \/ Write(w)
    \/ \E r \in Readers : PickupStep(r)
    \/ \E f \in files : Flush(f)
    \/ Crash
    \/ Tick

Spec == Init /\ [][Next]_vars

\* The peers poll for ever, and a Pickup goes on.
FairSpec == Spec /\ \A r \in Readers : WF_vars(PickupStep(r))

-----------------------------------------------------------------------------
(***************************************************************************)
(* Properties.                                                             *)
(***************************************************************************)
\* Files, walks and cursors have their types (type invariant).
TypeOK ==
    /\ dirs \subseteq Channels
    /\ files \subseteq Files
    /\ now \in 1 .. MaxTime
    /\ writing \in [Writers -> Drafts \cup {Idle}]
    /\ walk \in [Readers -> Walks \cup {Idle}]
    /\ cursor \in [Readers -> 0 .. MaxTime]
    /\ made \in 0 .. MaxMsgs /\ crashes \in 0 .. MaxCrashes
    /\ got \in [Readers -> SUBSET Files]

\* A reader is handed messages in the order of their times, so none twice,
\* whatever is written, flushed or walked in between, and across crashes.
InOrder ==
    [][ \A r \in Readers : EndPickup(r) =>
          \A f \in walk[r].picked, g \in got[r] : g.time < f.time ]_vars

\* A batch fits the byte limit of the transport that asked for it.
BatchFits ==
    \A r \in Readers :
        walk[r] # Idle /\ MaxBytes > 0 => MapThenSumSet(LAMBDA f : f.size, walk[r].picked) <= MaxBytes

\* What a Pickup passes over although it was there, whole, when it began.
Skipped(r) ==
    {f \in (walk[r].start \cap files) \ walk[r].picked :
        cursor[r] < f.time /\ f.time <= walk[r].time}

\* A Pickup passes over a message only if it took a later one from a directory
\* that comes before.
SkippedOnlyBehind ==
    [][ \A r \in Readers : EndPickup(r) =>
          \A f \in Skipped(r) : \E g \in walk[r].picked :
              Rank[g.dir] < Rank[f.dir] /\ f.time <= g.time ]_vars

\* A Pickup passes over nothing.
NoneSkipped == [][ \A r \in Readers : EndPickup(r) => Skipped(r) = {} ]_vars

\* A message that stays is fetched, or passed over as above, in the end: no
\* limit, failed walk or crash holds it back for ever, if every file fits.
Waits(r, k) ==
    /\ \E f \in files : f.id = k /\ f.size > 0 /\ cursor[r] < f.time
    /\ MaxBytes > 0 => \A f \in files : f.size <= MaxBytes
Drained == \A r \in Readers, k \in 1 .. MaxMsgs : []<>~Waits(r, k)

\* No message is in the outbox, whole, that a reader will never be handed.
NothingSkipped ==
    \A r \in Readers : \A f \in files :
        f.size > 0 /\ f.time <= cursor[r] => f \in got[r]
=============================================================================
