------------------------- MODULE CartridgeSavesProofs -------------------------
(***************************************************************************)
(* Proofs about CartridgeSaves: a save file stays whole, and an exit       *)
(* leaves the newest save on the disk; for any number of workers, any      *)
(* capacity of the queue and any number of writes and kills.               *)
(***************************************************************************)
EXTENDS CartridgeSaves, FiniteSetTheorems, SequenceTheorems, TLAPS

Snapshots == [AllFiles -> Int]
Names == Inodes \cup {NoInode}
Phases ==
    {"running", "waiting", "pending flush", "flushing pending", "final flush", "flushing",
     "draining", "exited", "unwinding", "destroying", "killed"}

SavesTypeOK ==
    /\ core \in {"gameboy", "gamegear"} /\ written \in Nat
    /\ cart \in Snapshots /\ dirty \in BOOLEAN
    /\ pending \in Seq(Snapshots) /\ tasks \in Seq(Snapshots)
    /\ writer \in [Writers -> [step : {"idle", "open", "write", "rename"},
                               data : Snapshots, at : Nat, inode : Names]]
    /\ tmp \in [AllFiles -> Names] /\ final \in [AllFiles -> Names]
    /\ content \in [Inodes -> Int]
    /\ host \in Phases

\* A thread without a snapshot is Idle, one with a snapshot is at one of its files.
AtAFile ==
    \A w \in Writers :
        IF writer[w].step = "idle" THEN writer[w] = Idle ELSE writer[w].at \in 1 .. Len(Files)

Holding(w) == writer[w].step \in {"write", "rename"}

\* The inodes that names refer to are different.
NamesApart ==
    \A f, g \in AllFiles :
        /\ final[f] # NoInode /\ final[f] = final[g] => f = g
        /\ tmp[f] # NoInode /\ tmp[f] = tmp[g] => f = g
        /\ tmp[f] # NoInode => tmp[f] # final[g]

\* One thread at most has a temporary file open, and that file still has its name;
\* before the rename its content is the snapshot's.
OneHolder ==
    /\ \A v, w \in Writers : Holding(v) /\ Holding(w) => v = w
    /\ \A w \in Writers : Holding(w) =>
          writer[w].inode # NoInode /\ tmp[FileOf(w)] = writer[w].inode
    /\ \A w \in Writers :
          writer[w].step = "rename" => content[writer[w].inode] = writer[w].data[FileOf(w)]

\* What is kept anywhere is a version, but in the temporary files.
Versions == [AllFiles -> Nat]
OnlyVersions ==
    /\ cart \in Versions /\ pending \in Seq(Versions) /\ tasks \in Seq(Versions)
    /\ \A w \in Writers : writer[w].data \in Versions
    /\ \A f \in AllFiles : Disk(f) \in Nat

DiskRight == NamesApart /\ OneHolder /\ OnlyVersions

DiskInv ==
    /\ SavesTypeOK /\ AtAFile
    /\ "overlap" \notin excuse => DiskRight

\* The files of its snapshot that a writer has renamed are on the disk.
Partly(w) == \A i \in 1 .. writer[w].at - 1 : Disk(Files[i]) = writer[w].data[Files[i]]

Saved == \A f \in ToSet(Files) : Disk(f) = cart[f]

\* The worker has opened none of its files so far.
New(w) == writer[w].step = "open" /\ writer[w].at = 1

\* As long as no two writers have met, one worker at most has begun to write.
OneBegun ==
    \A v, w \in SaveWorkers : v # w /\ writer[v] # Idle /\ writer[w] # Idle => New(v) \/ New(w)

\* No other worker is about to open a file.
Foremost(w) == \A u \in SaveWorkers \ {w} : writer[u].step # "open"

\* While the pool works: the last snapshot on its way is what a clean cartridge holds.
\* Of several workers that is the one about to open a file: two of them can not both
\* go on without meeting.
NewestOnItsWay ==
    /\ writer[HostThread] = Idle
    /\ OneBegun /\ \A w \in SaveWorkers : Partly(w)
    /\ ~dirty =>
          CASE pending # << >> -> pending[1] = cart
            [] pending = << >> /\ tasks # << >> -> tasks[Len(tasks)] = cart
            [] OTHER -> IF PoolIdle THEN Saved
                        ELSE \A w \in SaveWorkers :
                                writer[w] # Idle /\ Foremost(w) => writer[w].data = cart

\* Phase by phase, what the host has still to write.
NewestKept ==
    /\ host \in {"running", "waiting"} => NewestOnItsWay
    /\ host \in {"pending flush", "flushing pending", "final flush", "flushing", "draining"} =>
          PoolIdle
    /\ host \in {"pending flush", "final flush", "draining", "exited"} =>
          writer[HostThread] = Idle
    /\ host \in {"final flush", "flushing"} => pending = << >>
    /\ host = "pending flush" /\ ~dirty =>
          IF pending = << >> THEN Saved ELSE pending[1] = cart
    /\ host = "flushing pending" =>
          /\ writer[HostThread] # Idle /\ Partly(HostThread)
          /\ ~dirty => writer[HostThread].data = cart
    /\ host = "final flush" /\ ~dirty => Saved
    /\ host = "flushing" =>
          writer[HostThread] # Idle /\ Partly(HostThread) /\ writer[HostThread].data = cart
    /\ host \in {"draining", "exited"} => Saved
    /\ host \notin {"unwinding", "destroying"}

SavesInv ==
    /\ DiskInv
    /\ excuse = {} => NewestKept
-----------------------------------------------------------------------------
\* The files of a snapshot are one or two different names.
LEMMA FilesOfASnapshot ==
  ASSUME core \in {"gameboy", "gamegear"}
  PROVE  /\ Len(Files) \in 1 .. 2 /\ Len(Files) \in Nat
         /\ \A i \in 1 .. Len(Files) : Files[i] \in AllFiles
         /\ \A i, j \in 1 .. Len(Files) : Files[i] = Files[j] => i = j
         /\ ToSet(Files) = {Files[i] : i \in 1 .. Len(Files)}
         /\ ToSet(Files) \subseteq AllFiles
<1>1. CASE core = "gameboy"
  <2>1. Files = <<"sav", "rtc">>
    BY <1>1 DEF Files
  <2>2. Len(Files) = 2 /\ Files[1] = "sav" /\ Files[2] = "rtc" /\ DOMAIN Files = 1 .. 2
    BY <2>1
  <2> QED BY <2>2 DEF AllFiles, ToSet
<1>2. CASE core = "gamegear"
  <2>1. Files = <<"sav">>
    BY <1>2 DEF Files
  <2>2. Len(Files) = 1 /\ Files[1] = "sav" /\ DOMAIN Files = 1 .. 1
    BY <2>1
  <2> QED BY <2>2 DEF AllFiles, ToSet
<1> QED BY <1>1, <1>2

\* There are two files.
LEMMA TwoFiles == IsFiniteSet(AllFiles) /\ Cardinality(AllFiles) = 2
<1>1. IsFiniteSet({"sav"}) /\ Cardinality({"sav"}) = 1
  BY FS_Singleton
<1>2. IsFiniteSet({"sav"} \cup {"rtc"}) /\ Cardinality({"sav"} \cup {"rtc"}) = 2
  BY <1>1, FS_AddElement
<1>3. AllFiles = {"sav"} \cup {"rtc"}
  BY DEF AllFiles
<1> QED BY <1>2, <1>3

\* There are more inodes than names and writers can refer to.
LEMMA InodesSuffice ==
  ASSUME SavesTypeOK, NEW f \in AllFiles, tmp[f] = NoInode
  PROVE  \E n \in Inodes :
            n \notin {tmp[g] : g \in AllFiles} \cup {final[g] : g \in AllFiles}
                        \cup {writer[v].inode : v \in Writers}
<1> DEFINE T == {tmp[g] : g \in AllFiles}
           F == {final[g] : g \in AllFiles}
           W == {writer[v].inode : v \in Writers}
<1>1. IsFiniteSet(AllFiles) /\ Cardinality(AllFiles) = 2
  BY TwoFiles
<1>2. IsFiniteSet(Writers) /\ Cardinality(Writers) \in Nat
  BY SavesAssumption, FS_AddElement, FS_CardinalityType DEF Writers
<1>3. IsFiniteSet(T) /\ Cardinality(T) <= 2
  <2>1. [g \in AllFiles |-> tmp[g]] \in Surjection(AllFiles, T)
    BY DEF Surjection
  <2> QED BY <2>1, <1>1, FS_Surjection
<1>4. IsFiniteSet(F) /\ Cardinality(F) <= 2
  <2>1. [g \in AllFiles |-> final[g]] \in Surjection(AllFiles, F)
    BY DEF Surjection
  <2> QED BY <2>1, <1>1, FS_Surjection
<1>5. IsFiniteSet(W) /\ Cardinality(W) <= Cardinality(Writers)
  <2>1. [v \in Writers |-> writer[v].inode] \in Surjection(Writers, W)
    BY DEF Surjection
  <2> QED BY <2>1, <1>2, FS_Surjection
<1>6. IsFiniteSet(T \cup F \cup W)
  BY <1>3, <1>4, <1>5, FS_Union
<1>7. Cardinality(T \cup F \cup W) <= 4 + Cardinality(Writers)
  <2>1. IsFiniteSet(T \cup F) /\ Cardinality(T \cup F) <= 4
    <3>1. /\ IsFiniteSet(T \cup F)
          /\ Cardinality(T \cup F) = Cardinality(T) + Cardinality(F) - Cardinality(T \cap F)
      BY <1>3, <1>4, FS_Union
    <3>2. Cardinality(T) \in Nat /\ Cardinality(F) \in Nat /\ Cardinality(T \cap F) \in Nat
      BY <1>3, <1>4, FS_CardinalityType, FS_Intersection
    <3> HIDE DEF T, F
    <3> QED BY <3>1, <3>2, <1>3, <1>4
  <2>2. Cardinality((T \cup F) \cup W)
            = Cardinality(T \cup F) + Cardinality(W) - Cardinality((T \cup F) \cap W)
    BY <2>1, <1>5, FS_Union
  <2>3. /\ Cardinality(T \cup F) \in Nat /\ Cardinality(W) \in Nat
        /\ Cardinality((T \cup F) \cap W) \in Nat
    BY <2>1, <1>5, FS_CardinalityType, FS_Intersection
  <2> HIDE DEF T, F, W
  <2> QED BY <2>1, <2>2, <2>3, <1>2, <1>5
<1>8. /\ IsFiniteSet(Inodes) /\ Cardinality(Inodes) = 4 + Cardinality(Writers)
      /\ Inodes = 1 .. 4 + Cardinality(Writers)
  <2>1. Inodes = 1 .. 4 + Cardinality(Writers)
    BY <1>1 DEF Inodes
  <2> QED BY <2>1, <1>2, FS_Interval
<1>9. NoInode \notin Inodes
  BY <1>8 DEF NoInode
<1>10. Cardinality(Inodes \cup {NoInode}) = 5 + Cardinality(Writers)
  <2>1. Cardinality(Inodes \cup {NoInode}) = Cardinality(Inodes) + 1
    BY <1>8, <1>9, FS_AddElement, Zenon
  <2> QED BY <2>1, <1>8, <1>2
<1>11. ~(Inodes \cup {NoInode} \subseteq T \cup F \cup W)
  <2>1. SUFFICES ASSUME Inodes \cup {NoInode} \subseteq T \cup F \cup W
                 PROVE  FALSE
    OBVIOUS
  <2>2. Cardinality(Inodes \cup {NoInode}) <= Cardinality(T \cup F \cup W)
    BY <2>1, <1>6, FS_Subset
  <2>3. Cardinality(T \cup F \cup W) \in Nat
    BY <1>6, FS_CardinalityType
  <2> HIDE DEF T, F, W
  <2> QED BY <2>2, <2>3, <1>2, <1>7, <1>10
<1>12. NoInode \in T
  OBVIOUS
<1> QED BY <1>11, <1>12

\* What a sequence is after a task was taken from it, and after one was given to it.
LEMMA TakenFrom ==
  ASSUME NEW S, NEW s \in Seq(S), NEW i \in 1 .. Len(s)
  PROVE  /\ RemoveAt(s, i) \in Seq(S) /\ Len(s) \in Nat \ {0} /\ Len(RemoveAt(s, i)) = Len(s) - 1
         /\ s[i] \in S
         /\ \A j \in 1 .. Len(s) - 1 : RemoveAt(s, i)[j] = IF j < i THEN s[j] ELSE s[j + 1]
<1>1. Len(s) \in Nat \ {0} /\ i \in Nat /\ s[i] \in S
  BY LenProperties, ElementOfSeq
<1>2. /\ SubSeq(s, 1, i - 1) \in Seq(S) /\ Len(SubSeq(s, 1, i - 1)) = i - 1
      /\ \A j \in 1 .. i - 1 : SubSeq(s, 1, i - 1)[j] = s[j]
  BY <1>1
<1>3. /\ SubSeq(s, i + 1, Len(s)) \in Seq(S) /\ Len(SubSeq(s, i + 1, Len(s))) = Len(s) - i
      /\ \A j \in 1 .. Len(s) - i : SubSeq(s, i + 1, Len(s))[j] = s[i + j]
  BY <1>1
<1>4. PICK a \in Seq(S), b \in Seq(S) : a = SubSeq(s, 1, i - 1) /\ b = SubSeq(s, i + 1, Len(s))
  BY <1>2, <1>3
<1>5. RemoveAt(s, i) = a \o b
  BY <1>4 DEF RemoveAt
<1>6. Len(a) = i - 1 /\ Len(b) = Len(s) - i
  BY <1>2, <1>3, <1>4
<1>7. /\ a \o b \in Seq(S) /\ Len(a \o b) = Len(a) + Len(b)
      /\ \A j \in 1 .. Len(a) + Len(b) : (a \o b)[j] = IF j <= Len(a) THEN a[j] ELSE b[j - Len(a)]
  BY ConcatProperties
<1>8. Len(a) + Len(b) = Len(s) - 1
  BY <1>1, <1>6
<1>9. ASSUME NEW j \in 1 .. Len(s) - 1
      PROVE  (a \o b)[j] = IF j < i THEN s[j] ELSE s[j + 1]
  <2>1. CASE j < i
    <3>1. j <= Len(a) /\ j \in 1 .. i - 1
      BY <2>1, <1>1, <1>6
    <3> QED BY <3>1, <2>1, <1>7, <1>8, <1>2, <1>4
  <2>2. CASE ~(j < i)
    <3>1. ~(j <= Len(a)) /\ j - Len(a) \in 1 .. Len(s) - i /\ i + (j - Len(a)) = j + 1
      BY <2>2, <1>1, <1>6
    <3>2. b[j - Len(a)] = s[j + 1]
      BY <3>1, <1>3, <1>4
    <3> QED BY <3>1, <3>2, <2>2, <1>7, <1>8
  <2> QED BY <2>1, <2>2
<1> QED BY <1>1, <1>5, <1>7, <1>8, <1>9

LEMMA GivenTo ==
  ASSUME NEW S, NEW s \in Seq(S), NEW x \in S
  PROVE  /\ Append(s, x) \in Seq(S) /\ Len(s) \in Nat /\ Len(Append(s, x)) = Len(s) + 1
         /\ Append(s, x) # << >> /\ Append(s, x)[Len(Append(s, x))] = x
         /\ \A i \in 1 .. Len(Append(s, x)) : Append(s, x)[i] = IF i <= Len(s) THEN s[i] ELSE x
<1>1. /\ Append(s, x) \in Seq(S) /\ Len(s) \in Nat /\ Len(Append(s, x)) = Len(s) + 1
      /\ \A i \in 1 .. Len(s) : Append(s, x)[i] = s[i]
      /\ Append(s, x)[Len(s) + 1] = x
  BY AppendProperties, LenProperties
<1>2. Append(s, x) # << >>
  BY <1>1
<1> QED BY <1>1, <1>2
-----------------------------------------------------------------------------
\* What OpenTemp does, with the inode it finds named: the file's temporary one, or
\* one that nothing refers to.
Opens(w, i) ==
    /\ Alive /\ writer[w].step = "open"
    /\ IF tmp[FileOf(w)] # NoInode THEN i = tmp[FileOf(w)]
       ELSE /\ \A g \in AllFiles : tmp[g] # i /\ final[g] # i
            /\ \A v \in Writers : writer[v].inode # i
    /\ tmp' = [tmp EXCEPT ![FileOf(w)] = i]
    /\ content' = [content EXCEPT ![i] = Torn]
    /\ writer' = [writer EXCEPT ![w].step = "write", ![w].inode = i]
    /\ excuse \subseteq excuse'
    /\ \A u \in Writers \ {w} : writer[u] # Idle => "overlap" \in excuse'
    /\ excuse' \subseteq excuse \cup {"overlap"}
    /\ UNCHANGED <<laneVars, tasks, final, host, crashes>>

LEMMA InodesAreNat == Inodes \subseteq Nat /\ NoInode \notin Inodes
<1>1. \A n \in Int : 1 .. n \subseteq Nat /\ 0 \notin 1 .. n
  OBVIOUS
<1>2. Cardinality(Writers) \in Nat
  BY SavesAssumption, FS_AddElement, FS_CardinalityType DEF Writers
<1>3. Cardinality(AllFiles) \in Nat
  BY TwoFiles
<1> QED BY <1>1, <1>2, <1>3 DEF Inodes, NoInode

LEMMA OpenIsOpens ==
  ASSUME SavesTypeOK, AtAFile, NEW w \in Writers, OpenTemp(w)
  PROVE  FileOf(w) \in AllFiles /\ \E i \in Inodes : Opens(w, i)
<1> DEFINE f == FileOf(w)
           used == {tmp[g] : g \in AllFiles} \cup {final[g] : g \in AllFiles}
                      \cup {writer[v].inode : v \in Writers}
           i == IF tmp[f] # NoInode THEN tmp[f] ELSE CHOOSE n \in Inodes : n \notin used
<1>1. f \in AllFiles
  BY FilesOfASnapshot DEF SavesTypeOK, AtAFile, OpenTemp, FileOf
<1>2. CASE tmp[f] # NoInode
  <2>1. i = tmp[f] /\ i \in Inodes
    BY <1>1, <1>2 DEF SavesTypeOK, Names
  <2>2. Opens(w, i)
    BY <1>2, <2>1 DEF Opens, OpenTemp
  <2> QED BY <1>1, <2>1, <2>2
<1>3. CASE tmp[f] = NoInode
  <2>1. i \in Inodes /\ i \notin used
    BY <1>1, <1>3, InodesSuffice
  <2>2. /\ \A g \in AllFiles : tmp[g] # i /\ final[g] # i
        /\ \A v \in Writers : writer[v].inode # i
    BY <2>1
  <2>3. Opens(w, i)
    BY <1>3, <2>2 DEF Opens, OpenTemp
  <2> QED BY <1>1, <2>1, <2>3
<1> QED BY <1>2, <1>3

\* A snapshot, and a writer that has just been given one or has done with it.
LEMMA SnapshotsAreTyped ==
  /\ Nothing \in Snapshots
  /\ \A d \in Snapshots :
        Snapshot(d) \in [step : {"idle", "open", "write", "rename"},
                         data : Snapshots, at : Nat, inode : Names]
  /\ Idle \in [step : {"idle", "open", "write", "rename"},
               data : Snapshots, at : Nat, inode : Names]
  /\ Idle.step = "idle" /\ Idle.at = 0
  /\ \A d : Snapshot(d).step = "open" /\ Snapshot(d).at = 1 /\ Snapshot(d).data = d
BY DEF Nothing, Snapshots, Snapshot, Idle, Names

\* What submit does to the queue, whichever way it answers.
LEMMA Submitted ==
  ASSUME NEW queue \in Seq(Snapshots), NEW data \in Snapshots, NEW q \in Submit(queue, data)
  PROVE  \/ q.tasks = queue /\ q.pending = <<data>>
         \/ q.tasks = Append(queue, data) /\ q.pending = << >>
BY DEF Submit

\* The queue, the refused snapshot and the dirty flag after a scheduled flush, in three
\* steps at most: the refused snapshot is queued, then the cartridge's is, or refused.
Flushed(t1, p1) ==
    /\ t1 \in Seq(Snapshots) /\ p1 \in Seq(Snapshots)
    /\ \/ pending = << >> /\ t1 = tasks /\ p1 = << >>
       \/ pending # << >> /\ t1 = tasks /\ p1 = <<pending[1]>>
       \/ pending # << >> /\ t1 = Append(tasks, pending[1]) /\ p1 = << >>
    /\ IF p1 = << >> /\ dirty
       THEN /\ dirty' = FALSE
            /\ \/ tasks' = t1 /\ pending' = <<cart>>
               \/ tasks' = Append(t1, cart) /\ pending' = << >>
       ELSE tasks' = t1 /\ pending' = p1 /\ dirty' = dirty

LEMMA FlushIsFlushed ==
  ASSUME SavesTypeOK, ScheduledFlush
  PROVE  \E t1, p1 : Flushed(t1, p1)
<1>1. PICK first \in IF pending = << >> THEN {[tasks |-> tasks, pending |-> << >>]}
                     ELSE Submit(tasks, Head(pending)) :
        IF first.pending = << >> /\ dirty
        THEN /\ \E q \in Submit(first.tasks, cart) : tasks' = q.tasks /\ pending' = q.pending
             /\ dirty' = FALSE
        ELSE tasks' = first.tasks /\ pending' = first.pending /\ UNCHANGED dirty
  BY DEF ScheduledFlush
<1>2. PICK t1, p1 : t1 = first.tasks /\ p1 = first.pending
  OBVIOUS
<1>3. /\ \/ pending = << >> /\ t1 = tasks /\ p1 = << >>
         \/ pending # << >> /\ t1 = tasks /\ p1 = <<pending[1]>>
         \/ pending # << >> /\ t1 = Append(tasks, pending[1]) /\ p1 = << >>
      /\ pending # << >> => pending[1] \in Snapshots
  <2>1. CASE pending = << >>
    BY <1>1, <1>2, <2>1
  <2>2. CASE pending # << >>
    <3>1. Head(pending) = pending[1] /\ pending[1] \in Snapshots
      <4>1. Len(pending) \in Nat \ {0}
        BY <2>2, LenProperties, EmptySeq DEF SavesTypeOK
      <4> QED BY <4>1, <2>2, ElementOfSeq, HeadTailProperties DEF SavesTypeOK
    <3>2. first \in Submit(tasks, pending[1])
      BY <1>1, <2>2, <3>1
    <3> QED BY <3>1, <3>2, <2>2, <1>2, Submitted DEF SavesTypeOK
  <2> QED BY <2>1, <2>2
<1>4. t1 \in Seq(Snapshots) /\ p1 \in Seq(Snapshots)
  <2>1. /\ tasks \in Seq(Snapshots) /\ << >> \in Seq(Snapshots)
        /\ pending[1] \in Snapshots =>
              Append(tasks, pending[1]) \in Seq(Snapshots) /\ <<pending[1]>> \in Seq(Snapshots)
    BY GivenTo DEF SavesTypeOK
  <2> QED BY <2>1, <1>3
<1>5. IF p1 = << >> /\ dirty
      THEN /\ dirty' = FALSE
           /\ \/ tasks' = t1 /\ pending' = <<cart>>
              \/ tasks' = Append(t1, cart) /\ pending' = << >>
      ELSE tasks' = t1 /\ pending' = p1 /\ dirty' = dirty
  <2>1. CASE p1 = << >> /\ dirty
    <3>1. PICK q \in Submit(t1, cart) : tasks' = q.tasks /\ pending' = q.pending /\ dirty' = FALSE
      BY <1>1, <1>2, <2>1
    <3>2. cart \in Snapshots
      BY DEF SavesTypeOK
    <3> QED BY <3>1, <3>2, <1>4, <2>1, Submitted
  <2>2. CASE ~(p1 = << >> /\ dirty)
    BY <1>1, <1>2, <2>2
  <2> QED BY <2>1, <2>2
<1> QED BY <1>3, <1>4, <1>5 DEF Flushed
-----------------------------------------------------------------------------
(* Types, and that a thread with a snapshot is at one of its files.        *)

LEMMA SavesTypeInit == SavesInit => SavesTypeOK /\ AtAFile
<1> SUFFICES ASSUME SavesInit PROVE SavesTypeOK /\ AtAFile
  OBVIOUS
<1>1. SavesTypeOK
  <2>1. \A w \in Writers : writer[w] = Idle
    BY DEF SavesInit
  <2>2. /\ tmp \in [AllFiles -> Names] /\ final \in [AllFiles -> Names]
        /\ content \in [Inodes -> Int]
    BY DEF SavesInit, Names, Torn
  <2>3. cart \in Snapshots /\ pending \in Seq(Snapshots) /\ tasks \in Seq(Snapshots)
    BY SnapshotsAreTyped DEF SavesInit
  <2>4. writer \in [Writers -> [step : {"idle", "open", "write", "rename"},
                                data : Snapshots, at : Nat, inode : Names]]
    BY SnapshotsAreTyped DEF SavesInit
  <2> QED BY <2>2, <2>3, <2>4 DEF SavesInit, SavesTypeOK, Phases
<1>2. AtAFile
  BY SnapshotsAreTyped DEF SavesInit, AtAFile
<1> QED BY <1>1, <1>2

LEMMA SavesTypeStep == SavesTypeOK /\ AtAFile /\ [SavesNext]_saveVars => SavesTypeOK' /\ AtAFile'
<1> SUFFICES ASSUME SavesTypeOK, AtAFile, [SavesNext]_saveVars PROVE SavesTypeOK' /\ AtAFile'
  OBVIOUS
<1> DEFINE R == [step : {"idle", "open", "write", "rename"},
                 data : Snapshots, at : Nat, inode : Names]
<1>0. /\ core \in {"gameboy", "gamegear"} /\ written \in Nat
      /\ cart \in Snapshots /\ dirty \in BOOLEAN
      /\ pending \in Seq(Snapshots) /\ tasks \in Seq(Snapshots)
      /\ writer \in [Writers -> R]
      /\ tmp \in [AllFiles -> Names] /\ final \in [AllFiles -> Names]
      /\ content \in [Inodes -> Int] /\ host \in Phases
  BY DEF SavesTypeOK
<1>00. /\ Len(Files) \in Nat /\ 1 \in 1 .. Len(Files)
       /\ \A i \in 1 .. Len(Files) : Files[i] \in AllFiles
  <2>1. core \in {"gameboy", "gamegear"}
    BY <1>0
  <2>2. /\ Len(Files) \in 1 .. 2 /\ Len(Files) \in Nat
        /\ \A i \in 1 .. Len(Files) : Files[i] \in AllFiles
    BY <2>1, FilesOfASnapshot
  <2>3. 1 \in 1 .. Len(Files)
    BY <2>2
  <2> QED BY <2>2, <2>3
<1>t. \A w \in Writers : writer[w].step # "idle" => writer[w].at \in 1 .. Len(Files) /\ FileOf(w) \in AllFiles
  BY <1>00 DEF AtAFile, FileOf
<1>s. ASSUME core' = core, written' \in Nat, cart' \in Snapshots, dirty' \in BOOLEAN,
             pending' \in Seq(Snapshots), tasks' \in Seq(Snapshots),
             writer' \in [Writers -> R],
             tmp' \in [AllFiles -> Names], final' \in [AllFiles -> Names],
             content' \in [Inodes -> Int], host' \in Phases,
             \A w \in Writers : \/ writer'[w] = writer[w] \/ writer'[w] = Idle
                                \/ writer'[w].step # "idle" /\ writer'[w].at \in 1 .. Len(Files)
      PROVE  SavesTypeOK' /\ AtAFile'
  <2>1. Files' = Files
    BY <1>s DEF Files
  <2>2. SavesTypeOK'
    BY <1>0, <1>s DEF SavesTypeOK
  <2>3. AtAFile'
    BY <1>s, <2>1, SnapshotsAreTyped DEF AtAFile
  <2> QED BY <2>2, <2>3
<1>i. /\ \A w \in Writers : [writer EXCEPT ![w] = Idle] \in [Writers -> R]
      /\ \A w \in Writers, d \in Snapshots : [writer EXCEPT ![w] = Snapshot(d)] \in [Writers -> R]
      /\ \A w \in Writers, d \in Snapshots, v \in Writers :
            \/ [writer EXCEPT ![w] = Snapshot(d)][v] = writer[v]
            \/ /\ [writer EXCEPT ![w] = Snapshot(d)][v].step # "idle"
               /\ [writer EXCEPT ![w] = Snapshot(d)][v].at \in 1 .. Len(Files)
  <2>1. Idle \in R /\ \A d \in Snapshots : Snapshot(d) \in R
    BY SnapshotsAreTyped
  <2>2. \A d : Snapshot(d).step # "idle" /\ Snapshot(d).at \in 1 .. Len(Files)
    BY <1>00, SnapshotsAreTyped
  <2>3. writer \in [Writers -> R]
    BY <1>0
  <2> HIDE DEF R
  <2>4. ASSUME NEW w \in Writers, NEW d \in Snapshots, NEW v \in Writers
        PROVE  [writer EXCEPT ![w] = Snapshot(d)][v] = IF v = w THEN Snapshot(d) ELSE writer[v]
    BY <2>3
  <2>5. /\ \A w \in Writers : [writer EXCEPT ![w] = Idle] \in [Writers -> R]
        /\ \A w \in Writers, d \in Snapshots : [writer EXCEPT ![w] = Snapshot(d)] \in [Writers -> R]
    BY <2>1, <2>3
  <2> QED BY <2>2, <2>4, <2>5
<1>p. HostAfterWrite \in Phases /\ HostAfterThrow \in Phases
  BY DEF HostAfterWrite, HostAfterThrow, Phases
<1>d. HostThread \in Writers
  BY DEF Writers
<1> HIDE DEF R
<1>1. CASE GuestWrite
  <2>1. cart' \in Snapshots
    <3>1. PICK f \in ToSet(Files) : cart' = [cart EXCEPT ![f] = written + 1]
      BY <1>1 DEF GuestWrite
    <3>2. cart \in [AllFiles -> Int] /\ written + 1 \in Int
      BY <1>0 DEF Snapshots
    <3> QED BY <3>1, <3>2 DEF Snapshots
  <2> QED BY <1>1, <2>1, <1>0, <1>s DEF GuestWrite, diskVars
<1>2. CASE ScheduledFlush
  <2>1. PICK t1, p1 : Flushed(t1, p1)
    BY <1>2, FlushIsFlushed
  <2>2. Append(t1, cart) \in Seq(Snapshots) /\ <<cart>> \in Seq(Snapshots) /\ << >> \in Seq(Snapshots)
    BY <2>1, <1>0, GivenTo DEF Flushed
  <2>3. tasks' \in Seq(Snapshots) /\ pending' \in Seq(Snapshots) /\ dirty' \in BOOLEAN
    <3>1. CASE p1 = << >> /\ dirty
      BY <3>1, <2>1, <2>2 DEF Flushed
    <3>2. CASE ~(p1 = << >> /\ dirty)
      BY <3>2, <2>1, <1>0 DEF Flushed
    <3> QED BY <3>1, <3>2
  <2> QED BY <1>2, <2>3, <1>0, <1>s DEF ScheduledFlush, diskVars
<1>3. ASSUME NEW w \in SaveWorkers, TakeTask(w) PROVE SavesTypeOK' /\ AtAFile'
  <2>1. PICK i \in 1 .. Len(tasks) :
            /\ writer' = [writer EXCEPT ![w] = Snapshot(tasks[i])]
            /\ tasks' = RemoveAt(tasks, i)
    <3>1. PICK i \in IF Cardinality(SaveWorkers) = 1 THEN {1} ELSE 1 .. Len(tasks) :
              /\ i <= Len(tasks)
              /\ writer' = [writer EXCEPT ![w] = Snapshot(tasks[i])]
              /\ tasks' = RemoveAt(tasks, i)
      BY <1>3 DEF TakeTask
    <3>2. i \in 1 .. Len(tasks)
      BY <3>1, <1>0, LenProperties
    <3> QED BY <3>1, <3>2
  <2>2. w \in Writers /\ tasks[i] \in Snapshots /\ RemoveAt(tasks, i) \in Seq(Snapshots)
    BY <2>1, <1>0, TakenFrom DEF Writers
  <2>3. writer' \in [Writers -> R]
    BY <2>1, <2>2, <1>i
  <2>4. \A v \in Writers : \/ writer'[v] = writer[v]
                           \/ writer'[v].step # "idle" /\ writer'[v].at \in 1 .. Len(Files)
    BY <2>1, <2>2, <1>i
  <2> QED BY <1>3, <2>1, <2>2, <2>3, <2>4, <1>0, <1>s DEF TakeTask, laneVars, diskVars
<1>4. ASSUME NEW w \in Writers, OpenTemp(w) PROVE SavesTypeOK' /\ AtAFile'
  <2>1. PICK i \in Inodes : Opens(w, i)
    BY <1>4, OpenIsOpens
  <2>2. FileOf(w) \in AllFiles
    BY <1>4, OpenIsOpens
  <2>3. tmp' \in [AllFiles -> Names] /\ content' \in [Inodes -> Int]
    BY <2>1, <2>2, <1>0 DEF Opens, Names, Torn
  <2>4. writer' \in [Writers -> R]
    <3>1. writer[w] \in R /\ i \in Names
      BY <1>0 DEF Names
    <3>2. PICK n \in R : n = [writer[w] EXCEPT !.step = "write", !.inode = i]
      BY <3>1 DEF R
    <3>3. writer' = [writer EXCEPT ![w] = n]
      BY <2>1, <1>0, <3>2 DEF Opens
    <3> HIDE DEF R
    <3> QED BY <1>0, <3>2, <3>3
  <2>5. \A v \in Writers : \/ writer'[v] = writer[v]
                           \/ writer'[v].step # "idle" /\ writer'[v].at \in 1 .. Len(Files)
    BY <2>1, <1>0, <1>t DEF Opens, R
  <2> QED BY <2>1, <2>3, <2>4, <2>5, <1>0, <1>s DEF Opens, laneVars
<1>5. ASSUME NEW w \in Writers, WriteTemp(w) PROVE SavesTypeOK' /\ AtAFile'
  <2>1. writer[w].data[FileOf(w)] \in Int
    BY <1>5, <1>0, <1>t DEF WriteTemp, R, Snapshots
  <2>2. content' \in [Inodes -> Int]
    BY <1>5, <2>1, <1>0 DEF WriteTemp
  <2>3. writer' \in [Writers -> R]
    BY <1>5, <1>0 DEF WriteTemp, R
  <2>4. \A v \in Writers : \/ writer'[v] = writer[v]
                           \/ writer'[v].step # "idle" /\ writer'[v].at \in 1 .. Len(Files)
    BY <1>5, <1>0, <1>t DEF WriteTemp, R
  <2> QED BY <1>5, <2>2, <2>3, <2>4, <1>0, <1>s DEF WriteTemp, laneVars
<1>a. ASSUME NEW w \in Writers, Abandon(w)
      PROVE  /\ writer' \in [Writers -> R] /\ host' \in Phases /\ UNCHANGED laneVars
             /\ \A v \in Writers : writer'[v] = writer[v] \/ writer'[v] = Idle
  BY <1>a, <1>i, <1>0, <1>p DEF Abandon
<1>6. ASSUME NEW w \in Writers, RenameTemp(w) PROVE SavesTypeOK' /\ AtAFile'
  <2>1. CASE tmp[FileOf(w)] = NoInode
    <3>1. Abandon(w) /\ UNCHANGED <<tmp, final>>
      BY <1>6, <2>1 DEF RenameTemp
    <3> QED BY <1>6, <3>1, <1>a, <1>0, <1>s DEF RenameTemp, laneVars
  <2>2. CASE tmp[FileOf(w)] # NoInode
    <3>1. /\ writer[w].step = "rename" /\ FileOf(w) \in AllFiles
          /\ writer[w].at \in 1 .. Len(Files)
      BY <1>6, <1>t DEF RenameTemp
    <3>2. tmp' \in [AllFiles -> Names] /\ final' \in [AllFiles -> Names]
      BY <1>6, <2>2, <3>1, <1>0 DEF RenameTemp, Names
    <3>3. UNCHANGED <<tasks, content>>
      BY <1>6 DEF RenameTemp
    <3>4. CASE writer[w].at = Len(Files)
      <4>1. Finish(w)
        BY <1>6, <2>2, <3>4 DEF RenameTemp
      <4>2. /\ writer' \in [Writers -> R] /\ host' \in Phases
            /\ \A v \in Writers : writer'[v] = writer[v] \/ writer'[v] = Idle
            /\ UNCHANGED <<core, written, cart>>
            /\ dirty' \in BOOLEAN /\ pending' \in Seq(Snapshots)
        <5>1. /\ writer' = [writer EXCEPT ![w] = Idle]
              /\ host' = HostAfterWrite \/ host' = host
              /\ pending' = << >> \/ pending' = pending
              /\ UNCHANGED <<core, written, cart>>
              /\ dirty' \in BOOLEAN
          BY <4>1, <1>0 DEF Finish, laneVars
        <5>2. << >> \in Seq(Snapshots) /\ pending \in Seq(Snapshots)
          BY <1>0
        <5>3. \A v \in Writers : writer'[v] = IF v = w THEN Idle ELSE writer[v]
          BY <5>1, <1>0
        <5> QED BY <5>1, <5>2, <5>3, <1>i, <1>0, <1>p
      <4> QED BY <3>2, <3>3, <4>2, <1>0, <1>s
    <3>5. CASE writer[w].at # Len(Files)
      <4>1. /\ writer' = [writer EXCEPT ![w].step = "open", ![w].at = @ + 1,
                                        ![w].inode = NoInode]
            /\ UNCHANGED <<laneVars, host>>
        BY <1>6, <2>2, <3>5 DEF RenameTemp
      <4>2. writer[w].at + 1 \in 1 .. Len(Files)
        BY <3>1, <3>5, <1>00
      <4>3. writer' \in [Writers -> R]
        <5>1. [writer[w] EXCEPT !.step = "open", !.at = @ + 1, !.inode = NoInode] \in R
          <6>1. writer[w].at + 1 \in Nat /\ NoInode \in Names /\ writer[w] \in R
            BY <3>1, <1>00, <1>0 DEF Names
          <6> QED BY <6>1 DEF R
        <5>2. writer' = [writer EXCEPT ![w] =
                  [writer[w] EXCEPT !.step = "open", !.at = @ + 1, !.inode = NoInode]]
          BY <4>1, <1>0
        <5> QED BY <5>1, <5>2, <1>0
      <4>4. \A v \in Writers : \/ writer'[v] = writer[v]
                               \/ writer'[v].step # "idle" /\ writer'[v].at \in 1 .. Len(Files)
        BY <4>1, <4>2, <1>0 DEF R
      <4> QED BY <3>2, <3>3, <4>1, <4>3, <4>4, <1>0, <1>s DEF laneVars
    <3> QED BY <3>4, <3>5
  <2> QED BY <2>1, <2>2
<1>7. ASSUME NEW w \in Writers, WriteFails(w) PROVE SavesTypeOK' /\ AtAFile'
  <2>1. tmp' \in [AllFiles -> Names]
    BY <1>7, <1>0 DEF WriteFails, Names
  <2>2. Abandon(w)
    BY <1>7 DEF WriteFails
  <2> QED BY <1>7, <2>1, <2>2, <1>a, <1>0, <1>s DEF WriteFails, laneVars
<1>8. CASE Stop \/ LaneFails \/ Waited \/ WaitTimesOut \/ Drained
  BY <1>8, <1>0, <1>s
     DEF Stop, LaneFails, Waited, WaitTimesOut, Drained, HostGoes, laneVars, diskVars, Phases
<1>9. CASE FlushPending
  <2>1. CASE pending = << >>
    BY <1>9, <2>1, <1>0, <1>s DEF FlushPending, HostGoes, laneVars, diskVars, Phases
  <2>2. CASE pending # << >>
    <3>1. Head(pending) \in Snapshots
      BY <2>2, <1>0, HeadTailProperties, ElementOfSeq, EmptySeq, LenProperties
    <3>2. /\ HostGoes("pending flush", "flushing pending")
          /\ writer' = [writer EXCEPT ![HostThread] = Snapshot(Head(pending))]
      BY <1>9, <2>2 DEF FlushPending
    <3>3. /\ writer' \in [Writers -> R]
          /\ \A v \in Writers : \/ writer'[v] = writer[v]
                                \/ writer'[v].step # "idle" /\ writer'[v].at \in 1 .. Len(Files)
      BY <3>1, <3>2, <1>d, <1>i
    <3> QED BY <3>2, <3>3, <1>0, <1>s DEF HostGoes, laneVars, diskVars, Phases
  <2> QED BY <2>1, <2>2
<1>10. CASE FlushDirty
  <2>1. CASE dirty
    <3>1. /\ writer' = [writer EXCEPT ![HostThread] = Snapshot(cart)]
          /\ host' \in Phases /\ dirty' \in BOOLEAN
      BY <1>10, <2>1 DEF FlushDirty, Phases
    <3>2. /\ writer' \in [Writers -> R]
          /\ \A v \in Writers : \/ writer'[v] = writer[v]
                                \/ writer'[v].step # "idle" /\ writer'[v].at \in 1 .. Len(Files)
      BY <3>1, <1>0, <1>d, <1>i
    <3> QED BY <1>10, <3>1, <3>2, <1>0, <1>s DEF FlushDirty, diskVars
  <2>2. CASE ~dirty
    BY <1>10, <2>2, <1>0, <1>s DEF FlushDirty, diskVars, Phases
  <2> QED BY <2>1, <2>2
<1>11. CASE Kill
  BY <1>11, <1>0, <1>s DEF Kill, laneVars, diskVars, Phases
<1>12. CASE Restart
  <2>1. cart' \in Snapshots
    <3>1. \A f \in AllFiles : Disk(f) \in Int
      BY <1>0 DEF Disk, Names
    <3> QED BY <1>12, <3>1 DEF Restart, Snapshots
  <2>2. writer' \in [Writers -> R] /\ \A v \in Writers : writer'[v] = Idle
    BY <1>12, SnapshotsAreTyped DEF Restart, R
  <2>3. pending' \in Seq(Snapshots) /\ tasks' \in Seq(Snapshots)
    BY <1>12 DEF Restart
  <2> QED BY <1>12, <2>1, <2>2, <2>3, <1>0, <1>s DEF Restart, diskVars, Phases
<1>13. CASE UNCHANGED saveVars
  BY <1>13, <1>0, <1>s DEF saveVars, laneVars, diskVars
<1> QED BY <1>1, <1>2, <1>3, <1>4, <1>5, <1>6, <1>7, <1>8, <1>9, <1>10, <1>11, <1>12, <1>13
           DEF SavesNext
-----------------------------------------------------------------------------
(* The files, as long as no two writers meet.                              *)

LEMMA DiskInit == SavesInit => DiskRight
<1> SUFFICES ASSUME SavesInit PROVE DiskRight
  OBVIOUS
<1>1. \A w \in Writers : writer[w] = Idle /\ ~Holding(w)
  BY DEF SavesInit, Idle, Holding
<1>2. \A f \in AllFiles : tmp[f] = NoInode /\ final[f] = NoInode
  BY DEF SavesInit
<1>3. NamesApart
  BY <1>2 DEF NamesApart
<1>4. OneHolder
  BY <1>1 DEF OneHolder, Holding
<1>5. OnlyVersions
  <2>1. Nothing \in Versions /\ Idle.data = Nothing
    BY DEF Nothing, Versions, Idle
  <2>2. \A f \in AllFiles : Disk(f) = 0
    BY <1>2 DEF Disk
  <2> QED BY <2>1, <2>2, <1>1 DEF OnlyVersions, SavesInit
<1> QED BY <1>3, <1>4, <1>5 DEF DiskRight

\* A step that leaves the files alone and opens none.
LEMMA DiskLeftAlone ==
  ASSUME DiskRight, UNCHANGED <<core, diskVars>>,
         \A w \in Writers :
            writer'[w] = writer[w] \/ (~Holding(w)' /\ writer'[w].data \in Versions),
         cart' \in Versions, pending' \in Seq(Versions), tasks' \in Seq(Versions)
  PROVE  DiskRight'
<1>1. NamesApart'
  BY DEF DiskRight, NamesApart, diskVars
<1>2. OneHolder'
  <2>1. ASSUME NEW w \in Writers, Holding(w)'
        PROVE  writer'[w] = writer[w] /\ Holding(w) /\ FileOf(w)' = FileOf(w)
    <3>1. writer'[w] = writer[w]
      BY <2>1
    <3> QED BY <2>1, <3>1 DEF Holding, FileOf, Files
  <2>2. \A v, w \in Writers : Holding(v)' /\ Holding(w)' => v = w
    BY <2>1 DEF DiskRight, OneHolder
  <2>3. ASSUME NEW w \in Writers, Holding(w)'
        PROVE  writer'[w].inode # NoInode /\ tmp'[FileOf(w)'] = writer'[w].inode
    BY <2>1, <2>3 DEF DiskRight, OneHolder, diskVars
  <2>4. ASSUME NEW w \in Writers, writer'[w].step = "rename"
        PROVE  content'[writer'[w].inode] = writer'[w].data[FileOf(w)']
    <3>1. Holding(w)'
      BY <2>4 DEF Holding
    <3> QED BY <2>1, <2>4, <3>1 DEF DiskRight, OneHolder, diskVars
  <2> QED BY <2>2, <2>3, <2>4 DEF OneHolder
<1>3. OnlyVersions'
  <2>1. \A w \in Writers : writer'[w].data \in Versions
    BY DEF DiskRight, OnlyVersions
  <2>2. \A f \in AllFiles : Disk(f)' = Disk(f)
    BY DEF Disk, diskVars
  <2> QED BY <2>1, <2>2 DEF DiskRight, OnlyVersions
<1> QED BY <1>1, <1>2, <1>3 DEF DiskRight

\* A writer that opens a file while no other has a snapshot.
LEMMA DiskOpen ==
  ASSUME SavesTypeOK, AtAFile, DiskRight, NEW w \in Writers, OpenTemp(w), "overlap" \notin excuse'
  PROVE  DiskRight' /\ \A g \in AllFiles : Disk(g)' = Disk(g)
<1>1. PICK i \in Inodes : Opens(w, i)
  BY OpenIsOpens
<1> DEFINE f == FileOf(w)
<1>2. f \in AllFiles /\ i # NoInode /\ i \in Inodes
  BY OpenIsOpens, InodesAreNat
<1>3. \A v \in Writers \ {w} : writer[v] = Idle /\ ~Holding(v)
  BY <1>1 DEF Opens, Holding, Idle
<1>4. /\ tmp' = [tmp EXCEPT ![f] = i] /\ content' = [content EXCEPT ![i] = Torn]
      /\ writer' = [writer EXCEPT ![w].step = "write", ![w].inode = i]
      /\ UNCHANGED <<laneVars, tasks, final>>
  BY <1>1 DEF Opens
<1>5. \A g \in AllFiles : final[g] # i /\ (g # f => tmp[g] # i)
  <2>1. CASE tmp[f] # NoInode
    BY <2>1, <1>1, <1>2 DEF Opens, DiskRight, NamesApart
  <2>2. CASE tmp[f] = NoInode
    BY <2>2, <1>1 DEF Opens
  <2> QED BY <2>1, <2>2
<1>6. /\ tmp'[f] = i /\ \A g \in AllFiles \ {f} : tmp'[g] = tmp[g]
      /\ \A n \in Inodes \ {i} : content'[n] = content[n]
      /\ writer'[w].step = "write" /\ writer'[w].inode = i /\ writer'[w].data = writer[w].data
      /\ writer'[w].at = writer[w].at
      /\ \A v \in Writers \ {w} : writer'[v] = writer[v]
  BY <1>2, <1>4 DEF SavesTypeOK
<1>7. FileOf(w)' = f /\ final' = final
  BY <1>4, <1>6 DEF FileOf, Files, laneVars
<1> HIDE DEF f
<1>8. NamesApart'
  BY <1>2, <1>5, <1>6, <1>7 DEF DiskRight, NamesApart
<1>9. OneHolder'
  <2>1. \A v \in Writers : Holding(v)' => v = w
    BY <1>3, <1>6 DEF Holding
  <2>2. \A v \in Writers : writer'[v].step # "rename"
    BY <1>3, <1>6 DEF Holding
  <2> QED BY <2>1, <2>2, <1>2, <1>6, <1>7 DEF OneHolder
<1>10. \A g \in AllFiles : Disk(g)' = Disk(g)
  <2>1. \A g \in AllFiles : final[g] # NoInode => final[g] \in Inodes \ {i}
    BY <1>5 DEF SavesTypeOK, Names
  <2> QED BY <2>1, <1>6, <1>7 DEF Disk
<1>11. OnlyVersions'
  <2>1. \A v \in Writers : writer'[v].data = writer[v].data
    BY <1>6
  <2> QED BY <2>1, <1>10, <1>4 DEF DiskRight, OnlyVersions, laneVars
<1> QED BY <1>8, <1>9, <1>10, <1>11 DEF DiskRight

\* What the disk holds stays while a temporary file is written.
LEMMA DiskWrite ==
  ASSUME SavesTypeOK, AtAFile, DiskRight, NEW w \in Writers, WriteTemp(w)
  PROVE  DiskRight' /\ \A g \in AllFiles : Disk(g)' = Disk(g)
<1> DEFINE f == FileOf(w)
           i == writer[w].inode
<1>1. /\ writer[w].step = "write" /\ Holding(w)
      /\ content' = [content EXCEPT ![i] = writer[w].data[f]]
      /\ writer' = [writer EXCEPT ![w].step = "rename"]
      /\ UNCHANGED <<laneVars, tasks, tmp, final>>
  BY DEF WriteTemp, Holding
<1>2. f \in AllFiles
  BY <1>1, FilesOfASnapshot DEF SavesTypeOK, AtAFile, FileOf
<1>3. i # NoInode /\ tmp[f] = i /\ i \in Inodes
  BY <1>1 DEF DiskRight, OneHolder, SavesTypeOK, Names
<1>4. /\ content'[i] = writer[w].data[f]
      /\ \A n \in Inodes \ {i} : content'[n] = content[n]
      /\ writer'[w].step = "rename" /\ writer'[w].inode = i /\ writer'[w].data = writer[w].data
      /\ writer'[w].at = writer[w].at
      /\ \A v \in Writers \ {w} : writer'[v] = writer[v]
  BY <1>1, <1>3 DEF SavesTypeOK
<1>5. FileOf(w)' = f /\ final' = final /\ tmp' = tmp
  BY <1>1, <1>4 DEF FileOf, Files, laneVars
<1>6. \A v \in Writers \ {w} : ~Holding(v) /\ ~Holding(v)'
  BY <1>1, <1>4 DEF DiskRight, OneHolder, Holding
<1> HIDE DEF f, i
<1>7. NamesApart'
  BY <1>5 DEF DiskRight, NamesApart
<1>8. OneHolder'
  <2>1. \A v \in Writers \ {w} : writer'[v].step # "rename"
    BY <1>6 DEF Holding
  <2> QED BY <2>1, <1>3, <1>4, <1>5, <1>6 DEF OneHolder
<1>9. \A g \in AllFiles : Disk(g)' = Disk(g)
  <2>1. \A g \in AllFiles : final[g] # NoInode => final[g] \in Inodes \ {i}
    BY <1>2, <1>3 DEF SavesTypeOK, Names, DiskRight, NamesApart
  <2> QED BY <2>1, <1>4, <1>5 DEF Disk
<1>10. OnlyVersions'
  <2>1. \A v \in Writers : writer'[v].data = writer[v].data
    BY <1>4
  <2> QED BY <2>1, <1>9, <1>1 DEF DiskRight, OnlyVersions, laneVars
<1> QED BY <1>7, <1>8, <1>9, <1>10 DEF DiskRight

\* A rename puts the snapshot's version on the disk, and nothing else moves there.
LEMMA DiskRename ==
  ASSUME SavesTypeOK, AtAFile, DiskRight, NEW w \in Writers, RenameTemp(w),
         NEW f, f = FileOf(w)
  PROVE  /\ DiskRight' /\ tmp[f] # NoInode /\ f \in AllFiles
         /\ Disk(f)' = writer[w].data[f]
         /\ \A g \in AllFiles \ {f} : Disk(g)' = Disk(g)
<1> DEFINE i == writer[w].inode
<1>1. writer[w].step = "rename" /\ Holding(w)
  BY DEF RenameTemp, Holding
<1>2. f \in AllFiles
  BY <1>1, FilesOfASnapshot DEF SavesTypeOK, AtAFile, FileOf
<1>3. i # NoInode /\ tmp[f] = i /\ i \in Inodes /\ content[i] = writer[w].data[f]
  BY <1>1 DEF DiskRight, OneHolder, SavesTypeOK, Names
<1>4. /\ final' = [final EXCEPT ![f] = tmp[f]] /\ tmp' = [tmp EXCEPT ![f] = NoInode]
      /\ UNCHANGED <<tasks, content, core, cart>>
      /\ IF writer[w].at = Len(Files)
         THEN Finish(w)
         ELSE /\ writer' = [writer EXCEPT ![w].step = "open", ![w].at = @ + 1,
                                          ![w].inode = NoInode]
              /\ UNCHANGED <<laneVars, host>>
  <2>1. tmp[f] # NoInode
    BY <1>3
  <2>2. /\ final' = [final EXCEPT ![f] = tmp[f]] /\ tmp' = [tmp EXCEPT ![f] = NoInode]
        /\ UNCHANGED <<tasks, content>>
        /\ IF writer[w].at = Len(Files)
           THEN Finish(w)
           ELSE /\ writer' = [writer EXCEPT ![w].step = "open", ![w].at = @ + 1,
                                            ![w].inode = NoInode]
                /\ UNCHANGED <<laneVars, host>>
    BY <2>1 DEF RenameTemp
  <2>3. UNCHANGED <<core, cart>>
    BY <2>2 DEF Finish, laneVars
  <2> QED BY <2>2, <2>3
<1>5. /\ final'[f] = i /\ tmp'[f] = NoInode
      /\ \A g \in AllFiles \ {f} : final'[g] = final[g] /\ tmp'[g] = tmp[g]
  BY <1>2, <1>3, <1>4 DEF SavesTypeOK
<1>6. pending' = pending \/ pending' = << >>
  BY <1>4 DEF Finish, laneVars
<1>7. /\ \A v \in Writers \ {w} : writer'[v] = writer[v]
      /\ writer'[w].step \in {"idle", "open"} /\ writer'[w].data \in Versions
  <2>1. CASE writer[w].at = Len(Files)
    <3>1. writer' = [writer EXCEPT ![w] = Idle]
      BY <1>4, <2>1 DEF Finish
    <3>2. Idle.data \in Versions /\ Idle.step = "idle"
      BY DEF Idle, Nothing, Versions
    <3> QED BY <3>1, <3>2 DEF SavesTypeOK
  <2>2. CASE writer[w].at # Len(Files)
    <3>1. writer' = [writer EXCEPT ![w].step = "open", ![w].at = @ + 1, ![w].inode = NoInode]
      BY <1>4, <2>2
    <3> QED BY <3>1 DEF SavesTypeOK, DiskRight, OnlyVersions
  <2> QED BY <2>1, <2>2
<1>8. \A v \in Writers : ~Holding(v)'
  BY <1>1, <1>7 DEF DiskRight, OneHolder, Holding
<1>9. Disk(f)' = writer[w].data[f] /\ \A g \in AllFiles \ {f} : Disk(g)' = Disk(g)
  BY <1>3, <1>4, <1>5 DEF Disk
<1>10. writer[w].data[f] \in Nat
  BY <1>2 DEF DiskRight, OnlyVersions, Versions
<1>11. NamesApart'
  <2> HIDE DEF i
  <2>1. \A g \in AllFiles \ {f} : final[g] # i /\ tmp[g] # i
    BY <1>2, <1>3 DEF DiskRight, NamesApart
  <2> QED BY <2>1, <1>2, <1>3, <1>5 DEF DiskRight, NamesApart
<1>12. OneHolder'
  BY <1>8 DEF OneHolder, Holding
<1>13. OnlyVersions'
  <2>1. pending' \in Seq(Versions)
    <3>1. << >> \in Seq(Versions)
      OBVIOUS
    <3> QED BY <3>1, <1>6 DEF DiskRight, OnlyVersions
  <2>2. \A v \in Writers : writer'[v].data \in Versions
    BY <1>7 DEF DiskRight, OnlyVersions
  <2>3. \A g \in AllFiles : Disk(g)' \in Nat
    BY <1>2, <1>9, <1>10 DEF DiskRight, OnlyVersions
  <2> QED BY <2>1, <2>2, <2>3, <1>4 DEF DiskRight, OnlyVersions
<1> QED BY <1>2, <1>3, <1>9, <1>11, <1>12, <1>13 DEF DiskRight

\* A write that fails takes at most its own temporary file away.
LEMMA DiskFails ==
  ASSUME SavesTypeOK, AtAFile, DiskRight, NEW w \in Writers, WriteFails(w)
  PROVE  DiskRight'
<1>1. /\ writer' = [writer EXCEPT ![w] = Idle]
      /\ UNCHANGED <<laneVars, tasks, final, content>>
      /\ tmp' = IF writer[w].step = "rename" THEN [tmp EXCEPT ![FileOf(w)] = NoInode] ELSE tmp
  BY DEF WriteFails, Abandon
<1>2. /\ writer'[w] = Idle /\ \A v \in Writers \ {w} : writer'[v] = writer[v]
      /\ Idle.data \in Versions /\ ~Holding(w)'
  BY <1>1 DEF SavesTypeOK, Holding, Idle, Nothing, Versions
<1>3. NamesApart'
  <2>1. \A g \in AllFiles : tmp'[g] = tmp[g] \/ tmp'[g] = NoInode
    BY <1>1 DEF SavesTypeOK
  <2> QED BY <2>1, <1>1 DEF DiskRight, NamesApart
<1>4. OneHolder'
  <2>1. \A v \in Writers : Holding(v)' => v # w /\ writer'[v] = writer[v] /\ Holding(v)
    BY <1>2 DEF Holding
  <2>2. \A v \in Writers : Holding(v)' => FileOf(v)' = FileOf(v)
    BY <2>1, <1>1 DEF FileOf, Files, laneVars
  <2>3. \A v \in Writers : Holding(v)' => tmp' = tmp
    <3>1. \A v \in Writers : Holding(v)' => ~Holding(w)
      BY <2>1 DEF DiskRight, OneHolder
    <3> QED BY <3>1, <1>1 DEF Holding
  <2>4. \A v \in Writers : writer'[v].step = "rename" => Holding(v)'
    BY DEF Holding
  <2>5. \A u, v \in Writers : Holding(u)' /\ Holding(v)' => u = v
    BY <2>1 DEF DiskRight, OneHolder
  <2>6. \A v \in Writers :
            Holding(v)' => writer'[v].inode # NoInode /\ tmp'[FileOf(v)'] = writer'[v].inode
    BY <2>1, <2>2, <2>3 DEF DiskRight, OneHolder
  <2>7. \A v \in Writers : writer'[v].step = "rename" =>
            content'[writer'[v].inode] = writer'[v].data[FileOf(v)']
    BY <2>1, <2>2, <2>4, <1>1 DEF DiskRight, OneHolder
  <2> QED BY <2>5, <2>6, <2>7 DEF OneHolder
<1>5. OnlyVersions'
  <2>1. \A v \in Writers : writer'[v].data \in Versions
    BY <1>2 DEF DiskRight, OnlyVersions
  <2>2. \A g \in AllFiles : Disk(g)' = Disk(g)
    BY <1>1 DEF Disk
  <2> QED BY <2>1, <2>2, <1>1 DEF DiskRight, OnlyVersions, laneVars
<1> QED BY <1>3, <1>4, <1>5 DEF DiskRight

LEMMA DiskStep == DiskInv /\ [SavesNext]_saveVars => DiskInv'
<1> SUFFICES ASSUME DiskInv, [SavesNext]_saveVars PROVE DiskInv'
  OBVIOUS
<1>1. SavesTypeOK /\ AtAFile /\ SavesTypeOK' /\ AtAFile'
  BY SavesTypeStep DEF DiskInv
<1>2. SUFFICES ASSUME "overlap" \notin excuse' PROVE DiskRight'
  BY <1>1 DEF DiskInv
<1>3. DiskRight
  <2>1. "overlap" \notin excuse
    <3>1. ASSUME NEW w \in Writers, OpenTemp(w) PROVE excuse \subseteq excuse'
      BY <3>1 DEF OpenTemp
    <3>2. CASE Restart
      BY <3>2, <1>2 DEF Restart
    <3>3. CASE GuestWrite \/ ScheduledFlush \/ (\E w \in SaveWorkers : TakeTask(w))
      BY <3>3, <1>2 DEF GuestWrite, ScheduledFlush, TakeTask
    <3>4. CASE \E w \in Writers : WriteTemp(w) \/ RenameTemp(w) \/ WriteFails(w)
      BY <3>4, <1>2 DEF WriteTemp, RenameTemp, WriteFails
    <3>5. CASE Stop \/ LaneFails \/ Waited \/ WaitTimesOut \/ FlushPending \/ FlushDirty \/ Drained \/ Kill
      BY <3>5, <1>2 DEF Stop, LaneFails, Waited, WaitTimesOut, FlushPending, FlushDirty, Drained, Kill
    <3>6. CASE UNCHANGED saveVars
      BY <3>6, <1>2 DEF saveVars
    <3> QED BY <3>1, <3>2, <3>3, <3>4, <3>5, <3>6, <1>2 DEF SavesNext
  <2> QED BY <2>1 DEF DiskInv
<1>4. /\ cart \in Versions /\ pending \in Seq(Versions) /\ tasks \in Seq(Versions)
      /\ << >> \in Seq(Versions) /\ HostThread \in Writers
      /\ \A d : ~(Snapshot(d).step \in {"write", "rename"}) /\ Snapshot(d).data = d
      /\ Idle.data \in Versions /\ ~(Idle.step \in {"write", "rename"})
      /\ Versions \subseteq Snapshots
  BY <1>3 DEF DiskRight, OnlyVersions, Writers, Snapshot, Idle, Nothing, Versions, Snapshots
<1>5. ASSUME NEW w \in Writers, NEW d \in Versions, writer' = [writer EXCEPT ![w] = Snapshot(d)]
      PROVE  \A v \in Writers :
                writer'[v] = writer[v] \/ (~Holding(v)' /\ writer'[v].data \in Versions)
  BY <1>1, <1>4, <1>5 DEF Holding, SavesTypeOK
<1>6. CASE GuestWrite
  <2>1. PICK f \in ToSet(Files) : cart' = [cart EXCEPT ![f] = written + 1]
    BY <1>6 DEF GuestWrite
  <2>2. cart' \in Versions
    <3>1. written + 1 \in Nat
      BY <1>1 DEF SavesTypeOK
    <3> QED BY <2>1, <3>1, <1>4 DEF Versions
  <2> QED BY <1>3, <1>4, <1>6, <2>2, DiskLeftAlone DEF GuestWrite
<1>7. CASE ScheduledFlush
  <2>1. PICK t1, p1 : Flushed(t1, p1)
    BY <1>1, <1>7, FlushIsFlushed
  <2>2. t1 \in Seq(Versions) /\ p1 \in Seq(Versions)
    <3>1. pending # << >> => pending[1] \in Versions
      BY <1>4, LenProperties, EmptySeq, ElementOfSeq
    <3>2. pending[1] \in Versions =>
              Append(tasks, pending[1]) \in Seq(Versions) /\ <<pending[1]>> \in Seq(Versions)
      BY <1>4, GivenTo
    <3> QED BY <2>1, <3>1, <3>2, <1>4 DEF Flushed
  <2>3. Append(t1, cart) \in Seq(Versions) /\ <<cart>> \in Seq(Versions)
    BY <2>2, <1>4, GivenTo
  <2>4. tasks' \in Seq(Versions) /\ pending' \in Seq(Versions)
    <3>1. CASE p1 = << >> /\ dirty
      BY <3>1, <2>1, <2>2, <2>3, <1>4 DEF Flushed
    <3>2. CASE ~(p1 = << >> /\ dirty)
      BY <3>2, <2>1, <2>2 DEF Flushed
    <3> QED BY <3>1, <3>2
  <2> QED BY <1>3, <1>4, <1>7, <2>4, DiskLeftAlone DEF ScheduledFlush
<1>8. ASSUME NEW w \in SaveWorkers, TakeTask(w) PROVE DiskRight'
  <2>1. PICK i \in IF Cardinality(SaveWorkers) = 1 THEN {1} ELSE 1 .. Len(tasks) :
            /\ i <= Len(tasks)
            /\ writer' = [writer EXCEPT ![w] = Snapshot(tasks[i])]
            /\ tasks' = RemoveAt(tasks, i)
    BY <1>8 DEF TakeTask
  <2>2. i \in 1 .. Len(tasks)
    BY <2>1, <1>4, LenProperties
  <2>3. tasks[i] \in Versions /\ RemoveAt(tasks, i) \in Seq(Versions) /\ w \in Writers
    BY <2>2, <1>4, TakenFrom DEF Writers
  <2>4. \A v \in Writers :
            writer'[v] = writer[v] \/ (~Holding(v)' /\ writer'[v].data \in Versions)
    BY <2>1, <2>3, <1>5
  <2> QED BY <1>3, <1>4, <1>8, <2>1, <2>3, <2>4, DiskLeftAlone DEF TakeTask, laneVars
<1>9. ASSUME NEW w \in Writers, OpenTemp(w) PROVE DiskRight'
  BY <1>1, <1>2, <1>3, <1>9, DiskOpen
<1>10. ASSUME NEW w \in Writers, WriteTemp(w) PROVE DiskRight'
  BY <1>1, <1>3, <1>10, DiskWrite
<1>11. ASSUME NEW w \in Writers, RenameTemp(w) PROVE DiskRight'
  BY <1>1, <1>3, <1>11, DiskRename
<1>12. ASSUME NEW w \in Writers, WriteFails(w) PROVE DiskRight'
  BY <1>1, <1>3, <1>12, DiskFails
<1>13. CASE Stop \/ LaneFails \/ Waited \/ WaitTimesOut \/ Drained \/ Kill
  BY <1>3, <1>4, <1>13, DiskLeftAlone
     DEF Stop, LaneFails, Waited, WaitTimesOut, Drained, Kill, HostGoes, laneVars
<1>14. CASE FlushPending
  <2>1. CASE pending = << >>
    BY <1>3, <1>4, <1>14, <2>1, DiskLeftAlone DEF FlushPending, HostGoes, laneVars
  <2>2. CASE pending # << >>
    <3>1. Head(pending) \in Versions
      BY <2>2, <1>4, HeadTailProperties, ElementOfSeq, EmptySeq, LenProperties
    <3>2. \A v \in Writers :
              writer'[v] = writer[v] \/ (~Holding(v)' /\ writer'[v].data \in Versions)
      BY <3>1, <1>4, <1>5, <1>14, <2>2 DEF FlushPending
    <3> QED BY <1>3, <1>4, <1>14, <2>2, <3>2, DiskLeftAlone DEF FlushPending, HostGoes, laneVars
  <2> QED BY <2>1, <2>2
<1>15. CASE FlushDirty
  <2>1. \A v \in Writers :
            writer'[v] = writer[v] \/ (~Holding(v)' /\ writer'[v].data \in Versions)
    BY <1>4, <1>5, <1>15 DEF FlushDirty
  <2> QED BY <1>3, <1>4, <1>15, <2>1, DiskLeftAlone DEF FlushDirty
<1>16. CASE Restart
  <2>1. cart' \in Versions
    BY <1>3, <1>16 DEF Restart, DiskRight, OnlyVersions, Versions
  <2>2. \A v \in Writers : ~Holding(v)' /\ writer'[v].data \in Versions
    BY <1>4, <1>16 DEF Restart, Holding
  <2> QED BY <1>3, <1>4, <1>16, <2>1, <2>2, DiskLeftAlone DEF Restart
<1>17. CASE UNCHANGED saveVars
  BY <1>3, <1>4, <1>17, DiskLeftAlone DEF saveVars, laneVars
<1> QED BY <1>6, <1>7, <1>8, <1>9, <1>10, <1>11, <1>12, <1>13, <1>14, <1>15, <1>16, <1>17
           DEF SavesNext

\* A save file is never seen empty or half written, whichever call fails and wherever
\* the process is killed, for any number of workers: only two writers at a time can do
\* that.  The temporary file of the one writer has a name of its own until its content
\* is complete (CartridgeSaveManager.hpp writeFileAtomic).
THEOREM FilesStayWhole == SavesSpec => []FileWhole
<1>1. SavesInit => DiskInv
  BY SavesTypeInit, DiskInit DEF DiskInv
<1>2. DiskInv => FileWhole
  BY DEF DiskInv, DiskRight, OnlyVersions, FileWhole, Torn
<1> QED BY <1>1, <1>2, DiskStep, PTL DEF SavesSpec
-----------------------------------------------------------------------------
(* The newest save, as long as nothing has happened that may cost data.    *)

LEMMA NewestInit == SavesInit => NewestKept
<1> SUFFICES ASSUME SavesInit PROVE NewestKept
  OBVIOUS
<1>1. \A w \in Writers : writer[w] = Idle /\ Partly(w)
  BY DEF SavesInit, Idle, Partly
<1>2. Saved
  <2>1. core \in {"gameboy", "gamegear"}
    BY DEF SavesInit
  <2>2. ToSet(Files) \subseteq AllFiles
    BY <2>1, FilesOfASnapshot
  <2>3. \A f \in AllFiles : cart[f] = 0 /\ Disk(f) = 0
    BY DEF SavesInit, Nothing, Disk
  <2> QED BY <2>2, <2>3 DEF Saved
<1>3. PoolIdle
  BY <1>1 DEF SavesInit, PoolIdle, Writers
<1> QED BY <1>1, <1>2, <1>3 DEF SavesInit, NewestKept, NewestOnItsWay, OneBegun, Writers

\* A step that moves a writer within a file, or nothing at all.
LEMMA NewestUntouched ==
  ASSUME DiskInv, NewestKept, UNCHANGED <<core, cart, dirty, pending, tasks, host>>,
         \A g \in AllFiles : Disk(g)' = Disk(g),
         \A w \in Writers :
            /\ writer'[w] = Idle <=> writer[w] = Idle
            /\ writer'[w].data = writer[w].data /\ writer'[w].at = writer[w].at,
         OneBegun => OneBegun',
         \A w \in SaveWorkers : writer[w] # Idle /\ Foremost(w)' => Foremost(w)
  PROVE  NewestKept'
<1>1. core \in {"gameboy", "gamegear"} /\ Files' = Files
  BY DEF DiskInv, SavesTypeOK, Files
<1>2. \A w \in Writers : Partly(w) => Partly(w)'
  <2> SUFFICES ASSUME NEW w \in Writers, Partly(w), NEW i \in 1 .. writer'[w].at - 1
               PROVE  Disk(Files[i])' = writer'[w].data[Files[i]]
    BY <1>1 DEF Partly
  <2>1. i \in 1 .. writer[w].at - 1
    OBVIOUS
  <2>2. Disk(Files[i]) = writer[w].data[Files[i]]
    BY <2>1 DEF Partly
  <2>3. i \in 1 .. Len(Files)
    <3>1. writer[w].step # "idle"
      BY <2>1 DEF DiskInv, AtAFile, Idle
    <3>2. writer[w].at \in 1 .. Len(Files) /\ Len(Files) \in Nat
      BY <3>1, <1>1, FilesOfASnapshot DEF DiskInv, AtAFile
    <3> QED BY <2>1, <3>2
  <2>4. PICK g \in AllFiles : g = Files[i]
    BY <2>3, <1>1, FilesOfASnapshot
  <2>5. Disk(g)' = Disk(g) /\ g = Files'[i]
    BY <2>4, <1>1
  <2> QED BY <2>2, <2>4, <2>5
<1>3. Saved => Saved'
  <2>1. ToSet(Files) \subseteq AllFiles
    BY <1>1, FilesOfASnapshot
  <2> QED BY <2>1, <1>1 DEF Saved
<1>4. PoolIdle' <=> PoolIdle
  BY DEF PoolIdle, Writers
<1>5. HostThread \in Writers /\ SaveWorkers \subseteq Writers
  BY DEF Writers
<1>6. NewestOnItsWay => NewestOnItsWay'
  BY <1>2, <1>3, <1>4, <1>5 DEF NewestOnItsWay
<1> QED BY <1>2, <1>3, <1>4, <1>5, <1>6 DEF NewestKept

\* The last rename of a snapshot has put all of it on the disk.
LEMMA RenamedSoFar ==
  ASSUME DiskInv, DiskRight, NEW w \in Writers, Partly(w), RenameTemp(w)
  PROVE  IF writer[w].at = Len(Files)
         THEN Finish(w) /\ \A g \in ToSet(Files) : Disk(g)' = writer[w].data[g]
         ELSE /\ Partly(w)' /\ UNCHANGED <<laneVars, host>>
              /\ writer' = [writer EXCEPT ![w].step = "open", ![w].at = @ + 1,
                                          ![w].inode = NoInode]
<1>1. PICK f : f = FileOf(w)
  OBVIOUS
<1>2. /\ f \in AllFiles /\ tmp[f] # NoInode /\ Disk(f)' = writer[w].data[f]
      /\ \A g \in AllFiles \ {f} : Disk(g)' = Disk(g)
  BY <1>1, DiskRename DEF DiskInv
<1>3. core \in {"gameboy", "gamegear"} /\ writer[w].at \in 1 .. Len(Files)
  BY DEF DiskInv, SavesTypeOK, AtAFile, RenameTemp
<1>4. /\ Len(Files) \in Nat
      /\ \A i \in 1 .. Len(Files) : Files[i] \in AllFiles
      /\ \A i, j \in 1 .. Len(Files) : Files[i] = Files[j] => i = j
      /\ ToSet(Files) = {Files[i] : i \in 1 .. Len(Files)}
  BY <1>3, FilesOfASnapshot
<1>5. ASSUME NEW i \in 1 .. writer[w].at, NEW g, g = Files[i]
      PROVE  Disk(g)' = writer[w].data[g]
  <2>1. i \in 1 .. Len(Files)
    BY <1>3, <1>4
  <2>2. CASE i = writer[w].at
    BY <2>2, <1>1, <1>2, <1>5 DEF FileOf
  <2>3. CASE i # writer[w].at
    <3>1. i \in 1 .. writer[w].at - 1
      BY <2>3, <1>3
    <3>2. g # f /\ g \in AllFiles
      BY <2>1, <2>3, <1>1, <1>3, <1>4, <1>5 DEF FileOf
    <3>3. Disk(g) = writer[w].data[g]
      BY <3>1, <1>5 DEF Partly
    <3> QED BY <3>2, <3>3, <1>2
  <2> QED BY <2>2, <2>3
<1>6. CASE writer[w].at = Len(Files)
  <2>1. Finish(w)
    BY <1>1, <1>2, <1>6 DEF RenameTemp
  <2>2. ASSUME NEW g \in ToSet(Files) PROVE Disk(g)' = writer[w].data[g]
    <3>1. PICK i \in 1 .. Len(Files) : g = Files[i]
      BY <1>4
    <3> QED BY <3>1, <1>5, <1>6
  <2> QED BY <2>1, <2>2, <1>6
<1>7. CASE writer[w].at # Len(Files)
  <2>1. /\ UNCHANGED <<laneVars, host>>
        /\ writer' = [writer EXCEPT ![w].step = "open", ![w].at = @ + 1, ![w].inode = NoInode]
    BY <1>1, <1>2, <1>7 DEF RenameTemp
  <2>2. Files' = Files
    BY <2>1 DEF Files, laneVars
  <2>3. writer'[w].at = writer[w].at + 1 /\ writer'[w].data = writer[w].data
    BY <2>1 DEF DiskInv, SavesTypeOK
  <2>4. ASSUME NEW i \in 1 .. writer'[w].at - 1
        PROVE  Disk(Files[i])' = writer'[w].data[Files'[i]]
    <3>1. i \in 1 .. writer[w].at
      BY <2>3, <1>3, <1>4
    <3>2. PICK g : g = Files[i]
      OBVIOUS
    <3>3. Disk(g)' = writer[w].data[g]
      BY <3>1, <3>2, <1>5
    <3>4. g = Files'[i]
      BY <2>2, <3>2
    <3> QED BY <3>3, <3>4, <2>3
  <2> QED BY <2>1, <2>4, <1>7 DEF Partly
<1> QED BY <1>6, <1>7

LEMMA NewestFlushes ==
  ASSUME DiskInv, NewestKept, ScheduledFlush
  PROVE  NewestKept'
<1>1. PICK t1, p1 : Flushed(t1, p1)
  BY FlushIsFlushed DEF DiskInv
<1>2. /\ host = "running" /\ host' = "running" /\ NewestOnItsWay
      /\ UNCHANGED <<core, cart, writer, diskVars>>
  BY DEF ScheduledFlush, NewestKept
<1>3. /\ OneBegun' /\ \A w \in SaveWorkers : Partly(w)'
      /\ \A w \in SaveWorkers : Foremost(w)' <=> Foremost(w)
  BY <1>2 DEF NewestOnItsWay, OneBegun, New, Foremost, Partly, Disk, Files, diskVars
<1>4. Saved => Saved'
  BY <1>2 DEF Saved, Disk, Files, diskVars
<1>5. ASSUME NEW t \in Seq(Snapshots), NEW x \in Snapshots
      PROVE  Append(t, x) # << >> /\ Append(t, x)[Len(Append(t, x))] = x
  BY <1>5, GivenTo
<1>6. cart \in Snapshots /\ tasks \in Seq(Snapshots) /\ pending \in Seq(Snapshots)
  BY DEF DiskInv, SavesTypeOK
<1>7. ASSUME ~dirty'
      PROVE  \/ pending' # << >> /\ pending'[1] = cart
             \/ pending' = << >> /\ tasks' # << >> /\ tasks'[Len(tasks')] = cart
             \/ pending' = << >> /\ pending = << >> /\ tasks' = tasks /\ ~dirty
  <2>1. CASE p1 = << >> /\ dirty
    BY <2>1, <1>1, <1>5, <1>6 DEF Flushed
  <2>2. CASE ~(p1 = << >> /\ dirty)
    <3>1. tasks' = t1 /\ pending' = p1 /\ dirty' = dirty
      BY <2>2, <1>1 DEF Flushed
    <3>2. CASE pending = << >>
      BY <3>1, <3>2, <1>1, <1>7 DEF Flushed
    <3>3. CASE pending # << >>
      <4>1. pending[1] = cart
        BY <3>1, <3>3, <1>2, <1>7 DEF NewestOnItsWay
      <4>2. \/ t1 = tasks /\ p1 = <<cart>>
            \/ t1 = Append(tasks, cart) /\ p1 = << >>
        BY <4>1, <3>3, <1>1 DEF Flushed
      <4> QED BY <4>2, <3>1, <1>5, <1>6
    <3> QED BY <3>2, <3>3
  <2> QED BY <2>1, <2>2
<1>8. NewestOnItsWay'
  <2>1. PoolIdle' => \A w \in SaveWorkers : writer[w] = Idle
    BY <1>2 DEF PoolIdle
  <2>2. CASE dirty'
    BY <2>2, <1>2, <1>3 DEF NewestOnItsWay
  <2>3. CASE ~dirty'
    <3>1. CASE pending' # << >> /\ pending'[1] = cart
      BY <3>1, <1>2, <1>3 DEF NewestOnItsWay
    <3>2. CASE pending' = << >> /\ tasks' # << >> /\ tasks'[Len(tasks')] = cart
      BY <3>2, <1>2, <1>3 DEF NewestOnItsWay
    <3>3. CASE pending' = << >> /\ pending = << >> /\ tasks' = tasks /\ ~dirty
      <4>1. PoolIdle' <=> PoolIdle
        BY <3>3, <1>2 DEF PoolIdle
      <4> QED BY <3>3, <4>1, <1>2, <1>3, <1>4 DEF NewestOnItsWay
    <3> QED BY <2>3, <3>1, <3>2, <3>3, <1>7
  <2> QED BY <2>2, <2>3
<1> QED BY <1>2, <1>8 DEF NewestKept

LEMMA NewestTaken ==
  ASSUME DiskInv, NewestKept, excuse' = {}, NEW w \in SaveWorkers, TakeTask(w)
  PROVE  NewestKept'
<1>2. /\ 1 <= Len(tasks) /\ Alive /\ writer[w] = Idle
      /\ writer' = [writer EXCEPT ![w] = Snapshot(tasks[1])] /\ tasks' = RemoveAt(tasks, 1)
      /\ UNCHANGED <<laneVars, diskVars, host>>
  BY DEF TakeTask
<1>3. tasks \in Seq(Snapshots) /\ 1 \in 1 .. Len(tasks) /\ tasks # << >>
  <2>1. tasks \in Seq(Snapshots) /\ Len(tasks) \in Nat
    BY LenProperties DEF DiskInv, SavesTypeOK
  <2> QED BY <2>1, <1>2, EmptySeq
<1>4. ~PoolIdle
  BY <1>3 DEF PoolIdle
<1>5. host \in {"running", "waiting", "killed", "exited"} /\ host \notin {"killed", "exited"}
  BY <1>2, <1>4 DEF NewestKept, Alive, DiskInv, SavesTypeOK, Phases
<1>6. /\ writer'[w] = Snapshot(tasks[1]) /\ writer'[w] # Idle
      /\ writer'[w].data = tasks[1] /\ writer'[w].at = 1
      /\ w # HostThread /\ writer'[HostThread] = writer[HostThread]
  <2>1. w \in Writers /\ w # HostThread /\ HostThread \in Writers
    BY SavesAssumption DEF Writers, HostThread
  <2>2. Snapshot(tasks[1]) # Idle /\ Snapshot(tasks[1]).data = tasks[1] /\ Snapshot(tasks[1]).at = 1
    BY DEF Snapshot, Idle
  <2> QED BY <2>1, <2>2, <1>2 DEF DiskInv, SavesTypeOK
<1>7. ASSUME NEW v \in SaveWorkers
      PROVE  v # w => writer'[v] = writer[v]
  BY <1>2, <1>7 DEF DiskInv, SavesTypeOK, Writers
<1>8. ~PoolIdle'
  BY <1>6 DEF PoolIdle
<1>9. tasks' # << >> => tasks'[Len(tasks')] = tasks[Len(tasks)]
  <2>1. PICK n, t : n = Len(tasks) /\ t = tasks'
    OBVIOUS
  <2>2. /\ t \in Seq(Snapshots) /\ n \in Nat \ {0} /\ Len(t) = n - 1
        /\ \A j \in 1 .. n - 1 : t[j] = IF j < 1 THEN tasks[j] ELSE tasks[j + 1]
    BY <2>1, <1>2, <1>3, TakenFrom
  <2>3. ASSUME t # << >> PROVE t[n - 1] = tasks[n]
    <3>1. Len(t) \in Nat \ {0}
      BY <2>2, <2>3, EmptySeq, LenProperties
    <3>2. n - 1 \in 1 .. n - 1 /\ (n - 1) + 1 = n /\ ~(n - 1 < 1)
      BY <2>2, <3>1
    <3> QED BY <2>2, <3>2
  <2> QED BY <2>1, <2>2, <2>3
<1>10. tasks' = << >> => tasks[1] = tasks[Len(tasks)]
  <2>1. Len(RemoveAt(tasks, 1)) = Len(tasks) - 1 /\ Len(tasks) \in Nat
    BY <1>3, TakenFrom
  <2> QED BY <2>1, <1>2, EmptySeq
<1>11. ASSUME NewestOnItsWay PROVE OneBegun' /\ \A v \in SaveWorkers : Partly(v)'
  <2>1. New(w)'
    BY <1>6 DEF New, Snapshot
  <2>2. OneBegun'
    BY <2>1, <1>7, <1>11 DEF NewestOnItsWay, OneBegun, New
  <2>3. ASSUME NEW v \in SaveWorkers PROVE Partly(v)'
    <3>1. CASE v = w
      BY <3>1, <1>6 DEF Partly
    <3>2. CASE v # w
      BY <3>2, <1>2, <1>7, <1>11 DEF NewestOnItsWay, Partly, Disk, Files, laneVars, diskVars
    <3> QED BY <3>1, <3>2
  <2> QED BY <2>2, <2>3
<1>12. NewestOnItsWay'
  <2>1. NewestOnItsWay /\ OneBegun' /\ (\A v \in SaveWorkers : Partly(v)') /\ UNCHANGED <<cart, dirty, pending>>
    BY <1>2, <1>5, <1>11 DEF NewestKept, laneVars
  <2>2. ASSUME ~dirty, pending = << >> PROVE tasks[Len(tasks)] = cart
    BY <2>1, <2>2, <1>3 DEF NewestOnItsWay
  <2>3. writer'[HostThread] = Idle
    BY <2>1, <1>6 DEF NewestOnItsWay
  <2>4. ASSUME ~dirty, pending # << >> PROVE pending[1] = cart
    BY <2>1, <2>4 DEF NewestOnItsWay
  <2>5. CASE dirty
    BY <2>1, <2>3, <2>5 DEF NewestOnItsWay
  <2>6. CASE ~dirty /\ pending # << >>
    BY <2>1, <2>3, <2>4, <2>6 DEF NewestOnItsWay
  <2>7. CASE ~dirty /\ pending = << >> /\ tasks' # << >>
    BY <2>1, <2>2, <2>3, <2>7, <1>9 DEF NewestOnItsWay
  <2>8. CASE ~dirty /\ pending = << >> /\ tasks' = << >>
    <3>1. writer'[w].step = "open"
      BY <1>6 DEF Snapshot
    <3>2. \A v \in SaveWorkers : v # w => ~Foremost(v)'
      BY <3>1 DEF Foremost
    <3>3. writer'[w].data = cart
      BY <2>2, <2>8, <1>6, <1>10
    <3>4. \A v \in SaveWorkers : writer'[v] # Idle /\ Foremost(v)' => writer'[v].data = cart
      BY <3>2, <3>3
    <3> QED BY <3>4, <2>1, <2>3, <2>8, <1>8 DEF NewestOnItsWay
  <2> QED BY <2>5, <2>6, <2>7, <2>8
<1> QED BY <1>2, <1>5, <1>12 DEF NewestKept

\* A writer that opens or writes a file.
LEMMA NewestWrites ==
  ASSUME DiskInv, DiskRight, NewestKept, NEW w \in Writers,
         (OpenTemp(w) /\ "overlap" \notin excuse') \/ WriteTemp(w)
  PROVE  NewestKept'
<1>1. CASE OpenTemp(w) /\ "overlap" \notin excuse'
  <2>1. PICK i \in Inodes : Opens(w, i)
    BY <1>1, OpenIsOpens DEF DiskInv
  <2>2. /\ writer[w].step = "open"
        /\ writer' = [writer EXCEPT ![w].step = "write", ![w].inode = i]
        /\ UNCHANGED <<core, cart, dirty, pending, tasks, host>>
    BY <2>1 DEF Opens, laneVars
  <2>3. ASSUME NEW v \in Writers
        PROVE  /\ writer'[v] = Idle <=> writer[v] = Idle
               /\ writer'[v].data = writer[v].data /\ writer'[v].at = writer[v].at
    <3>1. /\ writer'[w].step = "write" /\ writer'[w].data = writer[w].data
          /\ writer'[w].at = writer[w].at
          /\ v # w => writer'[v] = writer[v]
      BY <2>2 DEF DiskInv, SavesTypeOK
    <3>2. writer[w] # Idle /\ writer'[w] # Idle
      <4>1. Idle.step = "idle" /\ writer[w].step = "open"
        BY <2>2, SnapshotsAreTyped
      <4> QED BY <3>1, <4>1
    <3> QED BY <3>1, <3>2
  <2>4. \A g \in AllFiles : Disk(g)' = Disk(g)
    BY <1>1, DiskOpen DEF DiskInv
  <2>5. ASSUME NEW v \in SaveWorkers, v # w PROVE writer[v] = Idle /\ writer'[v] = Idle
    <3>1. v \in Writers
      BY DEF Writers
    <3>2. writer[v] = Idle
      BY <3>1, <2>5, <1>1 DEF OpenTemp
    <3> QED BY <3>1, <3>2, <2>3
  <2>6. OneBegun'
    BY <2>5 DEF OneBegun
  <2>7. \A v \in SaveWorkers : writer[v] # Idle /\ Foremost(v)' => Foremost(v)
    BY <2>5 DEF Foremost, Idle
  <2> QED BY <2>2, <2>3, <2>4, <2>6, <2>7, NewestUntouched
<1>2. CASE WriteTemp(w)
  <2>1. /\ writer[w].step = "write" /\ writer' = [writer EXCEPT ![w].step = "rename"]
        /\ UNCHANGED <<core, cart, dirty, pending, tasks, host>>
    BY <1>2 DEF WriteTemp, laneVars
  <2>2. ASSUME NEW v \in Writers
        PROVE  /\ writer'[v] = Idle <=> writer[v] = Idle
               /\ writer'[v].data = writer[v].data /\ writer'[v].at = writer[v].at
    BY <2>1 DEF DiskInv, SavesTypeOK, Idle
  <2>3. \A g \in AllFiles : Disk(g)' = Disk(g)
    BY <1>2, DiskWrite DEF DiskInv
  <2>4. ASSUME NEW v \in SaveWorkers
        PROVE  /\ writer'[v].step = "open" <=> writer[v].step = "open"
               /\ New(v)' <=> New(v)
    <3>1. v \in Writers
      BY DEF Writers
    <3>2. writer'[v].step = "open" <=> writer[v].step = "open"
      BY <3>1, <2>1 DEF DiskInv, SavesTypeOK
    <3> QED BY <3>1, <3>2, <2>2 DEF New
  <2>5. OneBegun => OneBegun'
    BY <2>2, <2>4 DEF OneBegun, Writers
  <2>6. \A v \in SaveWorkers : Foremost(v)' => Foremost(v)
    BY <2>4 DEF Foremost
  <2> QED BY <2>1, <2>2, <2>3, <2>5, <2>6, NewestUntouched
<1> QED BY <1>1, <1>2

\* A worker of the pool renames a file.
LEMMA NewestRenamedByPool ==
  ASSUME DiskInv, DiskRight, NewestKept, NEW w \in SaveWorkers, RenameTemp(w)
  PROVE  NewestKept'
<1>1. w \in Writers /\ HostThread \in Writers /\ w # HostThread
  BY SavesAssumption DEF Writers, HostThread
<1>2. Alive /\ writer[w].step = "rename" /\ writer[w] # Idle /\ UNCHANGED tasks
  BY DEF RenameTemp, Idle
<1>3. ~PoolIdle
  BY <1>2 DEF PoolIdle
<1>4. host \in {"running", "waiting"} /\ NewestOnItsWay
  BY <1>2, <1>3 DEF NewestKept, Alive, DiskInv, SavesTypeOK, Phases
<1>5. Partly(w) /\ writer[HostThread] = Idle /\ OneBegun
  BY <1>4 DEF NewestOnItsWay
<1>6. \A v \in SaveWorkers : v # w /\ writer[v] # Idle => New(v)
  BY <1>2, <1>5 DEF OneBegun, New
<1>7. ASSUME NEW v \in SaveWorkers, v # w, writer'[v] = writer[v] PROVE Partly(v)'
  <2>1. writer[v].at \in {0, 1}
    BY <1>6, <1>7 DEF New, Idle
  <2> QED BY <2>1, <1>7 DEF Partly
<1>8. CASE writer[w].at = Len(Files)
  <2>1. Finish(w) /\ \A g \in ToSet(Files) : Disk(g)' = writer[w].data[g]
    BY <1>1, <1>5, <1>8, RenamedSoFar
  <2>2. writer' = [writer EXCEPT ![w] = Idle] /\ UNCHANGED <<laneVars, host>>
    BY <2>1, <1>1 DEF Finish
  <2>3. /\ writer'[w] = Idle /\ writer'[HostThread] = Idle
        /\ \A v \in SaveWorkers : v # w => writer'[v] = writer[v]
    BY <2>2, <1>1, <1>5 DEF DiskInv, SavesTypeOK, Writers
  <2>4. \A v \in SaveWorkers : Partly(v)'
    BY <2>3, <1>7 DEF Partly, Idle
  <2>5. OneBegun'
    BY <2>3, <1>5 DEF OneBegun, New
  <2>6. ASSUME ~dirty, pending = << >>, tasks = << >>, PoolIdle' PROVE Saved'
    <3>1. Foremost(w)
      BY <2>3, <2>6 DEF Foremost, PoolIdle, Idle
    <3>2. writer[w].data = cart
      BY <3>1, <2>6, <1>2, <1>3, <1>4 DEF NewestOnItsWay
    <3>3. Files' = Files /\ cart' = cart
      BY <2>2 DEF laneVars, Files
    <3> QED BY <2>1, <3>2, <3>3 DEF Saved
  <2>7. ASSUME ~dirty, pending = << >>, tasks = << >>, NEW v \in SaveWorkers, writer'[v] # Idle, Foremost(v)'
        PROVE  writer'[v].data = cart
    <3>1. v # w /\ writer'[v] = writer[v]
      BY <2>3, <2>7
    <3>2. Foremost(v)
      BY <2>3, <2>7, <1>2 DEF Foremost
    <3> QED BY <3>1, <3>2, <2>7, <1>3, <1>4 DEF NewestOnItsWay
  <2>8. NewestOnItsWay'
    <3>1. UNCHANGED <<cart, dirty, pending, tasks>>
      BY <2>2, <1>2 DEF laneVars
    <3>2. PoolIdle' => tasks = << >>
      BY <1>2 DEF PoolIdle
    <3> QED BY <3>1, <3>2, <2>3, <2>4, <2>5, <2>6, <2>7, <1>4 DEF NewestOnItsWay
  <2> QED BY <2>2, <2>8, <1>4 DEF NewestKept
<1>9. CASE writer[w].at # Len(Files)
  <2>1. /\ Partly(w)' /\ UNCHANGED <<laneVars, host>>
        /\ writer' = [writer EXCEPT ![w].step = "open", ![w].at = @ + 1, ![w].inode = NoInode]
    BY <1>1, <1>5, <1>9, RenamedSoFar
  <2>2. /\ writer'[w].step = "open" /\ writer'[w].data = writer[w].data
        /\ writer'[HostThread] = Idle
        /\ \A v \in SaveWorkers : v # w => writer'[v] = writer[v]
    BY <2>1, <1>1, <1>5 DEF DiskInv, SavesTypeOK, Writers
  <2>3. writer'[w] # Idle /\ ~PoolIdle'
    BY <2>2 DEF PoolIdle, Idle
  <2>4. \A v \in SaveWorkers : Partly(v)'
    BY <2>1, <2>2, <1>7
  <2>5. OneBegun'
    BY <2>2, <1>6 DEF OneBegun, New
  <2>6. ASSUME NEW v \in SaveWorkers, Foremost(v)' PROVE v = w /\ Foremost(w)
    BY <2>2, <2>6 DEF Foremost
  <2>7. NewestOnItsWay'
    <3>1. UNCHANGED <<cart, dirty, pending, tasks>>
      BY <2>1, <1>2 DEF laneVars
    <3> QED BY <3>1, <2>2, <2>3, <2>4, <2>5, <2>6, <1>2, <1>3, <1>4 DEF NewestOnItsWay
  <2> QED BY <2>1, <2>7, <1>4 DEF NewestKept
<1> QED BY <1>8, <1>9

\* The host renames a file of what it flushes.
LEMMA NewestRenamedByHost ==
  ASSUME DiskInv, DiskRight, NewestKept, RenameTemp(HostThread)
  PROVE  NewestKept'
<1>1. HostThread \in Writers /\ HostThread \notin SaveWorkers
  BY SavesAssumption DEF Writers, HostThread
<1>2. Alive /\ writer[HostThread].step = "rename" /\ writer[HostThread] # Idle /\ UNCHANGED tasks
  BY DEF RenameTemp, Idle
<1>3. host \in {"flushing pending", "flushing"}
  BY <1>2 DEF NewestKept, NewestOnItsWay, Alive, DiskInv, SavesTypeOK, Phases
<1>4. PoolIdle /\ Partly(HostThread)
  BY <1>3 DEF NewestKept
<1>5. CASE writer[HostThread].at = Len(Files)
  <2>1. /\ Finish(HostThread)
        /\ \A g \in ToSet(Files) : Disk(g)' = writer[HostThread].data[g]
    BY <1>1, <1>4, <1>5, RenamedSoFar
  <2>2. /\ writer' = [writer EXCEPT ![HostThread] = Idle] /\ host' = HostAfterWrite
        /\ pending' = (IF host = "flushing pending" THEN << >> ELSE pending)
        /\ dirty' = (dirty /\ host = "flushing pending")
        /\ UNCHANGED <<core, written, cart>>
    BY <2>1 DEF Finish
  <2>3. writer'[HostThread] = Idle /\ \A v \in SaveWorkers : writer'[v] = writer[v]
    BY <2>2, <1>1 DEF DiskInv, SavesTypeOK, Writers
  <2>4. PoolIdle'
    BY <2>3, <1>2, <1>4 DEF PoolIdle
  <2>5. writer[HostThread].data = cart => Saved'
    BY <2>1, <2>2 DEF Saved, Files
  <2>6. CASE host = "flushing pending"
    <3>1. host' = "final flush" /\ pending' = << >> /\ dirty' = dirty
      BY <2>2, <2>6 DEF HostAfterWrite, DiskInv, SavesTypeOK
    <3>2. ~dirty => writer[HostThread].data = cart
      BY <2>6 DEF NewestKept
    <3> QED BY <3>1, <3>2, <2>3, <2>4, <2>5 DEF NewestKept
  <2>7. CASE host = "flushing"
    <3>1. host' = "draining"
      BY <2>2, <2>7 DEF HostAfterWrite
    <3>2. writer[HostThread].data = cart
      BY <2>7 DEF NewestKept
    <3> QED BY <3>1, <3>2, <2>3, <2>4, <2>5 DEF NewestKept
  <2> QED BY <2>6, <2>7, <1>3
<1>6. CASE writer[HostThread].at # Len(Files)
  <2>1. /\ Partly(HostThread)' /\ UNCHANGED <<laneVars, host>>
        /\ writer' = [writer EXCEPT ![HostThread].step = "open", ![HostThread].at = @ + 1,
                                    ![HostThread].inode = NoInode]
    BY <1>1, <1>4, <1>6, RenamedSoFar
  <2>2. /\ writer'[HostThread] # Idle /\ writer'[HostThread].data = writer[HostThread].data
        /\ \A v \in SaveWorkers : writer'[v] = writer[v]
    BY <2>1, <1>1 DEF DiskInv, SavesTypeOK, Idle, Writers
  <2>3. PoolIdle'
    BY <2>2, <1>2, <1>4 DEF PoolIdle
  <2>4. UNCHANGED <<cart, dirty, pending>>
    BY <2>1 DEF laneVars
  <2> QED BY <2>1, <2>2, <2>3, <2>4, <1>3 DEF NewestKept
<1> QED BY <1>5, <1>6

\* A step of the host's exit, and a new start.
LEMMA NewestAtTheHost ==
  ASSUME DiskInv, NewestKept,
         Stop \/ Waited \/ FlushPending \/ FlushDirty \/ Drained \/ Kill
  PROVE  NewestKept'
<1>1. HostThread \in Writers /\ HostThread \notin SaveWorkers /\ SaveWorkers \subseteq Writers
  BY SavesAssumption DEF Writers, HostThread
<1>2. ASSUME UNCHANGED <<core, cart, diskVars>> PROVE Saved' <=> Saved
  BY <1>2 DEF Saved, Disk, Files, diskVars
<1>3. ASSUME UNCHANGED <<core, diskVars, writer>>, NEW w PROVE Partly(w)' <=> Partly(w)
  BY <1>3 DEF Partly, Disk, Files, diskVars
<1>4. ASSUME UNCHANGED <<tasks, writer>> PROVE PoolIdle' <=> PoolIdle
  BY <1>4 DEF PoolIdle
<1>5. CASE Stop
  <2>1. /\ host = "running" /\ host' = "waiting"
        /\ UNCHANGED <<core, cart, dirty, pending, tasks, writer, diskVars>>
    BY <1>5 DEF Stop, HostGoes, laneVars
  <2>2. NewestOnItsWay
    BY <2>1 DEF NewestKept
  <2>3. NewestOnItsWay'
    BY <2>1, <2>2, <1>2, <1>3, <1>4 DEF NewestOnItsWay, OneBegun, New, Foremost
  <2> QED BY <2>1, <2>3 DEF NewestKept
<1>6. CASE Waited
  <2>1. /\ host = "waiting" /\ host' = "pending flush" /\ PoolIdle
        /\ UNCHANGED <<core, cart, dirty, pending, tasks, writer, diskVars>>
    BY <1>6 DEF Waited, HostGoes, laneVars
  <2>2. NewestOnItsWay /\ tasks = << >>
    BY <2>1 DEF NewestKept, PoolIdle
  <2>3. writer[HostThread] = Idle
    BY <2>2 DEF NewestOnItsWay
  <2>4. ~dirty => IF pending = << >> THEN Saved ELSE pending[1] = cart
    BY <2>1, <2>2 DEF NewestOnItsWay
  <2> QED BY <2>1, <2>3, <2>4, <1>2, <1>4 DEF NewestKept
<1>7. CASE FlushPending
  <2>1. /\ host = "pending flush" /\ UNCHANGED <<core, cart, dirty, pending, tasks, diskVars>>
    BY <1>7 DEF FlushPending, HostGoes, laneVars
  <2>2. /\ PoolIdle /\ writer[HostThread] = Idle
        /\ ~dirty => IF pending = << >> THEN Saved ELSE pending[1] = cart
    BY <2>1 DEF NewestKept
  <2>3. CASE pending = << >>
    <3>1. host' = "final flush" /\ UNCHANGED writer
      BY <1>7, <2>3 DEF FlushPending, HostGoes
    <3> QED BY <3>1, <2>1, <2>2, <2>3, <1>2, <1>4 DEF NewestKept
  <2>4. CASE pending # << >>
    <3>1. /\ host' = "flushing pending"
          /\ writer' = [writer EXCEPT ![HostThread] = Snapshot(pending[1])]
      <4>1. Head(pending) = pending[1]
        <5>1. Len(pending) \in Nat /\ pending \in Seq(Snapshots)
          BY LenProperties DEF DiskInv, SavesTypeOK
        <5> QED BY <5>1, <2>4, HeadTailProperties
      <4> QED BY <4>1, <1>7, <2>4 DEF FlushPending, HostGoes
    <3>2. /\ writer'[HostThread] = Snapshot(pending[1])
          /\ \A v \in SaveWorkers : writer'[v] = writer[v]
      BY <3>1, <1>1 DEF DiskInv, SavesTypeOK
    <3>3. /\ writer'[HostThread] # Idle /\ writer'[HostThread].at = 1
          /\ writer'[HostThread].data = pending[1]
      BY <3>2 DEF Snapshot, Idle
    <3>4. Partly(HostThread)'
      BY <3>3 DEF Partly
    <3>5. PoolIdle'
      BY <3>2, <2>1, <2>2 DEF PoolIdle
    <3> QED BY <3>1, <3>3, <3>4, <3>5, <2>1, <2>2, <2>4 DEF NewestKept
  <2> QED BY <2>3, <2>4
<1>8. CASE FlushDirty
  <2>1. /\ host = "final flush" /\ UNCHANGED <<core, cart, pending, tasks, diskVars>>
    BY <1>8 DEF FlushDirty, NewestKept
  <2>2. PoolIdle /\ writer[HostThread] = Idle /\ pending = << >> /\ (~dirty => Saved)
    BY <2>1 DEF NewestKept
  <2>3. CASE dirty
    <3>1. host' = "flushing" /\ writer' = [writer EXCEPT ![HostThread] = Snapshot(cart)]
      BY <1>8, <2>1, <2>3 DEF FlushDirty
    <3>2. /\ writer'[HostThread] = Snapshot(cart)
          /\ \A v \in SaveWorkers : writer'[v] = writer[v]
      BY <3>1, <1>1 DEF DiskInv, SavesTypeOK
    <3>3. /\ writer'[HostThread] # Idle /\ writer'[HostThread].at = 1
          /\ writer'[HostThread].data = cart
      BY <3>2 DEF Snapshot, Idle
    <3>4. Partly(HostThread)'
      BY <3>3 DEF Partly
    <3>5. PoolIdle'
      BY <3>2, <2>1, <2>2 DEF PoolIdle
    <3> QED BY <3>1, <3>3, <3>4, <3>5, <2>1, <2>2 DEF NewestKept
  <2>4. CASE ~dirty
    <3>1. host' = "draining" /\ UNCHANGED writer
      BY <1>8, <2>4 DEF FlushDirty
    <3> QED BY <3>1, <2>1, <2>2, <2>4, <1>2, <1>4 DEF NewestKept
  <2> QED BY <2>3, <2>4
<1>9. CASE Drained
  <2>1. /\ host = "draining" /\ host' = "exited"
        /\ UNCHANGED <<core, cart, writer, diskVars>>
    BY <1>9 DEF Drained, HostGoes, laneVars
  <2> QED BY <2>1, <1>2 DEF NewestKept
<1>10. CASE Kill
  BY <1>10 DEF Kill, NewestKept
<1> QED BY <1>5, <1>6, <1>7, <1>8, <1>9, <1>10

\* The next run starts with what the files hold.
LEMMA NewestRestarts ==
  ASSUME DiskInv, Restart
  PROVE  NewestKept'
<1>1. /\ host' = "running" /\ pending' = << >> /\ tasks' = << >>
      /\ writer' = [w \in Writers |-> Idle] /\ UNCHANGED <<core, diskVars>>
      /\ cart' = [f \in AllFiles |-> Disk(f)]
  BY DEF Restart
<1>2. \A w \in Writers : writer'[w] = Idle /\ Partly(w)'
  BY <1>1 DEF Idle, Partly
<1>3. PoolIdle'
  BY <1>1, <1>2 DEF PoolIdle, Writers
<1>4. Saved'
  <2>1. ToSet(Files') \subseteq AllFiles
    <3>1. core \in {"gameboy", "gamegear"} /\ Files' = Files
      BY <1>1 DEF DiskInv, SavesTypeOK, Files
    <3> QED BY <3>1, FilesOfASnapshot
  <2>2. \A f \in AllFiles : cart'[f] = Disk(f)'
    BY <1>1 DEF Disk, diskVars
  <2> QED BY <2>1, <2>2 DEF Saved
<1>5. HostThread \in Writers /\ SaveWorkers \subseteq Writers
  BY DEF Writers
<1> QED BY <1>1, <1>2, <1>3, <1>4, <1>5 DEF NewestKept, NewestOnItsWay, OneBegun

LEMMA NewestStep ==
  ASSUME SavesInv, [SavesNext]_saveVars, excuse' = {}
  PROVE  NewestKept'
<1>1. DiskInv
  BY DEF SavesInv
<1>2. CASE Restart
  BY <1>1, <1>2, NewestRestarts
<1>3. CASE ~Restart
  <2>1. excuse = {} /\ NewestKept /\ DiskRight
    <3>1. excuse \subseteq excuse'
      <4>1. CASE \E w \in Writers : OpenTemp(w) \/ WriteFails(w)
        BY <4>1 DEF OpenTemp, WriteFails
      <4>2. CASE GuestWrite \/ ScheduledFlush \/ (\E w \in SaveWorkers : TakeTask(w))
        BY <4>2 DEF GuestWrite, ScheduledFlush, TakeTask
      <4>3. CASE \E w \in Writers : WriteTemp(w) \/ RenameTemp(w)
        BY <4>3 DEF WriteTemp, RenameTemp
      <4>4. CASE Stop \/ LaneFails \/ Waited \/ WaitTimesOut \/ FlushPending \/ FlushDirty
                  \/ Drained \/ Kill
        BY <4>4 DEF Stop, LaneFails, Waited, WaitTimesOut, FlushPending, FlushDirty, Drained, Kill
      <4>5. CASE UNCHANGED saveVars
        BY <4>5 DEF saveVars
      <4> QED BY <4>1, <4>2, <4>3, <4>4, <4>5, <1>3 DEF SavesNext
    <3>2. excuse = {}
      BY <3>1
    <3> QED BY <3>2 DEF SavesInv, DiskInv
  <2>2. CASE GuestWrite
    <3>1. /\ host = "running" /\ host' = "running" /\ dirty'
          /\ UNCHANGED <<core, writer, diskVars>>
      BY <2>2 DEF GuestWrite
    <3>2. NewestOnItsWay
      BY <2>1, <3>1 DEF NewestKept
    <3>3. NewestOnItsWay'
      BY <3>1, <3>2 DEF NewestOnItsWay, OneBegun, New, Partly, Disk, Files, diskVars
    <3> QED BY <3>1, <3>3 DEF NewestKept
  <2>3. CASE ScheduledFlush
    BY <1>1, <2>1, <2>3, NewestFlushes
  <2>4. ASSUME NEW w \in SaveWorkers, TakeTask(w) PROVE NewestKept'
    BY <1>1, <2>1, <2>4, NewestTaken
  <2>5. ASSUME NEW w \in Writers, OpenTemp(w) \/ WriteTemp(w) PROVE NewestKept'
    BY <1>1, <2>1, <2>5, NewestWrites
  <2>6. ASSUME NEW w \in Writers, RenameTemp(w) PROVE NewestKept'
    <3>1. CASE w \in SaveWorkers
      BY <1>1, <2>1, <2>6, <3>1, NewestRenamedByPool
    <3>2. CASE w = HostThread
      BY <1>1, <2>1, <2>6, <3>2, NewestRenamedByHost
    <3> QED BY <3>1, <3>2 DEF Writers
  <2>7. ASSUME NEW w \in Writers, WriteFails(w) PROVE FALSE
    BY <2>7 DEF WriteFails
  <2>8. CASE LaneFails \/ WaitTimesOut
    BY <2>8 DEF LaneFails, WaitTimesOut
  <2>9. CASE Stop \/ Waited \/ FlushPending \/ FlushDirty \/ Drained \/ Kill
    BY <1>1, <2>1, <2>9, NewestAtTheHost
  <2>10. CASE UNCHANGED saveVars
    <3>1. UNCHANGED <<core, cart, dirty, pending, tasks, host, writer, tmp, final, content>>
      BY <2>10 DEF saveVars, laneVars, diskVars
    <3>2. \A g \in AllFiles : Disk(g)' = Disk(g)
      BY <3>1 DEF Disk
    <3>3. /\ OneBegun => OneBegun'
          /\ \A w \in SaveWorkers : Foremost(w)' => Foremost(w)
      BY <3>1 DEF OneBegun, New, Foremost
    <3> QED BY <3>1, <3>2, <3>3, <1>1, <2>1, NewestUntouched
  <2> QED BY <2>2, <2>3, <2>4, <2>5, <2>6, <2>7, <2>8, <2>9, <2>10, <1>3 DEF SavesNext
<1> QED BY <1>2, <1>3

\* However many workers write them, save files are whole, and after an exit they hold
\* what the cartridge held, unless a call failed, two writers met, a worker took a
\* snapshot before an older one, the wait for the pool ran out or the emulation lane
\* died: a clean cartridge's newest save is refused and pending, queued last, being
\* written last or on the disk, and the exit flushes them in that order
\* (CartridgeSaveManager.hpp, GameGearSaveManager.hpp, emulator.cpp).
THEOREM SavesAreKept == SavesSpec => []SavesKept
<1>1. SavesInit => SavesInv
  BY SavesTypeInit, DiskInit, NewestInit DEF SavesInv, DiskInv
<1>2. SavesInv /\ [SavesNext]_saveVars => SavesInv'
  BY DiskStep, NewestStep DEF SavesInv
<1>3. SavesInv => SavesKept
  <2> SUFFICES ASSUME SavesInv PROVE SavesKept
    OBVIOUS
  <2>1. FileWhole
    BY DEF SavesInv, DiskInv, DiskRight, OnlyVersions, FileWhole, Torn
  <2>2. ASSUME host = "exited", excuse = {} PROVE Saved
    BY <2>2 DEF SavesInv, NewestKept
  <2> QED BY <2>1, <2>2 DEF SavesKept, SavedAtExit, Saved
<1> QED BY <1>1, <1>2, <1>3, PTL DEF SavesSpec
=============================================================================
