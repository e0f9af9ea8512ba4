--------------------------- MODULE CartridgeSaves ---------------------------
(***************************************************************************)
(* Battery saves: the emulation lane takes snapshots of dirty cartridge    *)
(* data and gives them to the background pool; a task writes each snapshot *)
(* to temporary files which it renames over the save files; the host       *)
(* flushes what is left when it exits.                                     *)
(*                                                                         *)
(* What a file or the cartridge holds is a version, the number of the      *)
(* guest write that made it.  Files are inodes: a name refers to one, and  *)
(* a writer keeps the one it opened.                                       *)
(***************************************************************************)
EXTENDS Integers, Sequences, FiniteSets, SequencesExt

CONSTANTS
    SaveWorkers,    \* the pool's worker threads
    SaveCapacity,   \* places in the pool's queue
    MaxSaveWrites,  \* bound: guest writes to battery-backed data
    MaxCrashes      \* bound: times the process is killed and started again

\* A pool has a worker and a place in its queue, and the host's thread is none
\* of its workers; the bounds are numbers.
ASSUME SavesAssumption ==
    /\ IsFiniteSet(SaveWorkers) /\ SaveWorkers # {} /\ "host" \notin SaveWorkers
    /\ SaveCapacity \in Nat \ {0}
    /\ MaxSaveWrites \in Nat
    /\ MaxCrashes \in Nat

VARIABLES
    core,       \* "gameboy" saves RAM and clock, "gamegear" RAM alone
    written,    \* guest writes so far
    cart,       \* file -> the version of its data in the cartridge
    dirty,      \* saveDirty_
    pending,    \* pendingSaveSnapshot: a snapshot the pool refused, or << >>
    tasks,      \* the snapshots queued in the pool
    writer,     \* for each thread, the snapshot it is writing and how far it is
    tmp,        \* file -> inode of its temporary name
    final,      \* file -> inode of its own name
    content,    \* inode -> version, or Torn
    host,       \* how far the host is
    crashes,    \* times killed and restarted so far
    excuse      \* what has happened that may cost data (see the properties)

laneVars == <<core, written, cart, dirty, pending>>
diskVars == <<tmp, final, content>>
saveVars == <<laneVars, tasks, writer, diskVars, host, crashes, excuse>>

NoInode == 0                \* the file does not exist
Torn == -1                  \* an empty or partly written file
HostThread == "host"
Writers == SaveWorkers \cup {HostThread}
AllFiles == {"sav", "rtc"}
Inodes == 1 .. 2 * Cardinality(AllFiles) + Cardinality(Writers)

\* The files of a snapshot in the order flushSnapshot writes them.
Files == IF core = "gameboy" THEN <<"sav", "rtc">> ELSE <<"sav">>

\* What load finds: a cartridge without a save file keeps its initial data.
Disk(f) == IF final[f] = NoInode THEN 0 ELSE content[final[f]]

Nothing == [f \in AllFiles |-> 0]
Idle == [step |-> "idle", data |-> Nothing, at |-> 0, inode |-> NoInode]
Snapshot(data) == [step |-> "open", data |-> data, at |-> 1, inode |-> NoInode]
FileOf(w) == Files[writer[w].at]
PoolIdle == tasks = << >> /\ \A w \in SaveWorkers : writer[w] = Idle

SavesInit ==
    /\ core \in {"gameboy", "gamegear"}
    /\ written = 0 /\ cart = Nothing /\ dirty = FALSE
    /\ pending = << >> /\ tasks = << >>
    /\ writer = [w \in Writers |-> Idle]
    /\ tmp = [f \in AllFiles |-> NoInode] /\ final = [f \in AllFiles |-> NoInode]
    /\ content = [i \in Inodes |-> Torn]
    /\ host = "running" /\ crashes = 0 /\ excuse = {}

-----------------------------------------------------------------------------
(* The emulation lane.                                                     *)

\* The guest changes battery-backed data, which marks the cartridge dirty.
GuestWrite ==
    /\ host = "running" /\ written < MaxSaveWrites
    /\ written' = written + 1 /\ dirty' = TRUE
    /\ \E f \in ToSet(Files) : cart' = [cart EXCEPT ![f] = written + 1]
    /\ UNCHANGED <<core, pending, tasks, writer, diskVars, host, crashes, excuse>>

\* submit accepts a snapshot, or hands it back.  The queue is shared with
\* other jobs, so it may be full however few saves are in it.
Submit(queue, data) ==
    {[tasks |-> queue, pending |-> <<data>>]} \cup
    {q \in {[tasks |-> Append(queue, data), pending |-> << >>]} : Len(queue) < SaveCapacity}

\* The flush at VBlank and every 4096 steps: a refused snapshot goes first,
\* and a new one is taken only when none is left waiting.  The cartridge is
\* clean as soon as the snapshot is taken.
ScheduledFlush ==
    /\ host = "running"
    /\ \E first \in IF pending = << >> THEN {[tasks |-> tasks, pending |-> << >>]}
                                      ELSE Submit(tasks, Head(pending)) :
        IF first.pending = << >> /\ dirty
        THEN /\ \E q \in Submit(first.tasks, cart) : tasks' = q.tasks /\ pending' = q.pending
             /\ dirty' = FALSE
        ELSE tasks' = first.tasks /\ pending' = first.pending /\ UNCHANGED dirty
    /\ UNCHANGED <<core, written, cart, writer, diskVars, host, crashes, excuse>>

-----------------------------------------------------------------------------
(* A thread writing a snapshot: writeFileAtomic for each of its files.     *)

Alive == host \notin {"exited", "killed"}

\* A worker takes a task.  One worker takes them in order; several take the
\* front of their own queue or the back of another's, so in any order.
TakeTask(w) ==
    /\ Alive /\ writer[w] = Idle
    /\ \E i \in IF Cardinality(SaveWorkers) = 1 THEN {1} ELSE 1 .. Len(tasks) :
        /\ i <= Len(tasks)
        /\ writer' = [writer EXCEPT ![w] = Snapshot(tasks[i])]
        /\ tasks' = RemoveAt(tasks, i)
        /\ excuse' = IF i = 1 THEN excuse ELSE excuse \cup {"overtaken"}
    /\ UNCHANGED <<laneVars, diskVars, host, crashes>>

\* Where the host goes when the snapshot it writes is done: on to the final
\* flush after the refused snapshot, and from the final one, or the machine's
\* destructor, to the end of the pool.
HostAfterWrite == IF host = "flushing pending" THEN "final flush" ELSE "draining"

\* An exception out of a flush ends main by its handler, which destroys the
\* machine; one out of the machine's destructor ends the process.
HostAfterThrow == IF host = "destroying" THEN "killed" ELSE "unwinding"

\* The writer is done with its snapshot.  The Game Gear marks the cartridge
\* clean only here, the Game Boy did so when the snapshot was taken.
Finish(w) ==
    /\ writer' = [writer EXCEPT ![w] = Idle]
    /\ IF w = HostThread
       THEN /\ host' = HostAfterWrite
            /\ pending' = IF host = "flushing pending" THEN << >> ELSE pending
            /\ dirty' = (dirty /\ host = "flushing pending")
            /\ UNCHANGED <<core, written, cart>>
       ELSE UNCHANGED <<laneVars, host>>

\* The write throws: the pool swallows a task's exception.
Abandon(w) ==
    /\ writer' = [writer EXCEPT ![w] = Idle]
    /\ host' = IF w = HostThread THEN HostAfterThrow ELSE host
    /\ UNCHANGED laneVars

\* Mutant: the file is written in place.
OpenTemp_InPlace(w) ==
    LET f == FileOf(w)
        i == IF final[f] # NoInode THEN final[f]
             ELSE CHOOSE n \in Inodes :
                      n \notin {tmp[g] : g \in AllFiles} \cup {final[g] : g \in AllFiles}
                               \cup {writer[v].inode : v \in Writers} IN
    /\ Alive /\ writer[w].step = "open"
    /\ final' = [final EXCEPT ![f] = i] /\ tmp' = [tmp EXCEPT ![f] = i]
    /\ content' = [content EXCEPT ![i] = Torn]
    /\ writer' = [writer EXCEPT ![w].step = "write", ![w].inode = i]
    /\ UNCHANGED <<laneVars, tasks, host, crashes, excuse>>

\* The temporary file is opened and truncated: the one that is there, be it
\* another writer's or left by a crash, or a new one.
OpenTemp(w) ==
    LET f == FileOf(w)
        used == {tmp[g] : g \in AllFiles} \cup {final[g] : g \in AllFiles}
                    \cup {writer[v].inode : v \in Writers}
        i == IF tmp[f] # NoInode THEN tmp[f] ELSE CHOOSE n \in Inodes : n \notin used IN
    /\ Alive /\ writer[w].step = "open"
    /\ tmp' = [tmp EXCEPT ![f] = i]
    /\ content' = [content EXCEPT ![i] = Torn]
    /\ writer' = [writer EXCEPT ![w].step = "write", ![w].inode = i]
    /\ excuse' = excuse \cup {"overlap" : v \in {u \in Writers \ {w} : writer[u] # Idle}}
    /\ UNCHANGED <<laneVars, tasks, final, host, crashes>>

\* The bytes go to the file the writer opened, whatever its name is by now.
WriteTemp(w) ==
    /\ Alive /\ writer[w].step = "write"
    /\ content' = [content EXCEPT ![writer[w].inode] = writer[w].data[FileOf(w)]]
    /\ writer' = [writer EXCEPT ![w].step = "rename"]
    /\ UNCHANGED <<laneVars, tasks, tmp, final, host, crashes, excuse>>

\* The temporary name replaces the final one, unless another writer has
\* renamed it already, which throws; then the next file, or done.
RenameTemp(w) ==
    LET f == FileOf(w) IN
    /\ Alive /\ writer[w].step = "rename"
    /\ IF tmp[f] = NoInode
       THEN Abandon(w) /\ UNCHANGED <<tmp, final>>
       ELSE /\ final' = [final EXCEPT ![f] = tmp[f]]
            /\ tmp' = [tmp EXCEPT ![f] = NoInode]
            /\ IF writer[w].at = Len(Files)
               THEN Finish(w)
               ELSE /\ writer' = [writer EXCEPT ![w].step = "open", ![w].at = @ + 1,
                                                ![w].inode = NoInode]
                    /\ UNCHANGED <<laneVars, host>>
    /\ UNCHANGED <<tasks, content, crashes, excuse>>

\* An I/O error: opening or writing leaves what there is of the temporary
\* file, a failed rename removes it.
WriteFails(w) ==
    /\ Alive /\ writer[w] # Idle
    /\ tmp' = IF writer[w].step = "rename" THEN [tmp EXCEPT ![FileOf(w)] = NoInode] ELSE tmp
    /\ Abandon(w)
    /\ excuse' = excuse \cup {"write failed"}
    /\ UNCHANGED <<tasks, final, content, crashes>>

-----------------------------------------------------------------------------
(* The host's exit: wait for the pool, flush the refused snapshot and then *)
(* what is dirty, and drain the pool.                                      *)

HostGoes(from, to) ==
    /\ host = from /\ host' = to
    /\ UNCHANGED <<laneVars, tasks, diskVars, crashes>>

\* The emulation lane has been joined.
Stop == HostGoes("running", "waiting") /\ UNCHANGED <<writer, excuse>>

\* The lane ended by an exception, rethrown on the host: no flush, only the
\* destructors.
LaneFails ==
    /\ HostGoes("running", "unwinding")
    /\ excuse' = excuse \cup {"lane failed"} /\ UNCHANGED writer

\* waitUntilIdle, ten seconds at most.
Waited == PoolIdle /\ HostGoes("waiting", "pending flush") /\ UNCHANGED <<writer, excuse>>
WaitTimesOut ==
    /\ ~PoolIdle /\ HostGoes("waiting", "pending flush")
    /\ excuse' = excuse \cup {"timeout"} /\ UNCHANGED writer

\* Mutant: what is dirty is flushed, the refused snapshot is left.
FlushPending_Skipped ==
    HostGoes("pending flush", "final flush") /\ UNCHANGED <<writer, excuse>>

\* flushPendingBackgroundWork, its first half: the refused snapshot.
FlushPending ==
    /\ IF pending = << >>
       THEN HostGoes("pending flush", "final flush") /\ UNCHANGED writer
       ELSE /\ HostGoes("pending flush", "flushing pending")
            /\ writer' = [writer EXCEPT ![HostThread] = Snapshot(Head(pending))]
    /\ UNCHANGED excuse

\* flushCartridgeSave, called last by flushPendingBackgroundWork and again by
\* the machine's destructor when an exception unwinds main.
FlushDirty ==
    /\ host \in {"final flush", "unwinding"}
    /\ IF dirty
       THEN /\ host' = IF host = "unwinding" THEN "destroying" ELSE "flushing"
            /\ writer' = [writer EXCEPT ![HostThread] = Snapshot(cart)]
            /\ dirty' = (core = "gamegear")
       ELSE host' = "draining" /\ UNCHANGED <<writer, dirty>>
    /\ UNCHANGED <<core, written, cart, pending, tasks, diskVars, crashes, excuse>>

\* shutdown, or the service's destructor, returns when the queue is drained.
Drained == PoolIdle /\ HostGoes("draining", "exited") /\ UNCHANGED <<writer, excuse>>

\* The process is killed: what the threads held is gone, the files stay.
Kill ==
    /\ Alive /\ crashes < MaxCrashes
    /\ host' = "killed"
    /\ UNCHANGED <<laneVars, tasks, writer, diskVars, crashes, excuse>>

\* The next run of the program: loadRom binds the path and loads the files.
Restart ==
    /\ host = "killed" /\ crashes < MaxCrashes
    /\ crashes' = crashes + 1 /\ host' = "running"
    /\ cart' = [f \in AllFiles |-> Disk(f)] /\ dirty' = FALSE
    /\ pending' = << >> /\ tasks' = << >> /\ writer' = [w \in Writers |-> Idle]
    /\ excuse' = excuse \cap {"overlap"}
    /\ UNCHANGED <<core, written, diskVars>>

SavesNext ==
    \/ GuestWrite \/ ScheduledFlush
    \/ \E w \in SaveWorkers : TakeTask(w)
    \/ \E w \in Writers : OpenTemp(w) \/ WriteTemp(w) \/ RenameTemp(w) \/ WriteFails(w)
    \/ Stop \/ LaneFails \/ Waited \/ WaitTimesOut
    \/ FlushPending \/ FlushDirty \/ Drained
    \/ Kill \/ Restart

SavesSpec == SavesInit /\ [][SavesNext]_saveVars

-----------------------------------------------------------------------------
\* A save file is never seen empty or half written, not by the run that
\* writes it, nor after a crash at any point of writeFileAtomic, nor after a
\* write that failed: only two writers at a time can do that.
FileWhole == "overlap" \in excuse \/ \A f \in AllFiles : Disk(f) # Torn

\* When the host has exited, the files hold what the cartridge held, however
\* many workers write, however often the pool refused a snapshot and whatever
\* was dirty at the end, unless a write failed, two writers met, a worker took
\* a snapshot before an older one, the wait for the pool ran out, or the
\* emulation lane died.
SavedAtExit ==
    host = "exited" /\ excuse = {} => \A f \in ToSet(Files) : Disk(f) = cart[f]

\* A save file is whole whatever fails and whenever the process dies, and after
\* an exit it holds the newest save, unless a call failed, two writers met, a
\* snapshot overtook an older one or the wait for the pool ran out
\* (CartridgeSaveManager.hpp, GameGearSaveManager.hpp).
SavesKept == FileWhole /\ SavedAtExit

\* "durability is enforced explicitly at shutdown": after an exit in which
\* the disk worked and the pool became idle in time, nothing is lost.
DurableAtShutdown ==
    host = "exited" /\ excuse \subseteq {"overlap", "overtaken"} =>
        \A f \in ToSet(Files) : Disk(f) = cart[f]
=============================================================================
