----------------------------- MODULE StateStore -----------------------------
(***************************************************************************)
(* fileStore (state.go), system call by system call: newFileStore takes    *)
(* the advisory lock, Load reads state.json, Save writes a temporary file, *)
(* syncs it, renames it over state.json and syncs the directory, Close     *)
(* gives the lock back.  Several plugin processes share the directory; any *)
(* call may fail, a process may die between any two calls, and so may the  *)
(* machine.                                                                *)
(*                                                                         *)
(* Save runs under p.mu, so a process has one save at a time, and its      *)
(* state does not change meanwhile.  A state is represented by the set of  *)
(* changes that went into it: a handler adds a change and saves.           *)
(***************************************************************************)
EXTENDS FiniteSets

CONSTANTS
    Procs,    \* plugin processes that use the directory
    Changes,  \* what handlers record; bounds how much is saved
    NoOwner,  \* nobody holds the lock
    NoFile    \* there is no temporary file

\* A file: the state written to it, whether all of it is, and whether it
\* was synced.  A file that was not may be torn when power is lost.
Inode == [data : SUBSET Changes, whole : BOOLEAN, synced : BOOLEAN]

ASSUME NamesAssumption == NoOwner \notin Procs /\ NoFile \notin Inode

\* A missing state.json reads like a complete empty state (emptyState).
Missing == [data |-> {}, whole |-> TRUE, synced |-> TRUE]

\* The calls of Save, in their order; "remove" is the deferred os.Remove of
\* a save that failed before the rename.
Before == {"create", "chmod", "write", "sync", "close", "rename"}
After == {"opendir", "syncdir"}
Steps == Before \cup After \cup {"remove"}
InUse == Steps \cup {"open"}

VARIABLES
    lock,     \* the process whose open file description holds the flock
    pc,       \* where each process is: "closed", "locked", "open", a step
    mem,      \* p.state of each process
    temp,     \* the temporary file of each process's save, or NoFile
    entry,    \* the file that the name state.json leads to
    entries,  \* the files it may lead to after a loss of power
    acked     \* history: what saves that returned nil have written

vars == <<lock, pc, mem, temp, entry, entries, acked>>

Init ==
    /\ lock = NoOwner /\ pc = [p \in Procs |-> "closed"]
    /\ mem = [p \in Procs |-> {}] /\ temp = [p \in Procs |-> NoFile]
    /\ entry = Missing /\ entries = {Missing} /\ acked = {}

Goto(p, at) == pc' = [pc EXCEPT ![p] = at]

-----------------------------------------------------------------------------
(***************************************************************************)
(* newFileStore and Load.  A refused open changes nothing.                 *)
(***************************************************************************)

\* Mutant: the lock file is opened and not locked.
OpenUnlocked(p) ==
    /\ pc[p] = "closed"
    /\ lock' = p /\ Goto(p, "locked")
    /\ UNCHANGED <<mem, temp, entry, entries, acked>>

\* flock with LOCK_NB: granted when nobody has it.
Open(p) ==
    /\ pc[p] = "closed" /\ lock = NoOwner
    /\ lock' = p /\ Goto(p, "locked")
    /\ UNCHANGED <<mem, temp, entry, entries, acked>>

Load(p) ==
    /\ pc[p] = "locked" /\ entry.whole
    /\ mem' = [mem EXCEPT ![p] = entry.data] /\ Goto(p, "open")
    /\ UNCHANGED <<lock, temp, entry, entries, acked>>

\* Mutant: the store is not closed when the state cannot be read.
LoadFailsKeeps(p) ==
    /\ pc[p] = "locked"
    /\ Goto(p, "closed")
    /\ UNCHANGED <<lock, mem, temp, entry, entries, acked>>

\* The file cannot be read or decoded: configure closes the store.
LoadFails(p) ==
    /\ pc[p] = "locked"
    /\ lock' = NoOwner /\ Goto(p, "closed")
    /\ UNCHANGED <<mem, temp, entry, entries, acked>>

\* fileStore.Close, the last step of pool.Close.
Close(p) ==
    /\ pc[p] = "open"
    /\ lock' = NoOwner /\ Goto(p, "closed")
    /\ mem' = [mem EXCEPT ![p] = {}]
    /\ UNCHANGED <<temp, entry, entries, acked>>

-----------------------------------------------------------------------------
(***************************************************************************)
(* Save.                                                                   *)
(***************************************************************************)

\* A handler has changed the state, or not (Close), and calls Save.
BeginSave(p, cs) ==
    /\ pc[p] = "open"
    /\ mem' = [mem EXCEPT ![p] = @ \cup cs] /\ Goto(p, "create")
    /\ UNCHANGED <<lock, temp, entry, entries, acked>>

CreateTemp(p) ==
    /\ pc[p] = "create"
    /\ temp' = [temp EXCEPT ![p] = [data |-> {}, whole |-> FALSE,
                                    synced |-> FALSE]]
    /\ Goto(p, "chmod")
    /\ UNCHANGED <<lock, mem, entry, entries, acked>>

\* Mutant: the temporary file is removed before it is renamed.
ProceedRemoves(p) ==
    /\ \/ pc[p] = "chmod" /\ Goto(p, "write") /\ UNCHANGED temp
       \/ pc[p] = "close" /\ Goto(p, "rename")
          /\ temp' = [temp EXCEPT ![p] = NoFile]
       \/ pc[p] = "opendir" /\ Goto(p, "syncdir") /\ UNCHANGED temp
    /\ UNCHANGED <<lock, mem, entry, entries, acked>>

\* Chmod, Close and the Open of the directory, when they succeed.
Proceed(p) ==
    /\ \/ pc[p] = "chmod" /\ Goto(p, "write")
       \/ pc[p] = "close" /\ Goto(p, "rename")
       \/ pc[p] = "opendir" /\ Goto(p, "syncdir")
    /\ UNCHANGED <<lock, mem, temp, entry, entries, acked>>

\* A write that fails may have written a part, which the file may hold then.
Write(p) ==
    /\ pc[p] = "write"
    /\ temp' = [temp EXCEPT ![p] = [data |-> mem[p], whole |-> TRUE,
                                    synced |-> FALSE]]
    /\ Goto(p, "sync")
    /\ UNCHANGED <<lock, mem, entry, entries, acked>>

\* Mutant: the temporary file is not synced.
SyncSkipped(p) ==
    /\ pc[p] = "sync"
    /\ Goto(p, "close")
    /\ UNCHANGED <<lock, mem, temp, entry, entries, acked>>

Sync(p) ==
    /\ pc[p] = "sync"
    /\ temp' = [temp EXCEPT ![p].synced = TRUE]
    /\ Goto(p, "close")
    /\ UNCHANGED <<lock, mem, entry, entries, acked>>

Rename(p) ==
    /\ pc[p] = "rename"
    /\ entry' = temp[p] /\ entries' = entries \cup {temp[p]}
    /\ temp' = [temp EXCEPT ![p] = NoFile]
    /\ Goto(p, "opendir")
    /\ UNCHANGED <<lock, mem, acked>>

\* Mutant: Save returns nil without syncing the directory.
SyncDirSkipped(p) ==
    /\ pc[p] = "syncdir"
    /\ acked' = mem[p]
    /\ Goto(p, "open")
    /\ UNCHANGED <<lock, mem, temp, entry, entries>>

\* Save returns nil.
SyncDir(p) ==
    /\ pc[p] = "syncdir"
    /\ entries' = {entry} /\ acked' = mem[p]
    /\ Goto(p, "open")
    /\ UNCHANGED <<lock, mem, temp, entry>>

\* Mutant: a failed save does not remove its temporary file.
FailLeavesTemp(p) ==
    /\ pc[p] \in Before \cup After
    /\ Goto(p, "open")
    /\ UNCHANGED <<lock, mem, temp, entry, entries, acked>>

\* The call that is next fails and Save returns an error; the deferred
\* os.Remove has something to remove once there is a temporary file.
Fail(p) ==
    /\ pc[p] \in Before \cup After
    /\ Goto(p, IF temp[p] = NoFile THEN "open" ELSE "remove")
    /\ UNCHANGED <<lock, mem, temp, entry, entries, acked>>

\* A removal that itself fails leaves a file no later call looks at, like a
\* crash does: such orphans are not tracked.
RemoveTemp(p) ==
    /\ pc[p] = "remove"
    /\ temp' = [temp EXCEPT ![p] = NoFile] /\ Goto(p, "open")
    /\ UNCHANGED <<lock, mem, entry, entries, acked>>

-----------------------------------------------------------------------------
(***************************************************************************)
(* Deaths.                                                                 *)
(***************************************************************************)

\* The process dies: the kernel drops its lock, the files stay as they are.
Crash(p) ==
    /\ pc[p] # "closed"
    /\ lock' = NoOwner /\ Goto(p, "closed")
    /\ mem' = [mem EXCEPT ![p] = {}]
    /\ temp' = [temp EXCEPT ![p] = NoFile]
    /\ UNCHANGED <<entry, entries, acked>>

Torn(f) == IF f.synced THEN f ELSE [f EXCEPT !.whole = FALSE]

\* The machine dies: renames that were not synced may be undone, files that
\* were not synced may be torn.
PowerLoss ==
    /\ lock' = NoOwner /\ pc' = [p \in Procs |-> "closed"]
    /\ mem' = [p \in Procs |-> {}] /\ temp' = [p \in Procs |-> NoFile]
    /\ \E f \in entries : entry' = Torn(f) /\ entries' = {Torn(f)}
    /\ UNCHANGED acked

-----------------------------------------------------------------------------
SaveStep(p) ==
    \/ CreateTemp(p) \/ Proceed(p) \/ Write(p) \/ Sync(p)
    \/ Rename(p) \/ SyncDir(p) \/ Fail(p) \/ RemoveTemp(p)

Next ==
    \/ \E p \in Procs :
          \/ Open(p) \/ Load(p) \/ LoadFails(p) \/ Close(p)
          \/ \E cs \in SUBSET Changes : BeginSave(p, cs)
          \/ SaveStep(p)
          \/ Crash(p)
    \/ PowerLoss

Spec == Init /\ [][Next]_vars

-----------------------------------------------------------------------------
(***************************************************************************)
(* Properties.                                                             *)
(***************************************************************************)

\* The lock, the steps of Save and the files of newFileStore and Save have
\* their types; in particular state.json is a file whenever Rename, whose
\* source is the temporary file, has run.
StoreTypeOK ==
    /\ lock \in Procs \cup {NoOwner}
    /\ pc \in [Procs -> InUse \cup {"closed", "locked"}]
    /\ mem \in [Procs -> SUBSET Changes]
    /\ temp \in [Procs -> Inode \cup {NoFile}]
    /\ entry \in Inode /\ entries \subseteq Inode
    /\ acked \subseteq Changes

\* Whenever the machine dies, the file that is found afterwards is complete
\* and has everything that a Save which returned nil has written: the order of
\* file sync, rename and directory sync in Save.
SurvivesPowerLoss ==
    \A f \in entries : Torn(f).whole /\ acked \subseteq f.data

\* Whoever is not using the store does not keep others out: the lock is given
\* back by Close, by configure when Load failed, and by a crash.
LockNotLeaked == lock # NoOwner => pc[lock] # "closed"

\* A save that has returned has left no temporary file behind, whichever call
\* failed (the deferred os.Remove): only a crash leaves one.
NoTempAtRest ==
    \A p \in Procs : pc[p] \in {"open", "locked", "closed"} => temp[p] = NoFile

\* The store that the pool relies on: a process that is still loading does
\* not own it yet.
Owner == IF lock # NoOwner /\ pc[lock] = "locked" THEN NoOwner ELSE lock

Atomic == INSTANCE AtomicStore WITH owner <- Owner, file <- entry.data

\* The steps of newFileStore, Load, Save and Close implement the atomic store:
\* two processes never write over each other's saves, a reader finds the
\* state before a save or after it, and what was acknowledged is never lost.
ImplementsAtomicStore == Atomic!Spec

-----------------------------------------------------------------------------
(***************************************************************************)
(* The inductive invariant of StateStoreProofs.                            *)
(***************************************************************************)
Held == \A p \in Procs : pc[p] # "closed" => lock = p

\* What the temporary file is at each step of Save.
TempAt(p) ==
    /\ pc[p] \in {"closed", "locked", "open", "create"} \cup After
          => temp[p] = NoFile
    /\ pc[p] \in {"chmod", "write", "sync", "close", "rename"}
          => temp[p] # NoFile
    /\ pc[p] \in {"sync", "close", "rename"}
          => temp[p].data = mem[p] /\ temp[p].whole
    /\ pc[p] \in {"close", "rename"} => temp[p].synced

\* Each file that may be found is complete, synced, between what was
\* acknowledged and what was published.
EntriesKept ==
    /\ entry \in entries
    /\ \A f \in entries : /\ f.whole /\ f.synced
                          /\ acked \subseteq f.data
                          /\ f.data \subseteq entry.data

\* How each process's state compares with the published one.
MemAt(p) ==
    /\ pc[p] \in {"closed", "locked"} => mem[p] = {}
    /\ pc[p] \in InUse => entry.data \subseteq mem[p]
    /\ pc[p] \in After => entry.data = mem[p]

StoreInv ==
    /\ StoreTypeOK /\ LockNotLeaked /\ Held
    /\ \A p \in Procs : TempAt(p)
    /\ EntriesKept
    /\ \A p \in Procs : MemAt(p)
=============================================================================
