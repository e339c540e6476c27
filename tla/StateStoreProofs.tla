-------------------------- MODULE StateStoreProofs --------------------------
(***************************************************************************)
(* Proofs about StateStore, for any number of processes and changes: the   *)
(* invariant StoreInv is inductive, and by it every step of the file store *)
(* is a step of AtomicStore or leaves it alone.                            *)
(***************************************************************************)
EXTENDS StateStore, TLAPS

\* The sets of Save's steps, as the provers need them.
USE DEF Before, After, Steps, InUse, Inode, Goto

\* The first state satisfies the invariant.
LEMMA InitInv == Init => StoreInv
BY NamesAssumption
   DEF Init, StoreInv, StoreTypeOK, LockNotLeaked, Held, TempAt, EntriesKept,
       MemAt, Missing

\* A lock that is granted was nobody's.
LEMMA OpenInv ==
    ASSUME StoreInv, NEW p \in Procs, Open(p)
    PROVE  StoreInv'
<1>1. StoreTypeOK'
  BY DEF StoreInv, StoreTypeOK, TempAt, Open
<1>2. LockNotLeaked' /\ Held'
  BY NamesAssumption DEF StoreInv, StoreTypeOK, LockNotLeaked, Held, Open
<1>3. \A q \in Procs : TempAt(q)'
  BY NamesAssumption DEF StoreInv, StoreTypeOK, TempAt, MemAt, Held, Open
<1>4. EntriesKept'
  BY DEF StoreInv, StoreTypeOK, EntriesKept, TempAt, MemAt, Open
<1>5. \A q \in Procs : MemAt(q)'
  BY NamesAssumption
     DEF StoreInv, StoreTypeOK, EntriesKept, TempAt, MemAt, Held, Open
<1>6. QED
  BY <1>1, <1>2, <1>3, <1>4, <1>5 DEF StoreInv

\* A process that loads has what is published.
LEMMA LoadInv ==
    ASSUME StoreInv, NEW p \in Procs, Load(p)
    PROVE  StoreInv'
<1>1. StoreTypeOK'
  BY DEF StoreInv, StoreTypeOK, TempAt, Load
<1>2. LockNotLeaked' /\ Held'
  BY NamesAssumption DEF StoreInv, StoreTypeOK, LockNotLeaked, Held, Load
<1>3. \A q \in Procs : TempAt(q)'
  BY NamesAssumption DEF StoreInv, StoreTypeOK, TempAt, MemAt, Held, Load
<1>4. EntriesKept'
  BY DEF StoreInv, StoreTypeOK, EntriesKept, TempAt, MemAt, Load
<1>5. \A q \in Procs : MemAt(q)'
  BY NamesAssumption
     DEF StoreInv, StoreTypeOK, EntriesKept, TempAt, MemAt, Held, Load
<1>6. QED
  BY <1>1, <1>2, <1>3, <1>4, <1>5 DEF StoreInv

\* A failed load gives the lock back.
LEMMA LoadFailsInv ==
    ASSUME StoreInv, NEW p \in Procs, LoadFails(p)
    PROVE  StoreInv'
<1>1. StoreTypeOK'
  BY DEF StoreInv, StoreTypeOK, TempAt, LoadFails
<1>2. LockNotLeaked' /\ Held'
  BY NamesAssumption DEF StoreInv, StoreTypeOK, LockNotLeaked, Held, LoadFails
<1>3. \A q \in Procs : TempAt(q)'
  BY NamesAssumption DEF StoreInv, StoreTypeOK, TempAt, MemAt, Held, LoadFails
<1>4. EntriesKept'
  BY DEF StoreInv, StoreTypeOK, EntriesKept, TempAt, MemAt, LoadFails
<1>5. \A q \in Procs : MemAt(q)'
  BY NamesAssumption
     DEF StoreInv, StoreTypeOK, EntriesKept, TempAt, MemAt, Held, LoadFails
<1>6. QED
  BY <1>1, <1>2, <1>3, <1>4, <1>5 DEF StoreInv

\* A closed store is nobody's.
LEMMA CloseInv ==
    ASSUME StoreInv, NEW p \in Procs, Close(p)
    PROVE  StoreInv'
<1>1. StoreTypeOK'
  BY DEF StoreInv, StoreTypeOK, TempAt, Close
<1>2. LockNotLeaked' /\ Held'
  BY NamesAssumption DEF StoreInv, StoreTypeOK, LockNotLeaked, Held, Close
<1>3. \A q \in Procs : TempAt(q)'
  BY NamesAssumption DEF StoreInv, StoreTypeOK, TempAt, MemAt, Held, Close
<1>4. EntriesKept'
  BY DEF StoreInv, StoreTypeOK, EntriesKept, TempAt, MemAt, Close
<1>5. \A q \in Procs : MemAt(q)'
  BY NamesAssumption
     DEF StoreInv, StoreTypeOK, EntriesKept, TempAt, MemAt, Held, Close
<1>6. QED
  BY <1>1, <1>2, <1>3, <1>4, <1>5 DEF StoreInv

\* A new temporary file is the saver's own.
LEMMA CreateTempInv ==
    ASSUME StoreInv, NEW p \in Procs, CreateTemp(p)
    PROVE  StoreInv'
<1>1. StoreTypeOK'
  BY DEF StoreInv, StoreTypeOK, TempAt, CreateTemp
<1>2. LockNotLeaked' /\ Held'
  BY NamesAssumption DEF StoreInv, StoreTypeOK, LockNotLeaked, Held, CreateTemp
<1>3. \A q \in Procs : TempAt(q)'
  <2>1. temp'[p] \in Inode
    BY NamesAssumption DEF StoreInv, StoreTypeOK, TempAt, CreateTemp
  <2>2. temp'[p] # NoFile
    BY <2>1, NamesAssumption
  <2>3. TempAt(p)'
    BY <2>2 DEF StoreInv, StoreTypeOK, TempAt, CreateTemp
  <2>4. \A q \in Procs \ {p} : TempAt(q)'
    BY DEF StoreInv, StoreTypeOK, TempAt, CreateTemp
  <2>5. QED
    BY <2>3, <2>4
<1>4. EntriesKept'
  BY DEF StoreInv, StoreTypeOK, EntriesKept, TempAt, MemAt, CreateTemp
<1>5. \A q \in Procs : MemAt(q)'
  BY NamesAssumption
     DEF StoreInv, StoreTypeOK, EntriesKept, TempAt, MemAt, Held, CreateTemp
<1>6. QED
  BY <1>1, <1>2, <1>3, <1>4, <1>5 DEF StoreInv

\* Chmod, Close and Open of the directory move on.
LEMMA ProceedInv ==
    ASSUME StoreInv, NEW p \in Procs, Proceed(p)
    PROVE  StoreInv'
<1>1. StoreTypeOK'
  BY DEF StoreInv, StoreTypeOK, TempAt, Proceed
<1>2. LockNotLeaked' /\ Held'
  BY NamesAssumption DEF StoreInv, StoreTypeOK, LockNotLeaked, Held, Proceed
<1>3. \A q \in Procs : TempAt(q)'
  BY NamesAssumption DEF StoreInv, StoreTypeOK, TempAt, MemAt, Held, Proceed
<1>4. EntriesKept'
  BY DEF StoreInv, StoreTypeOK, EntriesKept, TempAt, MemAt, Proceed
<1>5. \A q \in Procs : MemAt(q)'
  BY NamesAssumption
     DEF StoreInv, StoreTypeOK, EntriesKept, TempAt, MemAt, Held, Proceed
<1>6. QED
  BY <1>1, <1>2, <1>3, <1>4, <1>5 DEF StoreInv

\* The temporary file holds what is to be saved.
LEMMA WriteInv ==
    ASSUME StoreInv, NEW p \in Procs, Write(p)
    PROVE  StoreInv'
<1>1. StoreTypeOK'
  BY DEF StoreInv, StoreTypeOK, TempAt, Write
<1>2. LockNotLeaked' /\ Held'
  BY NamesAssumption DEF StoreInv, StoreTypeOK, LockNotLeaked, Held, Write
<1>3. \A q \in Procs : TempAt(q)'
  <2>1. temp'[p] \in Inode
    BY NamesAssumption DEF StoreInv, StoreTypeOK, TempAt, Write
  <2>2. temp'[p] # NoFile
    BY <2>1, NamesAssumption
  <2>3. TempAt(p)'
    BY <2>2 DEF StoreInv, StoreTypeOK, TempAt, Write
  <2>4. \A q \in Procs \ {p} : TempAt(q)'
    BY DEF StoreInv, StoreTypeOK, TempAt, Write
  <2>5. QED
    BY <2>3, <2>4
<1>4. EntriesKept'
  BY DEF StoreInv, StoreTypeOK, EntriesKept, TempAt, MemAt, Write
<1>5. \A q \in Procs : MemAt(q)'
  BY NamesAssumption
     DEF StoreInv, StoreTypeOK, EntriesKept, TempAt, MemAt, Held, Write
<1>6. QED
  BY <1>1, <1>2, <1>3, <1>4, <1>5 DEF StoreInv

\* A synced file stays what was written.
LEMMA SyncInv ==
    ASSUME StoreInv, NEW p \in Procs, Sync(p)
    PROVE  StoreInv'
<1>1. StoreTypeOK'
  BY DEF StoreInv, StoreTypeOK, TempAt, Sync
<1>2. LockNotLeaked' /\ Held'
  BY NamesAssumption DEF StoreInv, StoreTypeOK, LockNotLeaked, Held, Sync
<1>3. \A q \in Procs : TempAt(q)'
  <2>1. temp'[p] \in Inode
    BY NamesAssumption DEF StoreInv, StoreTypeOK, TempAt, Sync
  <2>2. temp'[p] # NoFile
    BY <2>1, NamesAssumption
  <2>3. TempAt(p)'
    BY <2>2 DEF StoreInv, StoreTypeOK, TempAt, Sync
  <2>4. \A q \in Procs \ {p} : TempAt(q)'
    BY DEF StoreInv, StoreTypeOK, TempAt, Sync
  <2>5. QED
    BY <2>3, <2>4
<1>4. EntriesKept'
  BY DEF StoreInv, StoreTypeOK, EntriesKept, TempAt, MemAt, Sync
<1>5. \A q \in Procs : MemAt(q)'
  BY NamesAssumption
     DEF StoreInv, StoreTypeOK, EntriesKept, TempAt, MemAt, Held, Sync
<1>6. QED
  BY <1>1, <1>2, <1>3, <1>4, <1>5 DEF StoreInv

\* What is published only grows, because the saver had loaded it.
LEMMA RenameInv ==
    ASSUME StoreInv, NEW p \in Procs, Rename(p)
    PROVE  StoreInv'
<1>1. StoreTypeOK'
  BY DEF StoreInv, StoreTypeOK, TempAt, Rename
<1>2. LockNotLeaked' /\ Held'
  BY NamesAssumption DEF StoreInv, StoreTypeOK, LockNotLeaked, Held, Rename
<1>3. \A q \in Procs : TempAt(q)'
  BY NamesAssumption DEF StoreInv, StoreTypeOK, TempAt, MemAt, Held, Rename
<1>4. EntriesKept'
  BY DEF StoreInv, StoreTypeOK, EntriesKept, TempAt, MemAt, Rename
<1>5. \A q \in Procs : MemAt(q)'
  BY NamesAssumption
     DEF StoreInv, StoreTypeOK, EntriesKept, TempAt, MemAt, Held, Rename
<1>6. QED
  BY <1>1, <1>2, <1>3, <1>4, <1>5 DEF StoreInv

\* After the directory sync one file remains possible.
LEMMA SyncDirInv ==
    ASSUME StoreInv, NEW p \in Procs, SyncDir(p)
    PROVE  StoreInv'
<1>1. StoreTypeOK'
  BY DEF StoreInv, StoreTypeOK, TempAt, SyncDir
<1>2. LockNotLeaked' /\ Held'
  BY NamesAssumption DEF StoreInv, StoreTypeOK, LockNotLeaked, Held, SyncDir
<1>3. \A q \in Procs : TempAt(q)'
  BY NamesAssumption DEF StoreInv, StoreTypeOK, TempAt, MemAt, Held, SyncDir
<1>4. EntriesKept'
  BY DEF StoreInv, StoreTypeOK, EntriesKept, TempAt, MemAt, SyncDir
<1>5. \A q \in Procs : MemAt(q)'
  BY NamesAssumption
     DEF StoreInv, StoreTypeOK, EntriesKept, TempAt, MemAt, Held, SyncDir
<1>6. QED
  BY <1>1, <1>2, <1>3, <1>4, <1>5 DEF StoreInv

\* A failed call leaves the files alone.
LEMMA FailInv ==
    ASSUME StoreInv, NEW p \in Procs, Fail(p)
    PROVE  StoreInv'
<1>1. StoreTypeOK'
  BY DEF StoreInv, StoreTypeOK, TempAt, Fail
<1>2. LockNotLeaked' /\ Held'
  BY NamesAssumption DEF StoreInv, StoreTypeOK, LockNotLeaked, Held, Fail
<1>3. \A q \in Procs : TempAt(q)'
  BY NamesAssumption DEF StoreInv, StoreTypeOK, TempAt, MemAt, Held, Fail
<1>4. EntriesKept'
  BY DEF StoreInv, StoreTypeOK, EntriesKept, TempAt, MemAt, Fail
<1>5. \A q \in Procs : MemAt(q)'
  BY NamesAssumption
     DEF StoreInv, StoreTypeOK, EntriesKept, TempAt, MemAt, Held, Fail
<1>6. QED
  BY <1>1, <1>2, <1>3, <1>4, <1>5 DEF StoreInv

\* The deferred removal leaves no temporary file.
LEMMA RemoveTempInv ==
    ASSUME StoreInv, NEW p \in Procs, RemoveTemp(p)
    PROVE  StoreInv'
<1>1. StoreTypeOK'
  BY DEF StoreInv, StoreTypeOK, TempAt, RemoveTemp
<1>2. LockNotLeaked' /\ Held'
  BY NamesAssumption DEF StoreInv, StoreTypeOK, LockNotLeaked, Held, RemoveTemp
<1>3. \A q \in Procs : TempAt(q)'
  BY NamesAssumption DEF StoreInv, StoreTypeOK, TempAt, MemAt, Held, RemoveTemp
<1>4. EntriesKept'
  BY DEF StoreInv, StoreTypeOK, EntriesKept, TempAt, MemAt, RemoveTemp
<1>5. \A q \in Procs : MemAt(q)'
  BY NamesAssumption
     DEF StoreInv, StoreTypeOK, EntriesKept, TempAt, MemAt, Held, RemoveTemp
<1>6. QED
  BY <1>1, <1>2, <1>3, <1>4, <1>5 DEF StoreInv

\* A crash leaves what is published.
LEMMA CrashInv ==
    ASSUME StoreInv, NEW p \in Procs, Crash(p)
    PROVE  StoreInv'
<1>1. StoreTypeOK'
  BY DEF StoreInv, StoreTypeOK, TempAt, Crash
<1>2. LockNotLeaked' /\ Held'
  BY NamesAssumption DEF StoreInv, StoreTypeOK, LockNotLeaked, Held, Crash
<1>3. \A q \in Procs : TempAt(q)'
  BY NamesAssumption DEF StoreInv, StoreTypeOK, TempAt, MemAt, Held, Crash
<1>4. EntriesKept'
  BY DEF StoreInv, StoreTypeOK, EntriesKept, TempAt, MemAt, Crash
<1>5. \A q \in Procs : MemAt(q)'
  BY NamesAssumption
     DEF StoreInv, StoreTypeOK, EntriesKept, TempAt, MemAt, Held, Crash
<1>6. QED
  BY <1>1, <1>2, <1>3, <1>4, <1>5 DEF StoreInv

\* A handler's change keeps what was loaded.
LEMMA BeginSaveInv ==
    ASSUME StoreInv, NEW p \in Procs, NEW cs \in SUBSET Changes,
           BeginSave(p, cs)
    PROVE  StoreInv'
<1>1. StoreTypeOK'
  BY DEF StoreInv, StoreTypeOK, BeginSave
<1>2. LockNotLeaked' /\ Held'
  BY NamesAssumption DEF StoreInv, StoreTypeOK, LockNotLeaked, Held, BeginSave
<1>3. \A q \in Procs : TempAt(q)'
  BY NamesAssumption DEF StoreInv, StoreTypeOK, TempAt, MemAt, Held, BeginSave
<1>4. EntriesKept'
  BY DEF StoreInv, StoreTypeOK, EntriesKept, BeginSave
<1>5. \A q \in Procs : MemAt(q)'
  BY NamesAssumption DEF StoreInv, StoreTypeOK, MemAt, Held, BeginSave
<1>6. QED
  BY <1>1, <1>2, <1>3, <1>4, <1>5 DEF StoreInv

\* After a loss of power one of the possible files is there, whole.
LEMMA PowerLossInv ==
    ASSUME StoreInv, PowerLoss
    PROVE  StoreInv'
<1>1. PICK f \in entries : entry' = Torn(f) /\ entries' = {Torn(f)}
  BY DEF PowerLoss
<1>2. Torn(f) = f
  BY DEF Torn, StoreInv, EntriesKept
<1>3. StoreTypeOK'
  BY <1>1, <1>2 DEF StoreInv, StoreTypeOK, PowerLoss
<1>4. LockNotLeaked' /\ Held'
  BY DEF LockNotLeaked, Held, PowerLoss
<1>5. \A q \in Procs : TempAt(q)'
  BY DEF TempAt, PowerLoss
<1>6. EntriesKept'
  BY <1>1, <1>2 DEF StoreInv, EntriesKept, PowerLoss
<1>7. \A q \in Procs : MemAt(q)'
  BY DEF MemAt, PowerLoss
<1>8. QED
  BY <1>3, <1>4, <1>5, <1>6, <1>7 DEF StoreInv

\* Every step keeps the invariant.
LEMMA NextInv == StoreInv /\ [Next]_vars => StoreInv'
<1> SUFFICES ASSUME StoreInv, [Next]_vars PROVE StoreInv'
  OBVIOUS
<1>1. ASSUME NEW p \in Procs, Open(p) PROVE StoreInv'
  BY <1>1, OpenInv
<1>2. ASSUME NEW p \in Procs, Load(p) PROVE StoreInv'
  BY <1>2, LoadInv
<1>3. ASSUME NEW p \in Procs, LoadFails(p) PROVE StoreInv'
  BY <1>3, LoadFailsInv
<1>4. ASSUME NEW p \in Procs, Close(p) PROVE StoreInv'
  BY <1>4, CloseInv
<1>5. ASSUME NEW p \in Procs, CreateTemp(p) PROVE StoreInv'
  BY <1>5, CreateTempInv
<1>6. ASSUME NEW p \in Procs, Proceed(p) PROVE StoreInv'
  BY <1>6, ProceedInv
<1>7. ASSUME NEW p \in Procs, Write(p) PROVE StoreInv'
  BY <1>7, WriteInv
<1>8. ASSUME NEW p \in Procs, Sync(p) PROVE StoreInv'
  BY <1>8, SyncInv
<1>9. ASSUME NEW p \in Procs, Rename(p) PROVE StoreInv'
  BY <1>9, RenameInv
<1>10. ASSUME NEW p \in Procs, SyncDir(p) PROVE StoreInv'
  BY <1>10, SyncDirInv
<1>11. ASSUME NEW p \in Procs, Fail(p) PROVE StoreInv'
  BY <1>11, FailInv
<1>12. ASSUME NEW p \in Procs, RemoveTemp(p) PROVE StoreInv'
  BY <1>12, RemoveTempInv
<1>13. ASSUME NEW p \in Procs, Crash(p) PROVE StoreInv'
  BY <1>13, CrashInv
<1>14. ASSUME NEW p \in Procs, NEW cs \in SUBSET Changes, BeginSave(p, cs)
      PROVE  StoreInv'
  BY <1>14, BeginSaveInv
<1>15. CASE PowerLoss
  BY <1>15, PowerLossInv
<1>16. CASE UNCHANGED vars
  BY <1>16 DEF vars, StoreInv, StoreTypeOK, LockNotLeaked, Held, TempAt,
              EntriesKept, MemAt
<1>17. QED
  BY <1>1, <1>2, <1>3, <1>4, <1>5, <1>6, <1>7, <1>8, <1>9, <1>10, <1>11, <1>12,
     <1>13, <1>14, <1>15, <1>16
     DEF Next, SaveStep

\* The invariant of newFileStore, Load, Save and Close holds in every state.
THEOREM StoreInvariant == Spec => []StoreInv
<1>1. QED
  BY InitInv, NextInv, PTL DEF Spec

\* The variables of the store have their types, for any number of processes.
THEOREM StoreTypes == Spec => []StoreTypeOK
<1>1. StoreInv => StoreTypeOK
  BY DEF StoreInv
<1>2. QED
  BY <1>1, StoreInvariant, PTL

\* Whatever order calls fail, processes die and power is lost in, the file
\* that is found is complete and has every change that a Save acknowledged.
THEOREM PowerLossSafety == Spec => []SurvivesPowerLoss
<1>1. StoreInv => SurvivesPowerLoss
  BY DEF StoreInv, EntriesKept, SurvivesPowerLoss, Torn
<1>2. QED
  BY <1>1, StoreInvariant, PTL

\* The lock of newFileStore is never kept by a process that does not use it.
THEOREM LockReturned == Spec => []LockNotLeaked
<1>1. StoreInv => LockNotLeaked
  BY DEF StoreInv
<1>2. QED
  BY <1>1, StoreInvariant, PTL

\* A Save that has returned has left no temporary file.
THEOREM TempRemoved == Spec => []NoTempAtRest
<1>1. StoreInv => NoTempAtRest
  BY DEF StoreInv, TempAt, NoTempAtRest
<1>2. QED
  BY <1>1, StoreInvariant, PTL

-----------------------------------------------------------------------------
(***************************************************************************)
(* The refinement.                                                         *)
(***************************************************************************)

\* The abstract state that a step which owns the store leaves alone.
LEMMA OwnerKept ==
    ASSUME StoreInv, NEW p \in Procs, pc[p] \in InUse, pc'[p] \in InUse,
           UNCHANGED lock
    PROVE  Owner = p /\ Owner' = p
BY NamesAssumption DEF StoreInv, StoreTypeOK, Held, Owner

\* The lock is taken before the file is read: nobody owns the store yet.
LEMMA OpenRefines ==
    ASSUME StoreInv, NEW p \in Procs, Open(p)
    PROVE  UNCHANGED Atomic!vars
BY NamesAssumption DEF StoreInv, StoreTypeOK, Open, Owner, Atomic!vars

\* Load is the abstract Open.
LEMMA LoadRefines ==
    ASSUME StoreInv, NEW p \in Procs, Load(p)
    PROVE  Atomic!Open(p)
BY NamesAssumption
   DEF StoreInv, StoreTypeOK, Held, Load, Owner, Atomic!Open

\* A failed load leaves the abstract store alone.
LEMMA LoadFailsRefines ==
    ASSUME StoreInv, NEW p \in Procs, LoadFails(p)
    PROVE  UNCHANGED Atomic!vars
BY NamesAssumption
   DEF StoreInv, StoreTypeOK, Held, LoadFails, Owner, Atomic!vars

\* Close is the abstract Leave.
LEMMA CloseRefines ==
    ASSUME StoreInv, NEW p \in Procs, Close(p)
    PROVE  Atomic!Leave(p)
BY NamesAssumption
   DEF StoreInv, StoreTypeOK, Held, Close, Owner, Atomic!Leave

\* A handler's change is the abstract Change.
LEMMA BeginSaveRefines ==
    ASSUME StoreInv, NEW p \in Procs, NEW cs \in SUBSET Changes,
           BeginSave(p, cs)
    PROVE  Atomic!Change(p, cs)
<1>1. pc'[p] \in InUse /\ pc[p] \in InUse /\ UNCHANGED lock
  BY DEF StoreInv, StoreTypeOK, BeginSave
<1>2. Owner = p /\ Owner' = p
  BY <1>1, OwnerKept
<1>3. QED
  BY <1>2 DEF BeginSave, Atomic!Change

\* The steps of Save before the rename, and its failures, are not seen.
LEMMA QuietRefines ==
    ASSUME StoreInv, NEW p \in Procs,
           \/ CreateTemp(p) \/ Proceed(p) \/ Write(p) \/ Sync(p)
           \/ Fail(p) \/ RemoveTemp(p)
    PROVE  UNCHANGED Atomic!vars
<1>1. pc[p] \in InUse /\ pc'[p] \in InUse /\ UNCHANGED lock
  BY DEF StoreInv, StoreTypeOK, CreateTemp, Proceed, Write, Sync, Fail,
         RemoveTemp
<1>2. UNCHANGED <<mem, entry, acked>>
  BY DEF CreateTemp, Proceed, Write, Sync, Fail, RemoveTemp
<1>3. Owner = p /\ Owner' = p
  BY <1>1, OwnerKept
<1>4. QED
  BY <1>2, <1>3 DEF Atomic!vars

\* The rename publishes the saver's state.
LEMMA RenameRefines ==
    ASSUME StoreInv, NEW p \in Procs, Rename(p)
    PROVE  Atomic!Publish(p)
<1>1. pc[p] \in InUse /\ pc'[p] \in InUse /\ UNCHANGED lock
  BY DEF StoreInv, StoreTypeOK, Rename
<1>2. entry'.data = mem[p]
  BY DEF StoreInv, TempAt, Rename
<1>3. Owner = p /\ Owner' = p
  BY <1>1, OwnerKept
<1>4. QED
  BY <1>2, <1>3 DEF Rename, Atomic!Publish

\* Save returns nil only when the published state is the saver's.
LEMMA SyncDirRefines ==
    ASSUME StoreInv, NEW p \in Procs, SyncDir(p)
    PROVE  Atomic!Acknowledge(p)
<1>1. pc[p] \in InUse /\ pc'[p] \in InUse /\ UNCHANGED lock
  BY DEF StoreInv, StoreTypeOK, SyncDir
<1>2. entry.data = mem[p]
  BY DEF StoreInv, MemAt, SyncDir
<1>3. Owner = p /\ Owner' = p
  BY <1>1, OwnerKept
<1>4. QED
  BY <1>2, <1>3 DEF SyncDir, Atomic!Acknowledge

\* A crash is a Leave, or nothing for a process that was still loading.
LEMMA CrashRefines ==
    ASSUME StoreInv, NEW p \in Procs, Crash(p)
    PROVE  Atomic!Leave(p) \/ UNCHANGED Atomic!vars
<1>1. Owner' = NoOwner /\ lock = p
  BY DEF StoreInv, Held, Crash, Owner
<1>2. CASE pc[p] = "locked"
  <2>1. Owner = NoOwner
    BY <1>1, <1>2 DEF Owner
  <2>2. mem' = mem
    BY <1>2 DEF StoreInv, StoreTypeOK, MemAt, Crash
  <2>3. QED
    BY <1>1, <2>1, <2>2 DEF Crash, Atomic!vars
<1>3. CASE pc[p] # "locked"
  <2>1. Owner = p
    BY <1>1, <1>3 DEF Owner
  <2>2. QED
    BY <1>1, <2>1 DEF Crash, Atomic!Leave
<1>4. QED
  BY <1>2, <1>3

\* A loss of power keeps what was acknowledged.
LEMMA PowerLossRefines ==
    ASSUME StoreInv, PowerLoss
    PROVE  Atomic!Lose
<1>1. PICK f \in entries : entry' = Torn(f)
  BY DEF PowerLoss
<1>2. Torn(f) = f /\ acked \subseteq f.data /\ f.data \subseteq entry.data
  BY DEF Torn, StoreInv, EntriesKept
<1>3. QED
  BY <1>1, <1>2 DEF PowerLoss, Owner, Atomic!Lose, Atomic!Empty

\* newFileStore, Load, Save and Close, with their failures, crashes and losses
\* of power, implement the atomic store, for any number of processes.
THEOREM StoreRefinement == Spec => ImplementsAtomicStore
<1>1. Init => Atomic!Init
  BY DEF Init, Missing, Owner, Atomic!Init, Atomic!Empty
<1>2. StoreInv /\ [Next]_vars => [Atomic!Next]_(Atomic!vars)
  <2> SUFFICES ASSUME StoreInv, [Next]_vars
               PROVE  Atomic!Next \/ UNCHANGED Atomic!vars
    OBVIOUS
  <2>1. ASSUME NEW p \in Procs, Open(p) \/ LoadFails(p)
        PROVE  UNCHANGED Atomic!vars
    BY <2>1, OpenRefines, LoadFailsRefines
  <2>2. ASSUME NEW p \in Procs, Load(p) PROVE Atomic!Next
    BY <2>2, LoadRefines DEF Atomic!Next
  <2>3. ASSUME NEW p \in Procs, Close(p) PROVE Atomic!Next
    BY <2>3, CloseRefines DEF Atomic!Next
  <2>4. ASSUME NEW p \in Procs, NEW cs \in SUBSET Changes, BeginSave(p, cs)
        PROVE  Atomic!Next
    BY <2>4, BeginSaveRefines DEF Atomic!Next
  <2>5. ASSUME NEW p \in Procs, SaveStep(p)
        PROVE  Atomic!Next \/ UNCHANGED Atomic!vars
    BY <2>5, QuietRefines, RenameRefines, SyncDirRefines
       DEF SaveStep, Atomic!Next
  <2>6. ASSUME NEW p \in Procs, Crash(p)
        PROVE  Atomic!Next \/ UNCHANGED Atomic!vars
    BY <2>6, CrashRefines DEF Atomic!Next
  <2>7. CASE PowerLoss
    BY <2>7, PowerLossRefines DEF Atomic!Next
  <2>8. CASE UNCHANGED vars
    BY <2>8 DEF vars, Owner, Atomic!vars
  <2>9. QED
    BY <2>1, <2>2, <2>3, <2>4, <2>5, <2>6, <2>7, <2>8 DEF Next
<1>3. QED
  BY <1>1, <1>2, StoreInvariant, PTL
     DEF Spec, ImplementsAtomicStore, Atomic!Spec
=============================================================================
