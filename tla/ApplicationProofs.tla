------------------------- MODULE ApplicationProofs -------------------------
(***************************************************************************)
(* Proofs about Application, for any number of host threads and versions   *)
(* of the configuration: AppInv is inductive, and by it calls never meet a *)
(* dropped pool, handlers are atomic, panics close the pool, the state     *)
(* directory is never locked by mistake, and reloads go back only when     *)
(* they were overtaken.  With Held, nobody waits in a circle.  That every  *)
(* call returns is left to TLC.                                            *)
(***************************************************************************)
EXTENDS Application, TLAPS

USE DEF Goto, Places, Unreadable, threadVars, lockVars, poolVars

\* The first state satisfies the invariant.
LEMMA InitInv == Init => AppInv
<1> SUFFICES ASSUME Init PROVE AppInv
  OBVIOUS
<1>1. AppTypeOK
  <2>1. 1 \in 1..MaxVersion /\ 0 \in 0..MaxVersion /\ 0 \in 0..Unreadable
    BY VersionsAssumption
  <2>2. QED
    BY <2>1 DEF Init, AppTypeOK
<1>2. \A t \in Threads : SharedAt(t) /\ ExclusiveAt(t) /\ MethodAt(t)
  BY ThreadsAssumption DEF Init, SharedAt, ExclusiveAt, MethodAt
<1>3. OneWriter /\ NothingKnown /\ PanicClosesPool /\ NeverLocksItselfOut
  BY DEF Init, OneWriter, NothingKnown, PanicClosesPool, NeverLocksItselfOut
<1>4. Reads
  BY DEF Init, Reads
<1>5. QED
  BY <1>1, <1>2, <1>3, <1>4 DEF AppInv

\* A writer announces itself only when there is none.
LEMMA AnnounceInv ==
    ASSUME AppInv, NEW t \in Threads, Announce(t)
    PROVE  AppInv'
<1>1. AppTypeOK'
  BY VersionsAssumption DEF AppInv, AppTypeOK, Announce
<1>2. \A u \in Threads : SharedAt(u)' /\ ExclusiveAt(u)'
  BY ThreadsAssumption
     DEF AppInv, AppTypeOK, SharedAt, ExclusiveAt, OneWriter, Announce
<1>3. OneWriter'
  BY ThreadsAssumption
     DEF AppInv, AppTypeOK, SharedAt, ExclusiveAt, OneWriter, Announce
<1>4. \A u \in Threads : MethodAt(u)'
  BY ThreadsAssumption
     DEF AppInv, AppTypeOK, SharedAt, ExclusiveAt, OneWriter, MethodAt,
         Announce
<1>5. NothingKnown' /\ NeverLocksItselfOut'
  BY ThreadsAssumption
     DEF AppInv, AppTypeOK, NothingKnown, NeverLocksItselfOut, Announce
<1>6. PanicClosesPool'
  BY DEF AppInv, AppTypeOK, NothingKnown, PanicClosesPool, Announce
<1>7. Reads'
  BY VersionsAssumption DEF AppInv, AppTypeOK, NothingKnown, Reads, Announce
<1>8. QED
  BY <1>1, <1>2, <1>3, <1>4, <1>5, <1>6, <1>7 DEF AppInv

\* The lock is taken when no reader is left.
LEMMA AcquireInv ==
    ASSUME AppInv, NEW t \in Threads, Acquire(t)
    PROVE  AppInv'
<1>1. AppTypeOK'
  BY VersionsAssumption DEF AppInv, AppTypeOK, Acquire
<1>2. \A u \in Threads : SharedAt(u)' /\ ExclusiveAt(u)'
  BY ThreadsAssumption
     DEF AppInv, AppTypeOK, SharedAt, ExclusiveAt, OneWriter, Acquire
<1>3. OneWriter'
  BY ThreadsAssumption
     DEF AppInv, AppTypeOK, SharedAt, ExclusiveAt, OneWriter, Acquire
<1>4. \A u \in Threads : MethodAt(u)'
  BY ThreadsAssumption
     DEF AppInv, AppTypeOK, SharedAt, ExclusiveAt, OneWriter, MethodAt, Acquire
<1>5. NothingKnown' /\ NeverLocksItselfOut'
  BY ThreadsAssumption
     DEF AppInv, AppTypeOK, NothingKnown, NeverLocksItselfOut, Acquire
<1>6. PanicClosesPool'
  BY DEF AppInv, AppTypeOK, NothingKnown, PanicClosesPool, Acquire
<1>7. Reads'
  BY VersionsAssumption DEF AppInv, AppTypeOK, NothingKnown, Reads, Acquire
<1>8. QED
  BY <1>1, <1>2, <1>3, <1>4, <1>5, <1>6, <1>7 DEF AppInv

\* A new call holds a.mu shared or waits for it.
LEMMA BeginHandlerInv ==
    ASSUME AppInv, NEW t \in Threads, BeginHandler(t)
    PROVE  AppInv'
<1>1. AppTypeOK'
  BY VersionsAssumption DEF AppInv, AppTypeOK, BeginHandler, RLock
<1>2. \A u \in Threads : SharedAt(u)' /\ ExclusiveAt(u)'
  BY ThreadsAssumption
     DEF AppInv, AppTypeOK, SharedAt, ExclusiveAt, OneWriter, BeginHandler,
         RLock
<1>3. OneWriter'
  BY ThreadsAssumption
     DEF AppInv, AppTypeOK, SharedAt, ExclusiveAt, OneWriter, BeginHandler,
         RLock
<1>4. \A u \in Threads : MethodAt(u)'
  BY ThreadsAssumption
     DEF AppInv, AppTypeOK, SharedAt, ExclusiveAt, OneWriter, MethodAt,
         BeginHandler, RLock
<1>5. NothingKnown' /\ NeverLocksItselfOut'
  BY ThreadsAssumption
     DEF AppInv, AppTypeOK, NothingKnown, NeverLocksItselfOut, BeginHandler,
         RLock
<1>6. PanicClosesPool'
  BY DEF AppInv, AppTypeOK, NothingKnown, PanicClosesPool, BeginHandler, RLock
<1>7. Reads'
  BY VersionsAssumption
     DEF AppInv, AppTypeOK, NothingKnown, Reads, BeginHandler, RLock
<1>8. QED
  BY <1>1, <1>2, <1>3, <1>4, <1>5, <1>6, <1>7 DEF AppInv

\* A call without a pool gives a.mu back.
LEMMA NotInitializedInv ==
    ASSUME AppInv, NEW t \in Threads, NotInitialized(t)
    PROVE  AppInv'
<1>1. AppTypeOK'
  BY VersionsAssumption DEF AppInv, AppTypeOK, NotInitialized, RUnlock
<1>2. \A u \in Threads : SharedAt(u)' /\ ExclusiveAt(u)'
  BY ThreadsAssumption
     DEF AppInv, AppTypeOK, SharedAt, ExclusiveAt, OneWriter, NotInitialized,
         RUnlock
<1>3. OneWriter'
  BY ThreadsAssumption
     DEF AppInv, AppTypeOK, SharedAt, ExclusiveAt, OneWriter, NotInitialized,
         RUnlock
<1>4. \A u \in Threads : MethodAt(u)'
  BY ThreadsAssumption
     DEF AppInv, AppTypeOK, SharedAt, ExclusiveAt, OneWriter, MethodAt,
         NotInitialized, RUnlock
<1>5. NothingKnown' /\ NeverLocksItselfOut'
  BY ThreadsAssumption
     DEF AppInv, AppTypeOK, NothingKnown, NeverLocksItselfOut, NotInitialized,
         RUnlock
<1>6. PanicClosesPool'
  BY DEF AppInv, AppTypeOK, NothingKnown, PanicClosesPool, NotInitialized,
         RUnlock
<1>7. Reads'
  BY VersionsAssumption
     DEF AppInv, AppTypeOK, NothingKnown, Reads, NotInitialized, RUnlock
<1>8. QED
  BY <1>1, <1>2, <1>3, <1>4, <1>5, <1>6, <1>7 DEF AppInv

\* A call that is answered without the pool gives a.mu back.
LEMMA AnswerInv ==
    ASSUME AppInv, NEW t \in Threads, Answer(t)
    PROVE  AppInv'
<1>1. AppTypeOK'
  BY VersionsAssumption DEF AppInv, AppTypeOK, Answer, RUnlock
<1>2. \A u \in Threads : SharedAt(u)' /\ ExclusiveAt(u)'
  BY ThreadsAssumption
     DEF AppInv, AppTypeOK, SharedAt, ExclusiveAt, OneWriter, Answer, RUnlock
<1>3. OneWriter'
  BY ThreadsAssumption
     DEF AppInv, AppTypeOK, SharedAt, ExclusiveAt, OneWriter, Answer, RUnlock
<1>4. \A u \in Threads : MethodAt(u)'
  BY ThreadsAssumption
     DEF AppInv, AppTypeOK, SharedAt, ExclusiveAt, OneWriter, MethodAt, Answer,
         RUnlock
<1>5. NothingKnown' /\ NeverLocksItselfOut'
  BY ThreadsAssumption
     DEF AppInv, AppTypeOK, NothingKnown, NeverLocksItselfOut, Answer, RUnlock
<1>6. PanicClosesPool'
  BY DEF AppInv, AppTypeOK, NothingKnown, PanicClosesPool, Answer, RUnlock
<1>7. Reads'
  BY VersionsAssumption
     DEF AppInv, AppTypeOK, NothingKnown, Reads, Answer, RUnlock
<1>8. QED
  BY <1>1, <1>2, <1>3, <1>4, <1>5, <1>6, <1>7 DEF AppInv

\* A method is entered on the current pool.
LEMMA EnterMethodInv ==
    ASSUME AppInv, NEW t \in Threads, EnterMethod(t)
    PROVE  AppInv'
<1>1. AppTypeOK'
  BY VersionsAssumption DEF AppInv, AppTypeOK, EnterMethod
<1>2. \A u \in Threads : SharedAt(u)' /\ ExclusiveAt(u)'
  BY ThreadsAssumption
     DEF AppInv, AppTypeOK, SharedAt, ExclusiveAt, OneWriter, EnterMethod
<1>3. OneWriter'
  BY ThreadsAssumption
     DEF AppInv, AppTypeOK, SharedAt, ExclusiveAt, OneWriter, EnterMethod
<1>4. \A u \in Threads : MethodAt(u)'
  BY ThreadsAssumption
     DEF AppInv, AppTypeOK, SharedAt, ExclusiveAt, OneWriter, MethodAt,
         EnterMethod
<1>5. NothingKnown' /\ NeverLocksItselfOut'
  BY ThreadsAssumption
     DEF AppInv, AppTypeOK, NothingKnown, NeverLocksItselfOut, EnterMethod
<1>6. PanicClosesPool'
  BY DEF AppInv, AppTypeOK, NothingKnown, PanicClosesPool, EnterMethod
<1>7. Reads'
  BY VersionsAssumption DEF AppInv, AppTypeOK, NothingKnown, Reads, EnterMethod
<1>8. QED
  BY <1>1, <1>2, <1>3, <1>4, <1>5, <1>6, <1>7 DEF AppInv

\* Inside a method a thread has p.mu.
LEMMA PoolLockInv ==
    ASSUME AppInv, NEW t \in Threads, PoolLock(t)
    PROVE  AppInv'
<1>1. AppTypeOK'
  BY VersionsAssumption DEF AppInv, AppTypeOK, PoolLock
<1>2. \A u \in Threads : SharedAt(u)' /\ ExclusiveAt(u)'
  BY ThreadsAssumption
     DEF AppInv, AppTypeOK, SharedAt, ExclusiveAt, OneWriter, PoolLock
<1>3. OneWriter'
  BY ThreadsAssumption
     DEF AppInv, AppTypeOK, SharedAt, ExclusiveAt, OneWriter, PoolLock
<1>4. \A u \in Threads : MethodAt(u)'
  BY ThreadsAssumption
     DEF AppInv, AppTypeOK, SharedAt, ExclusiveAt, OneWriter, MethodAt,
         PoolLock
<1>5. NothingKnown' /\ NeverLocksItselfOut'
  BY ThreadsAssumption
     DEF AppInv, AppTypeOK, NothingKnown, NeverLocksItselfOut, PoolLock
<1>6. PanicClosesPool'
  BY DEF AppInv, AppTypeOK, NothingKnown, PanicClosesPool, PoolLock
<1>7. Reads'
  BY VersionsAssumption DEF AppInv, AppTypeOK, NothingKnown, Reads, PoolLock
<1>8. QED
  BY <1>1, <1>2, <1>3, <1>4, <1>5, <1>6, <1>7 DEF AppInv

\* A method that returned or panicked has given both locks back.
LEMMA LeaveMethodInv ==
    ASSUME AppInv, NEW t \in Threads, LeaveMethod(t)
    PROVE  AppInv'
<1>1. AppTypeOK'
  BY VersionsAssumption DEF AppInv, AppTypeOK, LeaveMethod, RUnlock
<1>2. \A u \in Threads : SharedAt(u)' /\ ExclusiveAt(u)'
  BY ThreadsAssumption
     DEF AppInv, AppTypeOK, SharedAt, ExclusiveAt, OneWriter, LeaveMethod,
         RUnlock
<1>3. OneWriter'
  BY ThreadsAssumption
     DEF AppInv, AppTypeOK, SharedAt, ExclusiveAt, OneWriter, LeaveMethod,
         RUnlock
<1>4. \A u \in Threads : MethodAt(u)'
  BY ThreadsAssumption
     DEF AppInv, AppTypeOK, SharedAt, ExclusiveAt, OneWriter, MethodAt,
         LeaveMethod, RUnlock
<1>5. NothingKnown' /\ NeverLocksItselfOut'
  BY ThreadsAssumption
     DEF AppInv, AppTypeOK, MethodAt, NothingKnown, NeverLocksItselfOut,
         LeaveMethod, RUnlock
<1>6. PanicClosesPool'
  BY DEF AppInv, AppTypeOK, NothingKnown, PanicClosesPool, LeaveMethod, RUnlock
<1>7. Reads'
  BY VersionsAssumption
     DEF AppInv, AppTypeOK, NothingKnown, Reads, LeaveMethod, RUnlock
<1>8. QED
  BY <1>1, <1>2, <1>3, <1>4, <1>5, <1>6, <1>7 DEF AppInv

\* The recover asks for a.mu like a call does.
LEMMA BeginFailClosedInv ==
    ASSUME AppInv, NEW t \in Threads, BeginFailClosed(t)
    PROVE  AppInv'
<1>1. AppTypeOK'
  BY VersionsAssumption DEF AppInv, AppTypeOK, BeginFailClosed, RLock
<1>2. \A u \in Threads : SharedAt(u)' /\ ExclusiveAt(u)'
  BY ThreadsAssumption
     DEF AppInv, AppTypeOK, SharedAt, ExclusiveAt, OneWriter, BeginFailClosed,
         RLock
<1>3. OneWriter'
  BY ThreadsAssumption
     DEF AppInv, AppTypeOK, SharedAt, ExclusiveAt, OneWriter, BeginFailClosed,
         RLock
<1>4. \A u \in Threads : MethodAt(u)'
  BY ThreadsAssumption
     DEF AppInv, AppTypeOK, SharedAt, ExclusiveAt, OneWriter, MethodAt,
         BeginFailClosed, RLock
<1>5. NothingKnown' /\ NeverLocksItselfOut'
  BY ThreadsAssumption
     DEF AppInv, AppTypeOK, NothingKnown, NeverLocksItselfOut, BeginFailClosed,
         RLock
<1>6. PanicClosesPool'
  BY DEF AppInv, AppTypeOK, NothingKnown, PanicClosesPool, BeginFailClosed,
         RLock
<1>7. Reads'
  BY VersionsAssumption
     DEF AppInv, AppTypeOK, NothingKnown, Reads, BeginFailClosed, RLock
<1>8. QED
  BY <1>1, <1>2, <1>3, <1>4, <1>5, <1>6, <1>7 DEF AppInv

\* failClosed sets the fault of the pool there is.
LEMMA FailClosedInv ==
    ASSUME AppInv, NEW t \in Threads, FailClosed(t)
    PROVE  AppInv'
<1>1. AppTypeOK'
  BY VersionsAssumption DEF AppInv, AppTypeOK, FailClosed, RUnlock
<1>2. \A u \in Threads : SharedAt(u)' /\ ExclusiveAt(u)'
  BY ThreadsAssumption
     DEF AppInv, AppTypeOK, SharedAt, ExclusiveAt, OneWriter, FailClosed,
         RUnlock
<1>3. OneWriter'
  BY ThreadsAssumption
     DEF AppInv, AppTypeOK, SharedAt, ExclusiveAt, OneWriter, FailClosed,
         RUnlock
<1>4. \A u \in Threads : MethodAt(u)'
  BY ThreadsAssumption
     DEF AppInv, AppTypeOK, SharedAt, ExclusiveAt, OneWriter, MethodAt,
         FailClosed, RUnlock
<1>5. NothingKnown' /\ NeverLocksItselfOut'
  BY ThreadsAssumption
     DEF AppInv, AppTypeOK, NothingKnown, NeverLocksItselfOut, FailClosed,
         RUnlock
<1>6. PanicClosesPool'
  BY DEF AppInv, AppTypeOK, NothingKnown, PanicClosesPool, FailClosed, RUnlock
<1>7. Reads'
  BY VersionsAssumption
     DEF AppInv, AppTypeOK, NothingKnown, Reads, FailClosed, RUnlock
<1>8. QED
  BY <1>1, <1>2, <1>3, <1>4, <1>5, <1>6, <1>7 DEF AppInv

\* What is read now is not older than what is installed.
LEMMA BeginConfigureInv ==
    ASSUME AppInv, NEW t \in Threads, BeginConfigure(t)
    PROVE  AppInv'
<1>1. AppTypeOK'
  BY VersionsAssumption DEF AppInv, AppTypeOK, BeginConfigure
<1>2. \A u \in Threads : SharedAt(u)' /\ ExclusiveAt(u)'
  BY ThreadsAssumption
     DEF AppInv, AppTypeOK, SharedAt, ExclusiveAt, OneWriter, BeginConfigure
<1>3. OneWriter'
  BY ThreadsAssumption
     DEF AppInv, AppTypeOK, SharedAt, ExclusiveAt, OneWriter, BeginConfigure
<1>4. \A u \in Threads : MethodAt(u)'
  BY ThreadsAssumption
     DEF AppInv, AppTypeOK, SharedAt, ExclusiveAt, OneWriter, MethodAt,
         BeginConfigure
<1>5. NothingKnown' /\ NeverLocksItselfOut'
  BY ThreadsAssumption
     DEF AppInv, AppTypeOK, NothingKnown, NeverLocksItselfOut, BeginConfigure
<1>6. PanicClosesPool'
  BY DEF AppInv, AppTypeOK, NothingKnown, PanicClosesPool, BeginConfigure
<1>7. Reads'
  BY VersionsAssumption
     DEF AppInv, AppTypeOK, NothingKnown, Reads, BeginConfigure
<1>8. QED
  BY <1>1, <1>2, <1>3, <1>4, <1>5, <1>6, <1>7 DEF AppInv

\* A configuration is installed while nobody is in a method.
LEMMA ConfigureInv ==
    ASSUME AppInv, NEW t \in Threads, Configure(t)
    PROVE  AppInv'
<1>1. AppTypeOK'
  <2>1. version' \in 0..MaxVersion
    BY VersionsAssumption
       DEF AppInv, AppTypeOK, Configure, Unlock, Forget, Refuse, Reconfigure,
           Register, Faulted, Fresh
  <2>2. arg' \in [Threads -> 0..Unreadable]
    BY VersionsAssumption
       DEF AppInv, AppTypeOK, Configure, Unlock, Forget, Refuse, Reconfigure,
           Register, Faulted, Fresh
  <2>3. overtaken' \in [Threads -> BOOLEAN]
    BY DEF Configure, Forget
  <2>4. /\ pool' \in Pools \cup {NoPool} /\ store' \in BOOLEAN
        /\ fault' \in BOOLEAN /\ flock' \in BOOLEAN /\ panicked' \in BOOLEAN
    BY DEF AppInv, AppTypeOK, Configure, Refuse, Reconfigure, Register,
           Faulted, Fresh
  <2>5. QED
    BY <2>1, <2>2, <2>3, <2>4 DEF AppInv, AppTypeOK, Configure, Unlock
<1>2. \A u \in Threads : SharedAt(u)' /\ ExclusiveAt(u)'
  BY ThreadsAssumption
     DEF AppInv, AppTypeOK, SharedAt, ExclusiveAt, OneWriter, Configure,
         Unlock, Forget, Refuse, Reconfigure, Register, Faulted, Fresh
<1>3. OneWriter'
  BY ThreadsAssumption
     DEF AppInv, AppTypeOK, SharedAt, ExclusiveAt, OneWriter, Configure,
         Unlock, Forget, Refuse, Reconfigure, Register, Faulted, Fresh
<1>4. \A u \in Threads : MethodAt(u)'
  BY ThreadsAssumption
     DEF AppInv, AppTypeOK, SharedAt, ExclusiveAt, OneWriter, MethodAt,
         Configure, Unlock, Forget, Refuse, Reconfigure, Register, Faulted,
         Fresh
<1>5. NothingKnown' /\ NeverLocksItselfOut'
  BY ThreadsAssumption
     DEF AppInv, AppTypeOK, NothingKnown, NeverLocksItselfOut, Configure,
         Unlock, Forget, Refuse, Reconfigure, Register, Faulted, Fresh
<1>6. PanicClosesPool'
  BY DEF AppInv, AppTypeOK, NothingKnown, PanicClosesPool, Configure, Unlock,
         Forget, Refuse, Reconfigure, Register, Faulted, Fresh
<1>7. Reads'
  <2>1. version' \in {0, version, arg[t]} /\ version' # Unreadable
    BY VersionsAssumption
       DEF AppInv, AppTypeOK, Configure, Refuse, Reconfigure, Register, Faulted
  <2>2. version' <= file'
    BY <2>1, VersionsAssumption DEF AppInv, AppTypeOK, Reads, Configure
  <2>3. ASSUME NEW u \in Threads, arg'[u] \in 1..MaxVersion
        PROVE  arg'[u] <= file' /\ (~overtaken'[u] => version' <= arg'[u])
    <3>1. u # t /\ arg'[u] = arg[u] /\ arg[u] # 0
      BY <2>3, VersionsAssumption DEF AppInv, AppTypeOK, Configure, Forget
    <3>2. ~overtaken'[u] => ~overtaken[u] /\ version' = version
      BY <3>1, Zenon DEF Configure, Forget
    <3>3. QED
      BY <2>3, <3>1, <3>2 DEF AppInv, Reads, Configure
  <2>4. QED
    BY <2>2, <2>3 DEF Reads
<1>8. QED
  BY <1>1, <1>2, <1>3, <1>4, <1>5, <1>6, <1>7 DEF AppInv

\* A configure that panics leaves a thread in recover.
LEMMA ConfigurePanicsInv ==
    ASSUME AppInv, NEW t \in Threads, ConfigurePanics(t)
    PROVE  AppInv'
<1>1. AppTypeOK'
  BY VersionsAssumption DEF AppInv, AppTypeOK, ConfigurePanics, Unlock, Forget
<1>2. \A u \in Threads : SharedAt(u)' /\ ExclusiveAt(u)'
  BY ThreadsAssumption
     DEF AppInv, AppTypeOK, SharedAt, ExclusiveAt, OneWriter, ConfigurePanics,
         Unlock, Forget
<1>3. OneWriter'
  BY ThreadsAssumption
     DEF AppInv, AppTypeOK, SharedAt, ExclusiveAt, OneWriter, ConfigurePanics,
         Unlock, Forget
<1>4. \A u \in Threads : MethodAt(u)'
  BY ThreadsAssumption
     DEF AppInv, AppTypeOK, SharedAt, ExclusiveAt, OneWriter, MethodAt,
         ConfigurePanics, Unlock, Forget
<1>5. NothingKnown' /\ NeverLocksItselfOut'
  BY ThreadsAssumption
     DEF AppInv, AppTypeOK, NothingKnown, NeverLocksItselfOut, ConfigurePanics,
         Unlock, Forget
<1>6. PanicClosesPool'
  BY DEF AppInv, AppTypeOK, NothingKnown, PanicClosesPool, ConfigurePanics,
         Unlock, Forget
<1>7. Reads'
  BY VersionsAssumption
     DEF AppInv, AppTypeOK, NothingKnown, Reads, ConfigurePanics, Unlock,
         Forget
<1>8. QED
  BY <1>1, <1>2, <1>3, <1>4, <1>5, <1>6, <1>7 DEF AppInv

\* Asking for a.mu changes nothing else.
LEMMA BeginExclusiveInv ==
    ASSUME AppInv, NEW t \in Threads, BeginExclusive(t)
    PROVE  AppInv'
<1>1. AppTypeOK'
  BY VersionsAssumption DEF AppInv, AppTypeOK, BeginExclusive
<1>2. \A u \in Threads : SharedAt(u)' /\ ExclusiveAt(u)'
  BY ThreadsAssumption
     DEF AppInv, AppTypeOK, SharedAt, ExclusiveAt, OneWriter, BeginExclusive
<1>3. OneWriter'
  BY ThreadsAssumption
     DEF AppInv, AppTypeOK, SharedAt, ExclusiveAt, OneWriter, BeginExclusive
<1>4. \A u \in Threads : MethodAt(u)'
  BY ThreadsAssumption
     DEF AppInv, AppTypeOK, SharedAt, ExclusiveAt, OneWriter, MethodAt,
         BeginExclusive
<1>5. NothingKnown' /\ NeverLocksItselfOut'
  BY ThreadsAssumption
     DEF AppInv, AppTypeOK, NothingKnown, NeverLocksItselfOut, BeginExclusive
<1>6. PanicClosesPool'
  BY DEF AppInv, AppTypeOK, NothingKnown, PanicClosesPool, BeginExclusive
<1>7. Reads'
  BY VersionsAssumption
     DEF AppInv, AppTypeOK, NothingKnown, Reads, BeginExclusive
<1>8. QED
  BY <1>1, <1>2, <1>3, <1>4, <1>5, <1>6, <1>7 DEF AppInv

\* A pool is dropped while nobody is in one of its methods.
LEMMA CloseInv ==
    ASSUME AppInv, NEW t \in Threads, Close(t)
    PROVE  AppInv'
<1>1. AppTypeOK'
  <2>1. 0 \in 0..MaxVersion
    BY VersionsAssumption
  <2>2. flock' \in BOOLEAN
    BY Zenon DEF AppInv, AppTypeOK, Close
  <2>3. QED
    BY <2>1, <2>2 DEF AppInv, AppTypeOK, Close, Unlock
<1>2. \A u \in Threads : SharedAt(u)' /\ ExclusiveAt(u)'
  BY ThreadsAssumption
     DEF AppInv, AppTypeOK, SharedAt, ExclusiveAt, OneWriter, Close, Unlock
<1>3. OneWriter'
  BY ThreadsAssumption
     DEF AppInv, AppTypeOK, SharedAt, ExclusiveAt, OneWriter, Close, Unlock
<1>4. \A u \in Threads : MethodAt(u)'
  BY ThreadsAssumption
     DEF AppInv, AppTypeOK, SharedAt, ExclusiveAt, OneWriter, MethodAt, Close,
         Unlock
<1>5. NothingKnown' /\ NeverLocksItselfOut'
  BY ThreadsAssumption
     DEF AppInv, AppTypeOK, NothingKnown, NeverLocksItselfOut, Close, Unlock
<1>6. PanicClosesPool'
  BY DEF AppInv, AppTypeOK, NothingKnown, PanicClosesPool, Close, Unlock
<1>7. Reads'
  BY VersionsAssumption
     DEF AppInv, AppTypeOK, NothingKnown, Reads, Close, Unlock
<1>8. QED
  BY <1>1, <1>2, <1>3, <1>4, <1>5, <1>6, <1>7 DEF AppInv

\* management.register changes nothing of the pool.
LEMMA RegisterManagementInv ==
    ASSUME AppInv, NEW t \in Threads, RegisterManagement(t)
    PROVE  AppInv'
<1>1. AppTypeOK'
  BY VersionsAssumption DEF AppInv, AppTypeOK, RegisterManagement, Unlock
<1>2. \A u \in Threads : SharedAt(u)' /\ ExclusiveAt(u)'
  BY ThreadsAssumption
     DEF AppInv, AppTypeOK, SharedAt, ExclusiveAt, OneWriter,
         RegisterManagement, Unlock
<1>3. OneWriter'
  BY ThreadsAssumption
     DEF AppInv, AppTypeOK, SharedAt, ExclusiveAt, OneWriter,
         RegisterManagement, Unlock
<1>4. \A u \in Threads : MethodAt(u)'
  BY ThreadsAssumption
     DEF AppInv, AppTypeOK, SharedAt, ExclusiveAt, OneWriter, MethodAt,
         RegisterManagement, Unlock
<1>5. NothingKnown' /\ NeverLocksItselfOut'
  BY ThreadsAssumption
     DEF AppInv, AppTypeOK, NothingKnown, NeverLocksItselfOut,
         RegisterManagement, Unlock
<1>6. PanicClosesPool'
  BY DEF AppInv, AppTypeOK, NothingKnown, PanicClosesPool, RegisterManagement,
         Unlock
<1>7. Reads'
  BY VersionsAssumption
     DEF AppInv, AppTypeOK, NothingKnown, Reads, RegisterManagement, Unlock
<1>8. QED
  BY <1>1, <1>2, <1>3, <1>4, <1>5, <1>6, <1>7 DEF AppInv

\* The operator's edit changes the file alone, to a newer version.
LEMMA EditInv ==
    ASSUME AppInv, Edit
    PROVE  AppInv'
<1>1. AppTypeOK'
  BY VersionsAssumption DEF AppInv, AppTypeOK, Edit
<1>2. Reads'
  BY VersionsAssumption DEF AppInv, AppTypeOK, Reads, Edit
<1>3. \A t \in Threads : SharedAt(t)' /\ ExclusiveAt(t)' /\ MethodAt(t)'
  BY DEF AppInv, SharedAt, ExclusiveAt, MethodAt, Edit
<1>4. /\ OneWriter' /\ NothingKnown'
      /\ PanicClosesPool' /\ NeverLocksItselfOut'
  BY DEF AppInv, OneWriter, NothingKnown, PanicClosesPool,
         NeverLocksItselfOut, Edit
<1>5. QED
  BY <1>1, <1>2, <1>3, <1>4 DEF AppInv

\* Every step keeps the invariant.
LEMMA NextInv == AppInv /\ [Next]_vars => AppInv'
<1> SUFFICES ASSUME AppInv, [Next]_vars PROVE AppInv'
  OBVIOUS
<1>1. ASSUME NEW t \in Threads, Announce(t) PROVE AppInv'
  BY <1>1, AnnounceInv
<1>2. ASSUME NEW t \in Threads, Acquire(t) PROVE AppInv'
  BY <1>2, AcquireInv
<1>3. ASSUME NEW t \in Threads, BeginHandler(t) PROVE AppInv'
  BY <1>3, BeginHandlerInv
<1>4. ASSUME NEW t \in Threads, NotInitialized(t) PROVE AppInv'
  BY <1>4, NotInitializedInv
<1>5. ASSUME NEW t \in Threads, Answer(t) PROVE AppInv'
  BY <1>5, AnswerInv
<1>6. ASSUME NEW t \in Threads, EnterMethod(t) PROVE AppInv'
  BY <1>6, EnterMethodInv
<1>7. ASSUME NEW t \in Threads, PoolLock(t) PROVE AppInv'
  BY <1>7, PoolLockInv
<1>8. ASSUME NEW t \in Threads, LeaveMethod(t) PROVE AppInv'
  BY <1>8, LeaveMethodInv
<1>9. ASSUME NEW t \in Threads, BeginFailClosed(t) PROVE AppInv'
  BY <1>9, BeginFailClosedInv
<1>10. ASSUME NEW t \in Threads, FailClosed(t) PROVE AppInv'
  BY <1>10, FailClosedInv
<1>11. ASSUME NEW t \in Threads, BeginConfigure(t) PROVE AppInv'
  BY <1>11, BeginConfigureInv
<1>12. ASSUME NEW t \in Threads, Configure(t) PROVE AppInv'
  BY <1>12, ConfigureInv
<1>13. ASSUME NEW t \in Threads, ConfigurePanics(t) PROVE AppInv'
  BY <1>13, ConfigurePanicsInv
<1>14. ASSUME NEW t \in Threads, BeginExclusive(t) PROVE AppInv'
  BY <1>14, BeginExclusiveInv
<1>15. ASSUME NEW t \in Threads, Close(t) PROVE AppInv'
  BY <1>15, CloseInv
<1>16. ASSUME NEW t \in Threads, RegisterManagement(t) PROVE AppInv'
  BY <1>16, RegisterManagementInv
<1>17. CASE Edit
  BY <1>17, EditInv
<1>18. CASE UNCHANGED vars
  <2>1. AppTypeOK' /\ OneWriter' /\ NothingKnown' /\ Reads'
    BY <1>18 DEF vars, AppInv, AppTypeOK, OneWriter, NothingKnown, Reads
  <2>2. \A t \in Threads : SharedAt(t)' /\ ExclusiveAt(t)' /\ MethodAt(t)'
    BY <1>18 DEF vars, AppInv, SharedAt, ExclusiveAt, MethodAt
  <2>3. PanicClosesPool' /\ NeverLocksItselfOut'
    BY <1>18 DEF vars, AppInv, PanicClosesPool, NeverLocksItselfOut
  <2>4. QED
    BY <2>1, <2>2, <2>3 DEF AppInv
<1>19. QED
  BY <1>1, <1>2, <1>3, <1>4, <1>5, <1>6, <1>7, <1>8, <1>9, <1>10, <1>11, <1>12,
     <1>13, <1>14, <1>15, <1>16, <1>17, <1>18
     DEF Next, Begin, Step, Contend

\* The invariant of call, configure, close and failClosed holds in every state.
THEOREM AppInvariant == Spec => []AppInv
<1>1. QED
  BY InitInv, NextInv, PTL DEF Spec

\* The variables of the application have their types.
THEOREM AppTypes == Spec => []AppTypeOK
<1>1. AppInv => AppTypeOK
  BY DEF AppInv
<1>2. QED
  BY <1>1, AppInvariant, PTL

\* No method of the pool runs while close or configure hold a.mu, nor on a
\* pool that was dropped, for any number of threads.
THEOREM CallsMeetTheirPool == Spec => []NoCallOnDroppedPool
<1>1. AppInv => NoCallOnDroppedPool
  BY ThreadsAssumption
     DEF AppInv, AppTypeOK, SharedAt, ExclusiveAt, OneWriter, MethodAt,
         NoCallOnDroppedPool
<1>2. QED
  BY <1>1, AppInvariant, PTL

\* Handlers of the pool never overlap: what ZenPool models by single steps.
THEOREM Atomicity == Spec => []HandlersAreAtomic
<1>1. AppInv => HandlersAreAtomic
  BY DEF AppInv, MethodAt, HandlersAreAtomic
<1>2. QED
  BY <1>1, AppInvariant, PTL

\* A pool whose handler panicked is closed when the panic has been answered.
THEOREM PanicsClose == Spec => []PanicClosesPool
<1>1. AppInv => PanicClosesPool
  BY DEF AppInv
<1>2. QED
  BY <1>1, AppInvariant, PTL

\* The application never holds the state directory without a pool to use it.
THEOREM DirectoryReturned == Spec => []NeverLocksItselfOut
<1>1. AppInv => NeverLocksItselfOut
  BY DEF AppInv
<1>2. QED
  BY <1>1, AppInvariant, PTL

\* configure goes back to an older configuration only when another reload was
\* installed between its read of the file and its turn under a.mu.
THEOREM ReloadOrder == Spec => ReloadsInOrder
<1>1. ASSUME AppInv, NEW t \in Threads, Configure(t), version' < version
      PROVE  overtaken[t]
  <2>1. version' \in {0, version, arg[t]} /\ version' # Unreadable
    BY <1>1, VersionsAssumption
       DEF AppInv, AppTypeOK, Configure, Refuse, Reconfigure, Register, Faulted
  <2>2. pool = NoPool => version = 0
    BY <1>1 DEF AppInv, NothingKnown
  <2>3. pool # NoPool => version' \in {version, arg[t]}
    BY <1>1 DEF Configure, Refuse, Reconfigure, Register
  <2>4. version' = arg[t] /\ arg[t] \in 1..MaxVersion
    BY <1>1, <2>1, <2>2, <2>3, VersionsAssumption
       DEF AppInv, AppTypeOK, Configure
  <2>5. QED
    BY <1>1, <2>4, VersionsAssumption DEF AppInv, AppTypeOK, Reads
<1>2. AppInv /\ [Next]_vars
        => [\A t \in Threads :
              Configure(t) /\ version' < version => overtaken[t]]_vars
  BY <1>1
<1>3. QED
  BY <1>2, AppInvariant, PTL DEF Spec, ReloadsInOrder

-----------------------------------------------------------------------------
(***************************************************************************)
(* No deadlock.                                                            *)
(***************************************************************************)

\* Nobody holds or waits for a lock at first.
LEMMA InitHeld == Init => Held
  BY DEF Init, Held

\* RLock leaves nobody behind: its caller has a.mu, or waits behind a writer.
LEMMA RLockHeld ==
    ASSUME Held, AppTypeOK, NEW t \in Threads, RLock(t), UNCHANGED <<pmu, obj>>,
           NEW from \in {"idle", "recover"}, NEW to \in {"check", "faulting"},
           Goto(t, from, to)
    PROVE  Held'
<1>1. \A u \in Threads :
         pc'[u] \in {"check", "faulting"} => u \in readers' \cup waiting'
  BY DEF Held, AppTypeOK, RLock
<1>2. waiting' # {} => pending' # NoThread \/ writer' # NoThread
  BY DEF Held, RLock
<1>3. \A g \in Pools :
         pmu'[g] # NoThread => pc'[pmu'[g]] = "inside" /\ obj'[pmu'[g]] = g
  BY DEF Held, AppTypeOK
<1> QED
  BY <1>1, <1>2, <1>3 DEF Held

\* A thread that is in no method gives a.mu back, and its call is over.
LEMMA RUnlockHeld ==
    ASSUME Held, AppTypeOK, NEW t \in Threads, RUnlock(t),
           UNCHANGED <<pmu, obj>>, NEW from \in {"check", "faulting"},
           Goto(t, from, "idle")
    PROVE  Held'
  BY DEF Held, AppTypeOK, RUnlock

\* Unlock lets everybody in who has waited.
LEMMA UnlockHeld ==
    ASSUME Held, AppInv, NEW t \in Threads, Unlock, UNCHANGED <<pmu, obj>>,
           NEW to \in {"idle", "recover"}, Goto(t, "exclusive", to)
    PROVE  Held'
<1>0. AppTypeOK /\ readers = {}
  BY ThreadsAssumption DEF AppInv, AppTypeOK, ExclusiveAt, OneWriter
<1>1. \A u \in Threads :
         pc'[u] \in {"check", "faulting"} => u \in readers' \cup waiting'
  <2> SUFFICES ASSUME NEW u \in Threads, pc'[u] \in {"check", "faulting"}
               PROVE  u \in readers'
    OBVIOUS
  <2>1. pc[u] = pc'[u] /\ u \in readers \cup waiting
    BY <1>0 DEF Held, AppTypeOK
  <2> QED
    BY <1>0, <2>1 DEF Unlock
<1>2. waiting' # {} => pending' # NoThread \/ writer' # NoThread
  BY DEF Unlock
<1>3. \A g \in Pools :
         pmu'[g] # NoThread => pc'[pmu'[g]] = "inside" /\ obj'[pmu'[g]] = g
  BY <1>0 DEF Held, AppTypeOK
<1> QED
  BY <1>1, <1>2, <1>3 DEF Held

\* Whoever begins a reload or a shutdown holds nothing yet.
LEMMA BeginHeld ==
    ASSUME Held, AppTypeOK, NEW t \in Threads, Goto(t, "idle", "lock"),
           UNCHANGED <<lockVars, pmu, obj>>
    PROVE  Held'
  BY DEF Held, AppTypeOK

\* Every step keeps it.
LEMMA NextHeld ==
    ASSUME AppInv, Held, [Next]_vars
    PROVE  Held'
<1>1. AppTypeOK
  BY DEF AppInv
<1>2. ASSUME NEW t \in Threads, BeginHandler(t) \/ BeginFailClosed(t)
      PROVE  Held'
  BY <1>1, <1>2, RLockHeld DEF BeginHandler, BeginFailClosed
<1>3. ASSUME NEW t \in Threads,
             NotInitialized(t) \/ Answer(t) \/ FailClosed(t)
      PROVE  Held'
  BY <1>1, <1>3, RUnlockHeld DEF NotInitialized, Answer, FailClosed
<1>4. ASSUME NEW t \in Threads, BeginConfigure(t) \/ BeginExclusive(t)
      PROVE  Held'
  BY <1>1, <1>4, BeginHeld DEF BeginConfigure, BeginExclusive
<1>5. ASSUME NEW t \in Threads,
             \/ Configure(t) \/ ConfigurePanics(t)
             \/ Close(t) \/ RegisterManagement(t)
      PROVE  Held'
  BY <1>5, UnlockHeld
     DEF Configure, ConfigurePanics, Close, RegisterManagement
<1>6. ASSUME NEW t \in Threads, Announce(t) \/ Acquire(t) PROVE Held'
  BY <1>1, <1>6, ThreadsAssumption DEF Held, AppTypeOK, Announce, Acquire
<1>7. ASSUME NEW t \in Threads, EnterMethod(t) PROVE Held'
  BY <1>1, <1>7 DEF Held, AppTypeOK, EnterMethod
<1>8. ASSUME NEW t \in Threads, PoolLock(t) PROVE Held'
  BY <1>1, <1>8 DEF Held, AppTypeOK, PoolLock
<1>9. ASSUME NEW t \in Threads, LeaveMethod(t) PROVE Held'
  <2>1. pmu[obj[t]] = t /\ obj[t] \in Pools
    BY <1>9, ThreadsAssumption DEF AppInv, AppTypeOK, MethodAt, LeaveMethod
  <2>2. \A u \in Threads :
           pc'[u] \in {"check", "faulting"} => u \in readers' \cup waiting'
    BY <1>1, <1>9 DEF Held, AppTypeOK, LeaveMethod, RUnlock
  <2>3. waiting' # {} => pending' # NoThread \/ writer' # NoThread
    BY <1>9 DEF Held, LeaveMethod, RUnlock
  <2>4. \A g \in Pools :
           pmu'[g] # NoThread => pc'[pmu'[g]] = "inside" /\ obj'[pmu'[g]] = g
    BY <1>1, <1>9, <2>1 DEF Held, AppTypeOK, LeaveMethod
  <2> QED
    BY <2>2, <2>3, <2>4 DEF Held
<1>10. CASE Edit \/ UNCHANGED vars
  BY <1>10 DEF Held, Edit, vars
<1> QED
  BY <1>2, <1>3, <1>4, <1>5, <1>6, <1>7, <1>8, <1>9, <1>10
     DEF Next, Begin, Step, Contend

\* A thread that waits for nobody can go on.
LEMMA RunsOrWaits ==
    ASSUME AppInv, Held, NEW t \in Threads, WaitsFor(t) = {}
    PROVE  Runs(t)
<1>1. AppTypeOK /\ SharedAt(t) /\ ExclusiveAt(t) /\ MethodAt(t)
  BY DEF AppInv
<1>2. t \notin waiting
  <2> SUFFICES ASSUME t \in waiting PROVE FALSE
    OBVIOUS
  <2>1. pending \notin Threads /\ writer \notin Threads
    BY DEF WaitsFor
  <2> QED
    BY <1>1, <2>1 DEF Held, AppTypeOK
<1>3. pc[t] \in {"check", "faulting"} => t \in readers
  BY <1>2 DEF Held
<1>4. pc[t] = "lock" => pending = NoThread /\ writer = NoThread
  BY <1>1 DEF WaitsFor, AppTypeOK
<1>5. pc[t] = "drain" => readers = {}
  BY <1>1 DEF WaitsFor, AppTypeOK
<1>6. pc[t] = "plock" => pmu[obj[t]] = NoThread
  BY <1>1 DEF WaitsFor, AppTypeOK, MethodAt
<1>7. pc[t] \in {"faulting", "exclusive"} /\ pool # NoPool
        => pmu[pool] = NoThread
  BY <1>1, <1>3 DEF WaitsFor, AppTypeOK
<1> QED
  BY <1>3, <1>4, <1>5, <1>6, <1>7 DEF Runs

\* Whoever holds p.mu is inside a method, and waits for nobody.
LEMMA HolderWaitsForNobody ==
    ASSUME AppInv, Held, NEW g \in Pools, pmu[g] # NoThread
    PROVE  /\ pmu[g] \in Threads /\ pc[pmu[g]] = "inside"
           /\ WaitsFor(pmu[g]) = {}
<1>1. pmu[g] \in Threads /\ pc[pmu[g]] = "inside"
  BY DEF AppInv, AppTypeOK, Held
<1>2. pmu[g] \notin waiting
  BY <1>1 DEF AppInv, SharedAt
<1> QED
  BY <1>1, <1>2 DEF WaitsFor

\* A thread with a.mu waits at most for the one that holds p.mu.
LEMMA OwnerWaitsForHolder ==
    ASSUME AppInv, Held, NEW t \in Threads, t \in readers \/ pc[t] = "exclusive",
           NEW u \in WaitsFor(t)
    PROVE  u \in Threads /\ pc[u] = "inside" /\ WaitsFor(u) = {}
<1>1. AppTypeOK /\ SharedAt(t) /\ ExclusiveAt(t) /\ MethodAt(t)
  BY DEF AppInv
<1>2. t \notin waiting
        /\ pc[t] \in {"check", "plock", "inside", "faulting", "exclusive"}
  BY <1>1 DEF SharedAt
<1>3. PICK g \in Pools : u = pmu[g] /\ u # NoThread
  <2>1. u # NoThread
    BY ThreadsAssumption DEF WaitsFor
  <2>2. CASE pc[t] = "plock" /\ u = pmu[obj[t]]
    BY <1>1, <2>1, <2>2 DEF MethodAt, AppTypeOK
  <2>3. CASE pool # NoPool /\ u = pmu[pool]
    BY <1>1, <2>1, <2>3 DEF AppTypeOK
  <2> QED
    BY <1>2, <2>2, <2>3 DEF WaitsFor
<1> QED
  BY <1>3, HolderWaitsForNobody

\* A writer, announced or not yet, waits for readers, which wait at most for
\* the one that holds p.mu.
LEMMA WriterWaits ==
    ASSUME AppInv, Held, NEW t \in {pending, writer} \ {NoThread}
    PROVE  /\ t \in Threads /\ pc[t] \in {"drain", "exclusive"}
           /\ \A u \in WaitsFor(t) :
                 /\ u \in Threads /\ pc[u] # "idle"
                 /\ \A v \in WaitsFor(u) :
                       v \in Threads /\ WaitsFor(v) = {}
<1>1. t \in Threads /\ pc[t] \in {"drain", "exclusive"} /\ t \notin waiting
  BY DEF AppInv, AppTypeOK, ExclusiveAt, SharedAt
<1>2. CASE pc[t] = "drain"
  <2>1. WaitsFor(t) \subseteq readers
    BY <1>1, <1>2 DEF WaitsFor
  <2>2. \A u \in readers : u \in Threads /\ pc[u] # "idle"
    BY DEF AppInv, AppTypeOK, SharedAt
  <2> QED
    BY <1>1, <2>1, <2>2, OwnerWaitsForHolder
<1>3. CASE pc[t] = "exclusive"
  BY <1>1, <1>3, OwnerWaitsForHolder
<1> QED
  BY <1>1, <1>2, <1>3

\* No two or more threads wait for each other, for any number of them, and no
\* blocked reader is forgotten: a chain of waits for a.mu and p.mu ends, after
\* three at most, at a thread that can go on.
THEOREM DeadlockFree == Spec => []NoDeadlock
<1>1. AppInv /\ Held /\ [Next]_vars => AppInv' /\ Held'
  BY NextInv, NextHeld
<1>2. ASSUME AppInv, Held PROVE NoDeadlock
  <2> SUFFICES ASSUME NEW t \in Threads
               PROVE  \A u \in WaitsFor(t) :
                        /\ pc[u] # "idle"
                        /\ \A v \in WaitsFor(u) :
                              \A w \in WaitsFor(v) : WaitsFor(w) = {}
    BY <1>2, RunsOrWaits DEF NoDeadlock
  <2>1. CASE pc[t] = "lock" \/ t \in waiting
    <3>1. WaitsFor(t) \subseteq {pending, writer} \ {NoThread}
      BY <1>2, <2>1, ThreadsAssumption DEF WaitsFor, AppInv, SharedAt
    <3> QED
      BY <1>2, <3>1, WriterWaits
  <2>2. CASE t \in readers \/ pc[t] = "exclusive"
    BY <1>2, <2>2, OwnerWaitsForHolder
  <2>3. CASE pc[t] = "drain"
    <3>1. t \in {pending, writer} \ {NoThread}
      BY <1>2, <2>3, ThreadsAssumption DEF AppInv, ExclusiveAt
    <3> QED
      BY <1>2, <3>1, WriterWaits
  <2>4. CASE pc[t] \in {"idle", "recover"} /\ t \notin waiting
    BY <2>4 DEF WaitsFor
  <2>5. \/ pc[t] \in {"lock", "exclusive", "drain"} \/ t \in waiting
        \/ t \in readers \/ pc[t] \in {"idle", "recover"}
    BY <1>2 DEF AppInv, AppTypeOK, SharedAt, Held
  <2> QED
    BY <2>1, <2>2, <2>3, <2>4, <2>5
<1> QED
  BY <1>1, <1>2, InitInv, InitHeld, PTL DEF Spec
=============================================================================
