---------------------------- MODULE Application ----------------------------
(***************************************************************************)
(* The application (dispatch.go) and the boundary it is called through     *)
(* (main.go): host threads that call the plugin at the same time, the lock *)
(* a.mu around the pool pointer, the pool's own lock p.mu, configurations  *)
(* read before a.mu is taken, shutdowns under calls in progress, and       *)
(* panics that zen_plugin_call recovers from.                              *)
(*                                                                         *)
(* This is the level below ZenPool, where a handler and a reconfiguration  *)
(* are one step each: here they are several, and the pool's content is     *)
(* left out.  Saves succeed; what failing ones do is ZenPool's subject.    *)
(***************************************************************************)
EXTENDS Naturals, FiniteSets

CONSTANTS
    Threads,     \* host threads that may be inside the plugin
    Pools,       \* identities for pools, reused when nobody knows them
    MaxVersion,  \* bound on the edits of the configuration file
    NoThread,    \* a lock that is free
    NoPool       \* a.p = nil

ASSUME ThreadsAssumption == NoThread \notin Threads /\ NoPool \notin Pools

ASSUME VersionsAssumption == MaxVersion \in Nat \ {0}

\* readConfiguration returned an error.
Unreadable == MaxVersion + 1

VARIABLES
    pc,        \* where each thread is; "idle" is outside of the plugin
    arg,       \* the version that a thread in configure has read, else 0
    obj,       \* the pool whose method a thread is in
    readers, waiting,  \* a.mu: shared holders, and readers that are blocked
    pending, writer,   \* a.mu: the writer that readers wait for, the holder
    pmu,       \* p.mu of each pool
    pool,      \* a.p
    store,     \* a.p.store # nil
    fault,     \* a.p.fault # ""
    version,   \* the configuration a.p has, 0 for none
    flock,     \* this process has the lock of the state directory
    file,      \* the version of the configuration file
    panicked,  \* history: a.p panicked since it last accepted a configuration
    overtaken  \* history: another configuration was installed after the read

threadVars == <<pc, arg, obj, overtaken>>
lockVars == <<readers, waiting, pending, writer>>
poolVars == <<pool, store, fault, version, flock, panicked>>
vars == <<threadVars, lockVars, pmu, poolVars, file>>

Init ==
    /\ pc = [t \in Threads |-> "idle"]
    /\ arg = [t \in Threads |-> 0]
    /\ overtaken = [t \in Threads |-> FALSE]
    /\ obj = [t \in Threads |-> NoPool]
    /\ readers = {} /\ waiting = {} /\ pending = NoThread /\ writer = NoThread
    /\ pmu = [g \in Pools |-> NoThread]
    /\ pool = NoPool /\ store = FALSE /\ fault = FALSE /\ version = 0
    /\ flock = FALSE /\ panicked = FALSE
    /\ file = 1

Goto(t, from, to) == pc[t] = from /\ pc' = [pc EXCEPT ![t] = to]

-----------------------------------------------------------------------------
(***************************************************************************)
(* sync.RWMutex.  A writer announces itself, which blocks new readers, and *)
(* waits for the readers there are; when it unlocks, the blocked readers   *)
(* come next.                                                              *)
(***************************************************************************)
RLock(t) ==
    /\ IF pending = NoThread /\ writer = NoThread
       THEN readers' = readers \cup {t} /\ UNCHANGED waiting
       ELSE waiting' = waiting \cup {t} /\ UNCHANGED readers
    /\ UNCHANGED <<pending, writer>>

RUnlock(t) ==
    readers' = readers \ {t} /\ UNCHANGED <<waiting, pending, writer>>

Announce(t) ==
    /\ Goto(t, "lock", "drain")
    /\ pending = NoThread /\ writer = NoThread
    /\ pending' = t
    /\ UNCHANGED <<arg, obj, overtaken, readers, waiting, writer, pmu, poolVars,
                   file>>

\* Mutant: the lock is taken without waiting for the calls in progress.
AcquireAtOnce(t) ==
    /\ Goto(t, "drain", "exclusive")
    /\ writer' = t /\ pending' = NoThread
    /\ UNCHANGED <<arg, obj, overtaken, readers, waiting, pmu, poolVars, file>>

Acquire(t) ==
    /\ Goto(t, "drain", "exclusive")
    /\ readers = {}
    /\ writer' = t /\ pending' = NoThread
    /\ UNCHANGED <<arg, obj, overtaken, readers, waiting, pmu, poolVars, file>>

Unlock ==
    /\ readers' = waiting /\ waiting' = {} /\ writer' = NoThread
    /\ UNCHANGED pending

-----------------------------------------------------------------------------
(***************************************************************************)
(* call: the methods of the pool, under a.mu shared and p.mu.              *)
(***************************************************************************)
BeginHandler(t) ==
    /\ Goto(t, "idle", "check") /\ RLock(t)
    /\ UNCHANGED <<arg, obj, overtaken, pmu, poolVars, file>>

\* a.p = nil is answered zen_not_initialized.
NotInitialized(t) ==
    /\ t \in readers /\ pool = NoPool
    /\ Goto(t, "check", "idle") /\ RUnlock(t)
    /\ UNCHANGED <<arg, obj, overtaken, pmu, poolVars, file>>

\* A request that is malformed, unknown or needs nothing of the pool is
\* answered by call, or by management, itself.
Answer(t) ==
    /\ t \in readers /\ pool # NoPool
    /\ Goto(t, "check", "idle") /\ RUnlock(t)
    /\ UNCHANGED <<arg, obj, overtaken, pmu, poolVars, file>>

EnterMethod(t) ==
    /\ t \in readers /\ pool # NoPool
    /\ Goto(t, "check", "plock") /\ obj' = [obj EXCEPT ![t] = pool]
    /\ UNCHANGED <<arg, overtaken, lockVars, pmu, poolVars, file>>

\* Mutant: the method does not take p.mu.
PoolLockShared(t) ==
    /\ Goto(t, "plock", "inside")
    /\ UNCHANGED <<arg, obj, overtaken, lockVars, pmu, poolVars, file>>

PoolLock(t) ==
    /\ Goto(t, "plock", "inside")
    /\ pmu[obj[t]] = NoThread
    /\ pmu' = [pmu EXCEPT ![obj[t]] = t]
    /\ UNCHANGED <<arg, obj, overtaken, lockVars, poolVars, file>>

\* Mutant: a method that panics is called again.
LeaveMethodRetries(t) ==
    \/ /\ Goto(t, "inside", "idle") /\ RUnlock(t)
       /\ pmu' = [pmu EXCEPT ![obj[t]] = NoThread]
       /\ obj' = [obj EXCEPT ![t] = NoPool]
       /\ UNCHANGED <<arg, overtaken, poolVars, file>>
    \/ /\ Goto(t, "inside", "check")
       /\ pmu' = [pmu EXCEPT ![obj[t]] = NoThread]
       /\ obj' = [obj EXCEPT ![t] = NoPool]
       /\ UNCHANGED <<arg, overtaken, lockVars, poolVars, file>>

\* Mutant: p.mu is not unlocked by a deferred call, and a panic keeps it.
LeaveMethodHolding(t) ==
    /\ \/ /\ Goto(t, "inside", "idle") /\ UNCHANGED panicked
          /\ pmu' = [pmu EXCEPT ![obj[t]] = NoThread]
       \/ Goto(t, "inside", "recover") /\ panicked' = TRUE /\ UNCHANGED pmu
    /\ RUnlock(t) /\ obj' = [obj EXCEPT ![t] = NoPool]
    /\ UNCHANGED <<arg, overtaken, pool, store, fault, version, flock, file>>

\* The method returns, or panics with the pool half changed, which takes the
\* thread to the recover of zen_plugin_call.  The deferred Unlock of the
\* method and RUnlock of call come first either way.
LeaveMethod(t) ==
    /\ \/ Goto(t, "inside", "idle") /\ UNCHANGED panicked
       \/ Goto(t, "inside", "recover") /\ panicked' = TRUE
    /\ pmu' = [pmu EXCEPT ![obj[t]] = NoThread]
    /\ RUnlock(t) /\ obj' = [obj EXCEPT ![t] = NoPool]
    /\ UNCHANGED <<arg, overtaken, pool, store, fault, version, flock, file>>

-----------------------------------------------------------------------------
(***************************************************************************)
(* The recover of zen_plugin_call: failClosed.                             *)
(***************************************************************************)
BeginFailClosed(t) ==
    /\ Goto(t, "recover", "faulting") /\ RLock(t)
    /\ UNCHANGED <<arg, obj, overtaken, pmu, poolVars, file>>

\* Mutant: the panic is answered and the pool is left as it is.
FailClosedOmitted(t) ==
    /\ t \in readers
    /\ Goto(t, "faulting", "idle") /\ RUnlock(t)
    /\ UNCHANGED <<arg, obj, overtaken, pmu, poolVars, file>>

\* a.p may be another pool by now, or nil; p.mu is held for one assignment.
FailClosed(t) ==
    /\ t \in readers
    /\ pool # NoPool => pmu[pool] = NoThread
    /\ fault' = (pool # NoPool)
    /\ Goto(t, "faulting", "idle") /\ RUnlock(t)
    /\ UNCHANGED <<arg, obj, overtaken, pmu, pool, store, version, flock,
                   panicked, file>>

-----------------------------------------------------------------------------
(***************************************************************************)
(* plugin.register and plugin.reconfigure: configure.                      *)
(***************************************************************************)

\* Mutant: a file that cannot be read is replaced by the first one read.
BeginConfigureCached(t) ==
    /\ Goto(t, "idle", "lock")
    /\ \E v \in {file, 1} : arg' = [arg EXCEPT ![t] = v]
    /\ overtaken' = [overtaken EXCEPT ![t] = FALSE]
    /\ UNCHANGED <<obj, lockVars, pmu, poolVars, file>>

\* readConfiguration runs before a.mu is taken.
BeginConfigure(t) ==
    /\ Goto(t, "idle", "lock")
    /\ \E v \in {file, Unreadable} : arg' = [arg EXCEPT ![t] = v]
    /\ overtaken' = [overtaken EXCEPT ![t] = FALSE]
    /\ UNCHANGED <<obj, lockVars, pmu, poolVars, file>>

\* faultedPool
Faulted(g) ==
    pool' = g /\ store' = FALSE /\ fault' = TRUE /\ version' = 0
    /\ panicked' = FALSE

\* A pool that no thread knows: a new allocation.
Fresh == {g \in Pools : \A t \in Threads : obj[t] # g}

\* The configuration could not be read.
Refuse(t) ==
    /\ arg[t] = Unreadable
    /\ \/ /\ pool # NoPool /\ pmu[pool] = NoThread
          /\ fault' = TRUE /\ UNCHANGED <<pool, store, version, panicked>>
       \/ pool = NoPool /\ \E g \in Fresh : Faulted(g)
    /\ UNCHANGED flock

\* Mutant: what readConfiguration returned with an error is installed.
ReconfigureUnchecked(t) ==
    /\ pool # NoPool /\ pmu[pool] = NoThread
    /\ \/ /\ store
          /\ fault' = FALSE /\ version' = arg[t] /\ panicked' = FALSE
       \/ fault' = TRUE /\ UNCHANGED <<version, panicked>>
    /\ UNCHANGED <<pool, store, flock>>

\* Reconfigure of the pool there is; one without a store refuses, and so does
\* any when the state directory is another one.
Reconfigure(t) ==
    /\ arg[t] # Unreadable /\ pool # NoPool /\ pmu[pool] = NoThread
    /\ \/ /\ store
          /\ fault' = FALSE /\ version' = arg[t] /\ panicked' = FALSE
       \/ fault' = TRUE /\ UNCHANGED <<version, panicked>>
    /\ UNCHANGED <<pool, store, flock>>

\* newFileStore and newPool.  The lock is refused when this process has it;
\* otherwise opening or loading may fail, after which the store is closed.
Register(t) ==
    /\ arg[t] # Unreadable /\ pool = NoPool
    /\ \E g \in Fresh :
          \/ ~flock /\ flock' = TRUE
             /\ pool' = g /\ store' = TRUE /\ fault' = FALSE
             /\ version' = arg[t] /\ panicked' = FALSE
          \/ Faulted(g) /\ UNCHANGED flock

\* The thread is done with what it read; the others may have read before.
Forget(t) ==
    /\ arg' = [arg EXCEPT ![t] = 0]
    /\ overtaken' = [u \in Threads |->
                       /\ u # t /\ arg[u] # 0
                       /\ overtaken[u] \/ version' # version]

\* Under a.mu.
Configure(t) ==
    /\ arg[t] # 0
    /\ Refuse(t) \/ Reconfigure(t) \/ Register(t)
    /\ Goto(t, "exclusive", "idle") /\ Unlock /\ Forget(t)
    /\ UNCHANGED <<obj, pmu, file>>

\* configure panics; a.mu is unlocked by the deferred call.
ConfigurePanics(t) ==
    /\ arg[t] # 0 /\ panicked' = (pool # NoPool)
    /\ UNCHANGED <<obj, pmu, pool, store, fault, version, flock, file>>
    /\ Goto(t, "exclusive", "recover") /\ Unlock /\ Forget(t)

-----------------------------------------------------------------------------
(***************************************************************************)
(* plugin.shutdown and zen_plugin_shutdown (close), management.register.   *)
(***************************************************************************)
BeginExclusive(t) ==
    /\ Goto(t, "idle", "lock")
    /\ UNCHANGED <<arg, obj, overtaken, lockVars, pmu, poolVars, file>>

\* Mutant: the pool is dropped without closing its store.
CloseKeepsStore(t) ==
    /\ arg[t] = 0
    /\ pool' = NoPool /\ store' = FALSE /\ fault' = FALSE /\ version' = 0
    /\ panicked' = FALSE
    /\ Goto(t, "exclusive", "idle") /\ Unlock
    /\ UNCHANGED <<arg, obj, overtaken, pmu, flock, file>>

Close(t) ==
    /\ arg[t] = 0
    /\ pool # NoPool => pmu[pool] = NoThread
    /\ pool' = NoPool /\ store' = FALSE /\ fault' = FALSE /\ version' = 0
    /\ panicked' = FALSE
    /\ flock' = (flock /\ ~store)
    /\ Goto(t, "exclusive", "idle") /\ Unlock
    /\ UNCHANGED <<arg, obj, overtaken, pmu, file>>

\* The management prefix is set; it decides nothing here.
RegisterManagement(t) ==
    /\ arg[t] = 0
    /\ Goto(t, "exclusive", "idle") /\ Unlock
    /\ UNCHANGED <<arg, obj, overtaken, pmu, poolVars, file>>

-----------------------------------------------------------------------------
\* The operator edits the configuration file.
Edit ==
    /\ file < MaxVersion /\ file' = file + 1
    /\ UNCHANGED <<threadVars, lockVars, pmu, poolVars>>

Begin(t) == BeginHandler(t) \/ BeginConfigure(t) \/ BeginExclusive(t)

\* The steps that need nobody's leave, and those that wait for a mutex.
Step(t) ==
    \/ NotInitialized(t) \/ Answer(t) \/ EnterMethod(t) \/ LeaveMethod(t)
    \/ BeginFailClosed(t) \/ Acquire(t)
    \/ Configure(t) \/ ConfigurePanics(t) \/ Close(t) \/ RegisterManagement(t)

Contend(t) == Announce(t) \/ PoolLock(t) \/ FailClosed(t)

Next == Edit \/ \E t \in Threads : Begin(t) \/ Step(t) \/ Contend(t)

Spec == Init /\ [][Next]_vars

(***************************************************************************)
(* A thread inside the plugin keeps running.  A sync.Mutex is handed to    *)
(* whoever has waited for long (its starvation mode), so that a thread     *)
(* that can have it again and again gets it.                               *)
(***************************************************************************)
Fairness == \A t \in Threads : WF_vars(Step(t)) /\ SF_vars(Contend(t))

FairSpec == Spec /\ Fairness

-----------------------------------------------------------------------------
(***************************************************************************)
(* Properties.                                                             *)
(***************************************************************************)
Places == {"idle", "check", "plock", "inside", "recover", "faulting",
           "lock", "drain", "exclusive"}

\* The threads, both locks and the pool of the application have their types.
AppTypeOK ==
    /\ pc \in [Threads -> Places]
    /\ arg \in [Threads -> 0..Unreadable]
    /\ overtaken \in [Threads -> BOOLEAN]
    /\ obj \in [Threads -> Pools \cup {NoPool}]
    /\ readers \subseteq Threads /\ waiting \subseteq Threads
    /\ pending \in Threads \cup {NoThread} /\ writer \in Threads \cup {NoThread}
    /\ pmu \in [Pools -> Threads \cup {NoThread}]
    /\ pool \in Pools \cup {NoPool} /\ version \in 0..MaxVersion
    /\ store \in BOOLEAN /\ fault \in BOOLEAN
    /\ flock \in BOOLEAN /\ panicked \in BOOLEAN
    /\ file \in 1..MaxVersion

\* No method runs on a pool that close has dropped, or that configure is
\* changing: call keeps a.mu shared until the method has returned or panicked.
NoCallOnDroppedPool ==
    \A t \in Threads : obj[t] # NoPool
        => obj[t] = pool /\ \A u \in Threads : pc[u] # "exclusive"

\* A handler of the pool is one step for every other: whoever is inside is
\* alone with the pool, as ZenPool takes for granted (p.mu).
HandlersAreAtomic ==
    \A t, u \in Threads :
        pc[t] = "inside" /\ pc[u] = "inside" => t = u

\* A panic closes the pool: once the calls that panicked have been answered,
\* the pool that was left half changed refuses requests, unless a
\* configuration was accepted or the pool was replaced in between.  Before
\* that, between the unwinding and failClosed, it may still serve.
PanicClosesPool ==
    panicked => \/ fault
                \/ \E t \in Threads : pc[t] \in {"recover", "faulting"}

\* The application never locks itself out of its state directory: without a
\* pool it does not have the lock, so that newFileStore is not refused on its
\* own account (close, and the store.Close of a failed newPool).
NeverLocksItselfOut == pool = NoPool \/ ~store => ~flock

\* A reload never brings back an older configuration, unless another reload
\* was given a.mu between its read of the file and its own turn: configure
\* reads before it takes the lock, and of reloads that overlap the last to get
\* the lock wins.
ReloadsInOrder ==
    [][\A t \in Threads :
          Configure(t) /\ version' < version => overtaken[t]]_vars

\* What thread t is about to do has to wait for nobody.
Runs(t) ==
    /\ pc[t] \in {"check", "faulting"} => t \in readers
    /\ pc[t] = "lock" => pending = NoThread /\ writer = NoThread
    /\ pc[t] = "drain" => readers = {}
    /\ pc[t] = "plock" => pmu[obj[t]] = NoThread
    /\ pc[t] \in {"faulting", "exclusive"} /\ pool # NoPool
         => pmu[pool] = NoThread

\* The threads that hold what t waits for, or are ahead of it.
WaitsFor(t) ==
    {u \in Threads :
        \/ (pc[t] = "lock" \/ t \in waiting) /\ u \in {pending, writer}
        \/ pc[t] = "drain" /\ u \in readers
        \/ pc[t] = "plock" /\ u = pmu[obj[t]]
        \/ /\ pc[t] = "exclusive" \/ (pc[t] = "faulting" /\ t \in readers)
           /\ pool # NoPool /\ u = pmu[pool]}

\* No deadlock: whoever cannot go on waits for a thread inside the plugin, and
\* a chain of waits ends after three at a thread that can: a call or a reload
\* waits for a reload or shutdown that has announced itself, that for the
\* calls in progress, and those for the one that holds p.mu.
NoDeadlock ==
    \A t \in Threads :
        /\ Runs(t) \/ WaitsFor(t) # {}
        /\ \A u \in WaitsFor(t) : /\ pc[u] # "idle"
              /\ \A v \in WaitsFor(u) : \A w \in WaitsFor(v) : WaitsFor(w) = {}

\* Every call returns: no order of calls, shutdowns, reloads and panics
\* leaves a thread waiting for a.mu or p.mu for ever.
CallsReturn == \A t \in Threads : pc[t] # "idle" ~> pc[t] = "idle"

-----------------------------------------------------------------------------
(***************************************************************************)
(* The inductive invariant of ApplicationProofs.                           *)
(***************************************************************************)

\* Who holds a.mu, and who waits for it, is where the code says.
SharedAt(t) ==
    /\ t \in readers => pc[t] \in {"check", "plock", "inside", "faulting"}
    /\ t \in waiting => t \notin readers /\ pc[t] \in {"check", "faulting"}
    /\ pc[t] \in {"plock", "inside"} => t \in readers

ExclusiveAt(t) ==
    /\ pc[t] = "drain" <=> pending = t
    /\ pc[t] = "exclusive" <=> writer = t

OneWriter == /\ pending # NoThread => writer = NoThread
             /\ writer # NoThread => readers = {}

\* A thread in a method is in one of the current pool, and has its p.mu.
MethodAt(t) ==
    /\ obj[t] # NoPool <=> pc[t] \in {"plock", "inside"}
    /\ obj[t] # NoPool => obj[t] = pool
    /\ pc[t] = "inside" => pmu[obj[t]] = t

NothingKnown == pool = NoPool => ~store /\ ~panicked /\ version = 0

\* What a thread has read is not older than what is installed, unless it was
\* overtaken.
Reads == /\ version <= file
         /\ \A t \in Threads :
               arg[t] \in 1..MaxVersion
                 => arg[t] <= file /\ (~overtaken[t] => version <= arg[t])

\* For NoDeadlock: whoever called RLock has a.mu or waits behind a writer, and
\* p.mu is held by a thread inside a method of that pool.
Held == /\ \A t \in Threads :
              pc[t] \in {"check", "faulting"} => t \in readers \cup waiting
        /\ waiting # {} => pending # NoThread \/ writer # NoThread
        /\ \A g \in Pools :
              pmu[g] # NoThread => pc[pmu[g]] = "inside" /\ obj[pmu[g]] = g

AppInv ==
    /\ AppTypeOK
    /\ \A t \in Threads : SharedAt(t) /\ ExclusiveAt(t)
    /\ OneWriter
    /\ \A t \in Threads : MethodAt(t)
    /\ NothingKnown
    /\ PanicClosesPool /\ NeverLocksItselfOut
    /\ Reads
=============================================================================
