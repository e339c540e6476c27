# A TLA+ model of opencode-zen-pool

opencode-zen-pool is a native plugin of CLIProxyAPI. It owns a pool of API keys
for one upstream and decides, for every request the host is about to send,
which key pays for it. The rule is *drain, then switch*: one account is current
and serves everything until a failure of its own takes it out of service; then
the next eligible one, in configuration order, becomes current.

What makes this hard is that the host reports the outcome of a request some
time after the account was handed out, in any order, while the clock runs,
operators resume accounts, configurations are reloaded, saves fail and the
process dies. The decision, the cooldowns and the state file must stay
consistent through all of it. That is what this project models.

| File | What it is |
|---|---|
| `ZenPool.tla` | the pool: state, one action per handler, properties |
| `DrainSwitch.tla` | the pool as those who send requests see it, which `ZenPool` implements |
| `StateStore.tla`, `AtomicStore.tla` | the state file call by call, and the atomic store it implements |
| `Application.tla` | host threads, both locks, reloads, shutdowns, panics |
| `Classifier.tla` | what a response says about its account |
| `YAMLDecoder.tla` | from the nodes of a document to a map |
| `ConfigReader.tla`, `ConfigFile.tla` | from the map to the accounts, and both together |
| `MC*.tla`, `*.cfg` | small instances for TLC |
| `*Proofs.tla` | theorems about `ZenPool`, `StateStore`, `Application`, `Classifier` and `ConfigReader` for all values of the constants, checked by TLAPS |
| `PROJECT.json` | components, runs, mutants, map to source lines, findings, hazards |

Run `tlc -config pool_core.cfg MCZenPool` for a run and
`tlapm ZenPoolProofs.tla` for the proofs of a module.

The modules are levels of one system. `ZenPool` is the middle: a handler is one
step, a save is one of three outcomes, a reload is one step, an outcome has any
kind and reset, a configuration is any that can be returned. The other modules
open these up: `Application` is why a handler is one step, `StateStore` is why
a save has these outcomes, `Classifier` and `ConfigReader` compute what
`ZenPool` takes any value of.

## Inventory

Paths are those of the repository; its Go code is in `src/`.

| Component | State | Operations | In the models |
|---|---|---|---|
| pool (`pool.go`) | current account, cursor, a `keyState` per key, routes from auth IDs to keys, fault | `newPool`, `faultedPool`, `Pick`, `Observe`, `Guard`, `Resume`, `Reconfigure`, `Close`, `Status` | `ZenPool`: all but `Status`, which only reads |
| state store (`state.go`) | `state.json`, lock file | `newFileStore`, `Load`, `Save`, `Close` | `StateStore` by call, `ZenPool` by outcome |
| application (`dispatch.go`, `main.go`) | the pool pointer behind an RWMutex | `configure`, `close`, `failClosed`, dispatch of `call` | `Application` by lock, `ZenPool` as atomic steps |
| management (`management.go`) | the route prefix | registration, status, resume | `Application`; resume in `ZenPool` |
| classifier (`classifier.go`) | none | `classify`, `withReset` | `Classifier`; by range in `ZenPool` |
| configuration reader (`config.go`) | none | `readConfiguration` | `ConfigReader`; by range in `ZenPool` |
| YAML decoder (`yaml_native.go`) | none | `yamlMap` over libyaml's nodes | `YAMLDecoder` |
| ABI shim (`abi.c`, `abi.h`) | none | function table, buffers | no: glue |
| host patch, tests, ABI check | none | | no |

The host calls the plugin through one entry point, `zen_plugin_call`, from many
threads. `application.call` holds `a.mu` for reading around every handler of the
pool; `configure` and `close` hold it for writing. Each handler of the pool
holds `p.mu` from its first to its last access and calls the store while it
holds it. The only state shared with anyone else is the state file, which an
advisory lock reserves for one process.

What has to be right, by component:

* pool: never serve from an account that is cooling down; move only for the
  current account's own failure; late outcomes neither reopen nor extend what
  is closed; resume is final for what was started before it; outcomes stay
  attributed across reloads; the pool recovers by itself.
* state store: what a serving pool relies on is on disk; cooldowns on disk are
  not lost, not by a failed call, a crash, a loss of power or another process.
* application: a refused configuration or unreadable state leaves a closed
  pool, not an open or an absent one; handlers do not overlap and never meet a
  pool that was dropped; a panic closes the pool; every call returns.
* classifier: quota, auth, rate limit and transient failures are told apart; a
  reset lies ahead of the time observed and within a year, and the latest wins.
* configuration reader: one account per key; auth IDs as the host computes them,
  also for what is returned with an error.
* YAML decoder: cycles and bombs are refused, sharing is not; merges in order.

The hard behaviours, each at its line, are the `hazards` of `PROJECT.json`.

## ZenPool: the pool

### State

| Variable | Code |
|---|---|
| `now` | `p.now()`; 0 is the zero `time.Time` |
| `up` | `a.p != nil` |
| `cfg` | `p.cfg`: accounts in order, state directory, durations |
| `current`, `cursor`, `keys` | `p.state` |
| `byAuthID` | `p.byAuthID` |
| `store` | `p.store != nil` |
| `fault` | `p.fault` |
| `disk` | `state.json` in each directory; a missing file is the empty state |
| `reqs` | requests the host has sent whose outcome is not reported yet |
| `rejected`, `reqs[r].resumed` | history: the last configuration was refused; an acknowledged resume came after the request started |

Counters, labels and last-failure texts decide nothing and are left out, and so
is `LastSuccessAt`. `p.closed` is left out because `close` drops the pool under
the same exclusive lock that sets it.

### Actions

One handler is one step, because it runs under `p.mu`. The concurrency is in
the order of the handlers.

| Action | Code |
|---|---|
| `NewPool`, `RegisterUnavailable`, `RegisterInvalid` | `configure` without a pool: good state, state that cannot be opened or read, a configuration that cannot be read |
| `Reconfigure`, `ReconfigureRefused`, `ReconfigureInvalid` | `configure` with a pool |
| `PickFirst`, `PickCurrent`, `PickFailover` | `Pick`: no current account; current may serve; current found suspended or in quarantine |
| `Guard` | `Guard`, where it changes something |
| `ObserveDropped`, `ObserveSuccess`, `ObserveStale` | `Observe`: not the pool's request; success; failure before the barrier or older than the last |
| `ObserveQuota`, `ObserveAuth`, `ObserveRateLimit`, `ObserveTransient`, `ObserveOther` | the branches of its switch, each with the save at its end |
| `Resume` | `Resume` |
| `FailClosed` | the recover of `zen_plugin_call` |
| `Shutdown`, `Crash` | `Close`; the death of the process |
| `LoseResult` | an outcome reported while there is no pool |
| `Tick`, `StepBack` | the wall clock (environment) |

Calls that change nothing (a refused or unmanaged pick, a status read) are
stuttering steps. `Save` has three outcomes: the file is replaced, it is left
alone, or it is replaced and an error is returned because the directory could
not be synced. `Crash` is the death of the process, not of the machine: what was
renamed stays.

`Hazards` says what the environment does in an instance: storage errors, stops,
clock steps, panics, duplicated or undated usage records, reloads. Each run
switches on what its question needs.

### DrainSwitch: what the pool promises

`DrainSwitch` is a pool without files, configurations, faults, barriers or
restarts: the account that serves, the end of each account's cooldown and rate
limit, and the account of each request under way. A request is given only to the
serving account, or to one that takes over where there is none; a failure never
shortens a cooldown, and moves the pool if and only if it puts the serving
account into one; whoever takes over may serve, and nobody does only when nobody
may.

`ImplementsDrainSwitch` maps it to what a start would find in the file
(`Durable`), and not to the memory of the pool: that is what makes shutdowns,
crashes, starts, reloads, faults and panics stuttering steps (a crash also loses
the requests). It is meant for an environment in which saves succeed, the clock
runs forward and the configuration stays the same, also when it is reloaded. The
other properties say what is left when one of these fails.

## StateStore: the file

`StateStore` has one step per system call of `newFileStore`, `Load`, `Save` and
`Close`, for several processes on one directory. `lock` is the flock, `pc` the
call a process is about to make, `mem` its state, `temp` its temporary file,
`entry` the file that `state.json` leads to now, `entries` the files it may lead
to after a loss of power, and `acked` what saves that returned nil have written.
A state is the set of changes that went into it, so that "lost" is a subset
relation. Any call may fail (`Fail`), a process may die between any two calls
(`Crash`), and so may the machine (`PowerLoss`: renames that were not followed by
a directory sync may be undone, files that were not synced may be torn).

`AtomicStore` is what the pool relies on: one owner, a save that replaces the
file in one step, and acknowledged saves that last. `ImplementsAtomicStore` maps
the owner to the holder of the lock once it has loaded, and the file to the
content of `entry`: `Rename` publishes, `SyncDir` acknowledges, and everything
else in `Save` is invisible. In `ZenPool`, `Save` is the same three cases: failed
before the rename, failed after it, acknowledged.

## Application: threads and locks

`Application` splits what `ZenPool` takes as one step. A thread is outside the
plugin ("idle"), waits for `a.mu` shared ("check") or exclusively ("lock",
"drain"), waits for `p.mu` ("plock"), is inside a method, or is in the recover of
`zen_plugin_call` ("recover", "faulting"). `a.mu` is an RWMutex as Go has it: a
writer that waits blocks new readers, and readers that were blocked come before
the next writer. `configure` reads the file first (`BeginConfigure`) and installs
it under the lock (`Configure`: `Refuse`, `Reconfigure` or `Register`). A method
may panic with the pool half changed, and `configure` before it has changed
anything; the deferred unlocks run, and then `failClosed` takes the locks again.

Of the pool there is only its identity, whether it has a store and a fault, and
the version of its configuration. Saves succeed here, because what failing ones
do to the fault is the subject of `doc_rejected`: an `internal_error` is
overwritten in the same way as the fault of that run.

`overtaken` and `panicked` are history variables of `ReloadsInOrder` and
`PanicClosesPool`. Both properties say exactly how far the code goes: of reloads
that overlap, the last to get the lock wins, whatever it has read; and between a
panic and `failClosed` the pool may still serve.

## Classifier, ConfigReader, YAMLDecoder: pure code

This code keeps no state. Decisions are operators, and loops are steps, so that
what holds after each turn of a loop can be stated and proved. Texts are what the
code asks of them: a name it compares with, the set of phrases a message
contains, a number, a duration, a date or junk.

`Classifier` translates `classify` (`Judge`) and `withReset`, one step (`Hear`) per
reset signal in the order of its loops, and `FallBack` at its end. Its properties
compare the verdict with a reference that is not written like the code: the
latest of all moments that any signal may mean (`Ahead`), and the conditions of a
confirmed quota as one formula. The limits of the code (366 days, 1e9, 1e11, 1000
milliseconds) are constants with the same order.

`ConfigReader` is the loop of `readConfiguration` over providers and entries,
one step per entry, because what it has collected is used when it gives up.
`Digest` may collide; fingerprints do not. The host's numbering is external and
taken from the comment of `nextAuthID`: `Issues` are the entries that get an ID,
`HostID` is the ID without its number, and `HostNumber` counts the entries before
(`Earlier`) that share it, where the code keeps a counter per ID in a map. Of
`yamlMap` (`Parse`) only the verdict matters here.

`YAMLDecoder` translates `decode` as a recursive operator that threads the
budget. A document is a function from node numbers to nodes, so that aliases,
sharing and cycles are there. The reference (`Fine`, `Meanings`) defines the
acceptable documents by reachability, size and height, and the meaning of a key
by the order of merges. `ConfigFile` puts the decoder in front of the reader and
states its properties.

## Runs

For the pool, all constants not mentioned are: two keys in one directory, times
1 to 3, resets up to 1 or 2 ahead, an auth suspension of 2 and other fallbacks
of 1.

| Run | Instance | Shows |
|---|---|---|
| `pool_core` | 2 requests; success, quota, auth; stops | `TypeOK`; `CurrentNeverCooling`: the current account is never cooling; `RetryNeverLate`: no refusal asks to wait longer than an account needs; `ExhaustedGenerationIsClosed`: until its reset an exhausted record changes only by a resume; `ResumeSticks`: no outcome of a request from before a resume has an effect, across restarts; `ImplementsDrainSwitch`: the pool behaves like one that has no file and never stops |
| `pool_order` | 3 keys, 2 requests; transient; outcomes repeated and undated | `DrainThenSwitch`: the pool leaves an account only for that account's own outcome (or, in `pool_reload`, when a reload takes it out or a clock step puts it back into cooldown), to one that may serve; `CurrentNeverCooling` |
| `pool_crash` | 1 request, times 1 and 2; two configurations; quotas, also reported twice; storage errors, reloads, stops | `CrashLosesNothing`: a serving pool restarted from its file has the state it had; `ServesOnlyWithStore`; `DurableCooldown`: a cooldown that has reached the file is never lost or shortened, there or in the pool on it, but by a resume |
| `pool_reload` | 4 configurations (a key disabled, behind another proxy, gone with another directory); reloads; panics; a clock that steps back | `KeysCoverAccounts`; `RejectedConfigFailsClosed`; `AttributionSurvivesReload`; `HandoutIsAccountable`, also in the failovers of `Pick` that only a clock step reaches; `DrainThenSwitch` under reloads and clock steps |
| `pool_live` | quota, rate limit, other failures; fairness | `RefusesOnlyIfNobodyCan`: no request is refused while an account may serve, but for a rate limit of the current account or one that was disabled while the plugin was down; `Recovers` |
| `store` | 2 processes, 3 changes | `StoreTypeOK`; `SurvivesPowerLoss`; `LockNotLeaked`; `NoTempAtRest`; `ImplementsAtomicStore` |
| `application` | 3 threads, 2 versions of the file; fairness | `AppTypeOK`; `NoCallOnDroppedPool`; `HandlersAreAtomic`; `PanicClosesPool`; `NeverLocksItselfOut`; `NoDeadlock`: a chain of threads that wait for each other ends at one that can go on; `ReloadsInOrder`; `CallsReturn`: no starvation either |
| `classifier` | every status the code tells apart, names in both places, up to two signals at and beside every limit | `QuotaIsConfirmed`; `LatestResetWins`; `ResetWithinYear` |
| `config` | documents of up to 8 nodes around a budget of 9 and a depth of 3; up to two providers and three entries | `DecodedIffFine`; `MergesInOrder`; `AccountsAreDistinct`; `AuthIDsMatchHost`; `AcceptsWholeProvider` |

Every property has a mutant in `PROJECT.json`: a plausible mistake in the code
under which TLC finds the property violated.

### Why the bounds are enough

Two keys give a current account and one to move to, and none when both are
cooling. Three are needed where it matters that the pool does *not* move: with
two, a search from the account that was left ends at the current one anyway, so
that `DrainThenSwitch` is checked with three, and with two only where reloads and
clock steps are what may move the pool. Two requests are needed for
reordering and for a late outcome of the account that was left; one request is
enough where only its own delay matters, or where it may be reported twice.
`pool_crash` has resets of 1 and 2, so that a second quota can end before the one
on disk: after a resume whose save failed it does, and is then rightly saved. Three instants give before, during and
after a cooldown, and a suspension of 2 outlives a request that was observed
late. `MaxKeys` stands for the 10000 keys of `decodeState`; it is 3, out of
reach.

In `store`, two processes are an owner and one that waits for the directory, and
three changes are one acknowledged, one published and one being saved. In
`application`, three threads are a call, a reload and another reload or a
shutdown, and the third is what waits behind a waiting writer; one pool identity
is enough because a new pool may have the old one's identity once no thread
knows it. In `classifier` and `config`, the values sit at each limit and beside
it, and the documents include cycles, sharing that exceeds the budget and
sharing that does not, and merges through lists and merges.

The theorems below do not depend on any of these bounds.

Requests are interchangeable, and the safety runs use that symmetry;
`pool_live` does not.

Deadlock is checked in every run but `classifier` and `config`, which end when
their input has been read. The others never stop, since a request can always be
sent, or its outcome reported, or the pool resumed.

### Fairness

`FairSpec` adds weak fairness of the clock, and of a pick and an outcome per
request. The code has no timer: recovery happens in the next call of `Pick`, so
that liveness can only mean "while the host keeps sending requests". That a
request ends with an outcome is the host's contract with `usage.handle`. No
fairness is assumed of `Resume`, reloads or restarts. Time stops at `MaxTime`,
so `Recovers` speaks of cooldowns that end by then.

`Application!FairSpec` assumes that a thread inside the plugin keeps running
(weak fairness of its steps), and strong fairness where it competes for a mutex:
a `sync.Mutex` is handed to whoever has waited for a millisecond, so that a
thread that can have it again and again gets it. Nothing is assumed of the host:
no call need ever be made. The RWMutex needs no more, since it prefers neither
side for long.

## Where the code and its documents disagree

Three runs expect a violation; each states what a document says. Details and
quotations are the `findings` of `PROJECT.json`.

* `doc_disable`: a key disabled and *restarted* stays current, and every request
  is refused although another key is healthy. `newPool` does not look at
  `Disabled`; `Reconfigure` does.
* `doc_rejected`: with storage errors, the fault of a refused configuration is
  overwritten by `state_write_failed` and then cleared by the next good save.
* `doc_late_quota`: a quota failure reported after a later failure of the same
  account is discarded.

Three more observations have no run of their own:

* Key states are never removed (`pool.go:86`), and the reader refuses more than
  10000 of them (`state.go:98`) while the writer does not: a pool that has seen
  that many keys writes a file that the next start refuses, and starts closed.
  `CrashLosesNothing` is about files below that limit.
* `retry_at` is the end of the first cooldown of any account, although an account
  may have several (`pool.go:216`), so that nobody may be able to serve then.
  `RetryNeverLate` is the half that holds. Quarantines are not looked at.
* After a clock step back, `Pick` and `Guard` change the current account without
  saving (`pool.go:248`, `pool.go:382`), and a crash undoes it: this is why
  `CrashSafety` below assumes a clock that runs forward.

The README also contradicts itself: its lines 149-150 and the comment of
`chooseLocked` say that only a confirmed quota response moves the pool, its line
176 that auth and transient failures do. The code, and so the model, follows
line 176.

## Proofs

### The pool

`ZenPoolProofs.tla` proves, for all sets of keys, auth IDs, directories and
requests, all configurations the reader can return and all bounds:

| Theorem | Assumes | Establishes |
|---|---|---|
| `TypeCorrect` | | `Spec => []TypeOK` |
| `NoMissingKeyState` | | `Spec => []KeysCoverAccounts` |
| `NoServiceWithoutStore` | | `Spec => []ServesOnlyWithStore` |
| `RetryInTime` | | `Spec => []RetryNeverLate` |
| `HandoutsAccountable` | | `Spec => HandoutIsAccountable` |
| `ReloadsKeepAttribution` | | `Spec => AttributionSurvivesReload` |
| `Drains` | | `Spec => DrainThenSwitch` |
| `RefusedStaysClosed` | `"storage" \notin Hazards` | `Spec => []RejectedConfigFailsClosed` |
| `NeverCooling` | `"clock" \notin Hazards` | `Spec => []CurrentNeverCooling` |
| `CrashSafety` | `"clock" \notin Hazards` | `Spec => []CrashLosesNothing` |
| `GenerationClosed` | `"clock" \notin Hazards` | `Spec => ExhaustedGenerationIsClosed` |
| `CooldownsLast` | `"clock" \notin Hazards` | `Spec => DurableCooldown` |
| `ResumesStick` | `"clock" \notin Hazards` | `Spec => ResumeSticks` |

The assumptions on constants are `ConfigsAssumption`, `AuthIDsAssumption` and
`ConstantsAssumption` of `ZenPool`: there is a configuration, each is one that
`readConfiguration` can return, no two keys have the same auth ID in any two of
them (`nextAuthID` hashes the key into it; a collision of its twelve digits is
left out), and no name is the empty string.

The argument, in order:

1. `Consistent == TypeOK /\ KeysCoverAccounts` is inductive
   (`InitConsistent`, `NextConsistent`). Neither half is so alone: the new value
   of `keys` has its type only if the auth ID that `Observe` looks up leads to an
   existing record, and that there is one needs the types of the files that
   `newPool` reads.
2. `Settled` says that neither the current account nor the one named by any
   state file is cooling, and that there is none without a pool. The files are
   needed because `newPool` takes the current account from one, and any save,
   also one reported as failed, may have replaced it. `ObserveSettled` is the
   core: an outcome that starts a cooldown of the current account moves the
   pool in the same step (`FailureEffect`), to an account that
   `ChooseIsEligible` shows to be free.
3. `NoFailover` follows from `Settled`: the unsaved failovers of `Pick` and
   `Guard` are dead code while the clock runs forward. This is why `CrashSafety`
   needs `Settled`; every other handler ends with a save, or leaves a fault
   (`SaveLockedSafe`), and `newPool` of a complete state is that state
   (`RestoreFixpoint`).
4. `ServesOnlyWithStore` is inductive by itself. `RejectedConfigFailsClosed` is
   so together with `fault # "state_write_failed"` (`StaysClosed`): that is the
   only fault `saveLocked` lifts, and without storage errors nothing sets it.
   With them the run `doc_rejected` has the counterexample.
5. `Drains` needs `Consistent` only. Three kinds of step move a running pool
   (`OnlyTheseMove`): `Observe`, for the current account's own failure
   (`ObserveDrains`); a reload, when the account is disabled or gone under the
   new configuration (`ReconfigureDrains`); and the unsaved failovers, when it is
   cooling (`FailoverDrains`), which by `NeverCooling` takes a clock step. What
   they move to is what `chooseLocked` found (`ChooseIsEligible`).
6. `Barriers` says that in memory and in every file the barrier of a record is
   no earlier than the end of its exhaustion, and that no request in flight
   started later than now. A failure that counts therefore belongs to an account
   whose exhaustion has ended (`CountedIsPast`), and its new end, being ahead,
   is later. `RecordSteps` collects what a step can do to a record in memory,
   `FileSteps` what it can do to a file: nothing, or the pool that runs on it
   writes its records. `GenerationClosed` and `CooldownsLast` follow, the latter
   with `FilesKnown`: a pool has a record of every account in its file.
7. `Attributed` says that `byAuthID` leads the auth IDs of the configuration to
   their accounts and no auth ID to a key it does not derive from. It does not
   depend on the clock or the storage; nor do the two theorems from it.
8. `NotesHold`, for `ResumesStick`: where an acknowledged resume was noted on a
   request, the barrier in the file, and in the pool on it, is later than the
   request's start, across restarts and moves to other directories and back.

The assumption on the clock cannot be dropped where it is made, as observed above.

### The promise of the pool

`DrainSwitchProofs.tla` proves, on top of these invariants and for all accounts,
requests, durations and hazards that are left:

| Theorem | Assumes | Establishes |
|---|---|---|
| `PoolRefinement` | `"clock" \notin Hazards`, `"storage" \notin Hazards`, `Configs = {NoConfig}` | `Spec => ImplementsDrainSwitch` |
| `RefusalsJustified` | `"clock" \notin Hazards` | `Spec => []RefusesOnlyIfNobodyCan` |

The invariant it adds is `Steady`. `InPool`: a pool with a store has in memory
what a start would find, after *every* step and not only without a fault, since
every handler that changes the state saves it (`SavedIsDurable`) and the unsaved
failovers are dead code (`NoFailover`). `PayersEnabled`: the account of every
request under way is enabled, so that `Observe` finds it (`OwnerIsPayer`) in
whichever pool there is by then. `SlackKeys`: a suspension or a quarantine is no
longer than the configured one from the last failure on. This is why a failure
that counts never shortens one although it may be reported late and the code
overwrites the old end without looking at it (`FailureLengthens`): it was
observed no earlier than the last failure, and the durations are the same. That
the exhaustion is not shortened is `CountedIsPast`. A reload with other durations
may shorten a suspension, which is one reason for the third assumption; the other
is that a reload may take accounts out of service.

`ChooseIsComplete` is the counterpart of `ChooseIsEligible`: `chooseLocked`
overlooks nobody, because counting on from any account modulo their number meets
all of them (`ProbesMeetAll`). Every action has a lemma that its step is one of
`DrainSwitch` or none.

`RefusalsJustified` is for all configurations, with reloads and storage errors:
by `Settled` the current account of a pool that refuses is not cooling, and if
there is none, or it is left, `ChooseIsComplete` has the search find whoever may
serve. It is the part of `Recovers` that is not about time. The account that was
disabled while the plugin was down is the exception that `doc_disable` shows.

### The store

`StateStoreProofs.tla`, for any number of processes and changes:

| Theorem | Establishes |
|---|---|
| `StoreTypes`, `PowerLossSafety`, `LockReturned`, `TempRemoved` | `Spec => []P` for `StoreTypeOK`, `SurvivesPowerLoss`, `LockNotLeaked`, `NoTempAtRest` |
| `StoreRefinement` | `Spec => ImplementsAtomicStore` |

The only assumption is `NamesAssumption`: "no owner" is not a process and "no
file" is not a file. The inductive invariant `StoreInv` says, besides types and
locks, what the temporary file is at each call (`TempAt`), that each file that
may be found is whole, synced, has what was acknowledged and no more than what is
published (`EntriesKept`), and that whoever uses the store has everything that is
published in memory, and after the rename exactly that (`MemAt`). The last is why
a save never loses another one's changes: its owner has loaded them under the
lock. `SurvivesPowerLoss` is not inductive without it. Each action has a lemma
for the invariant and one for the refinement.

### The application

`ApplicationProofs.tla`, for any number of threads, pools and versions:
`AppTypes`, `CallsMeetTheirPool`, `Atomicity`, `PanicsClose`, `DirectoryReturned`
(`Spec => []P` for `AppTypeOK`, `NoCallOnDroppedPool`, `HandlersAreAtomic`,
`PanicClosesPool`, `NeverLocksItselfOut`), `DeadlockFree`
(`Spec => []NoDeadlock`) and `ReloadOrder` (`Spec => ReloadsInOrder`). They
assume that "no thread" is not a thread and "no pool" not a pool, and that there
is a version.

The invariant `AppInv` relates the places of the threads to who holds and waits
for each lock (`SharedAt`, `ExclusiveAt`, `OneWriter`), and from that to the pool:
a thread in a method holds `a.mu` shared, so there is no writer, so the pool is
the one it looked up (`MethodAt`). For `ReloadsInOrder` it adds that what a thread
has read is no older than what is installed unless it was overtaken (`Reads`).

`NoDeadlock` needs a second invariant, `Held`: whoever has called `RLock` holds
`a.mu` or waits behind a writer, nobody waits to read when there is no writer
(the wake-up of `Unlock` is not lost), and `p.mu` is held by a thread inside a
method. From it: who holds `p.mu` waits for nobody (`HolderWaitsForNobody`), who
has `a.mu` waits at most for that one (`OwnerWaitsForHolder`), and a writer at
most for those (`WriterWaits`). `WaitsFor` and `Runs` speak of places and locks
instead of `ENABLED`; that a thread which can go on in this sense is able to
take a step is part of what `CallsReturn` checks on the instance.

### The classifier

`ClassifierProofs.tla`, for all responses with any number of signals:

| Theorem | Establishes |
|---|---|
| `LatestWins` | `Spec => []LatestResetWins` |
| `ResetsBounded` | `Spec => []ResetWithinYear` |
| `QuotasConfirmed` | `Spec => []QuotaIsConfirmed` |

They assume `LimitsAssumption`, the order of the limits in the code (a year in
seconds is less than the least number that is a date, seconds end below where
milliseconds begin, and the fallback is at most a year, as the reader ensures),
and `ResponsesAssumption`, the types of status and signals.

What a signal means is settled first (`SignalReads`): it is a moment of
`Readings` that lies ahead and within the year, and the only one, or there is
none. This needs the order of the limits, because `Retry-After` has up to three
readings: a number of seconds from now, a date in seconds and a date in
milliseconds exclude each other. The invariant `Inv` says that before signal k,
`Until` is 0 if none before it means such a moment, and otherwise the latest of
those moments (`LatestOf`); one step adds one signal to both sides.

### The configuration reader

`ConfigReaderProofs.tla`, for all files with any number of providers and entries,
any decoder and any digest, also one that collides:

| Theorem | Establishes |
|---|---|
| `DistinctAccounts` | `Spec => []AccountsAreDistinct` |
| `HostAgrees` | `Spec => []AuthIDsMatchHost` |
| `WholeProvider` | `Spec => []AcceptsWholeProvider` |

They assume `InputsAssumption`, that providers and entries have their fields. None
of the properties is inductive. The invariant `Inv` consists of

* `Counted`: the counter of every ID is the number of entries that share it among
  those the reader has passed (`Passed`), of whatever provider; a provider without
  entries counts once, when it is begun, and one that is off never. `CountedGrows`
  is the step of `nextAuthID`, by the cardinality of a set with one element more.
* `Collected`: the accounts are those of the entries read of the one managed
  provider begun so far, each with the ID of the host (`AccountOf`), and there are
  none before one was begun. `matches` agrees, which is what makes the second
  managed provider an error.
* `Numbered`: the counter of every ID that was given away has passed its number.
  This is why a new ID is distinct from all others even when digests collide
  (`NumberedGrows`); that keys are is the test of `Seen`.

### Only model-checked

`Recovers` and `CallsReturn`: liveness under fairness is out of the prover's
reach; the invariants closest to them, `RefusesOnlyIfNobodyCan` and `NoDeadlock`,
are proved. `DecodedIffFine` and `MergesInOrder`: what the recursive decoder computes
for every document would need induction over data. Every other property of a
passing run is proved.

## Not modelled

* `Status`, the text of refusals, counters and labels: they decide nothing.
* `managedLocked`, `managedModel` and `validateForwarding`: which requests are
  the pool's. The model's requests are, and they are well formed.
* Of `readConfiguration`, the plugin's own options, headers and models beyond
  their being usable; of `messageReset`, the regular expression.
* What a handler that panics had already changed: `Application` has the pool half
  changed as one fact, not what changed.
* `memoryStore`, which serves tests only, and the JSON of the state file.
* libyaml, the C shim, the host.

## Plan

Done: all components that carry decisions or state, and the theorems above. What
would add most next: a `DrainSwitch` whose accounts and durations change, so that
its refinement also covers reloads with other configurations.
