------------------------------ MODULE ZenPool ------------------------------
(***************************************************************************)
(* The drain-then-switch pool of the opencode-zen-pool plugin (pool.go),   *)
(* with the calls of dispatch.go that create, replace and drop it and the  *)
(* state file of state.go that outlives it.                                *)
(*                                                                         *)
(* Every handler holds p.mu from its first to its last access to the pool, *)
(* and application.configure and application.close hold a.mu exclusively,  *)
(* so one handler is one step.  The concurrency is in the order of the     *)
(* handlers: the host reports the outcome of a request through             *)
(* usage.handle some time after scheduler.pick handed the account out, in  *)
(* any order, while the clock runs and operators resume and reconfigure.   *)
(*                                                                         *)
(* Go's zero values are kept: "" is no account, no auth ID and no fault,   *)
(* and 0 is the zero time.Time.  Handlers that change nothing (a refused   *)
(* pick, an unmanaged request, a status read) are stuttering steps.        *)
(* Counters, labels and the last-failure texts decide nothing and are left *)
(* out; p.closed is left out because close() drops the pool under a.mu.    *)
(***************************************************************************)
EXTENDS Integers, Sequences, FiniteSets, FiniteSetsExt

CONSTANTS
    Fingerprints,  \* key hashes: the quota identities
    AuthIDs,       \* the host's auth IDs, one per key and proxy
    StateDirs,     \* directories that may hold state.json
    Configs,       \* the configurations the host may hand to the plugin
    Requests,      \* bound on the requests in flight: one slot each
    Outcomes,      \* the kinds of outcome (classify) a model reports
    MaxTime,       \* bound on the clock
    MaxReset,      \* bound on how far ahead an upstream reset may lie
    MaxKeys,       \* decodeState's limit on persisted keys (10000)
    Hazards        \* what the environment does in a model, see Hazard

(***************************************************************************)
(* "storage": opening, reading and writing the state file may fail;        *)
(* "stop": the plugin is shut down, or the host dies, and starts again;    *)
(* "clock": the wall clock may step back; "panic": a handler may panic;    *)
(* "usage": the host may report one outcome several times, and reports it  *)
(* without its request time; "reload": the configuration is reloaded, and  *)
(* may be unreadable.                                                      *)
(***************************************************************************)
Hazard == {"storage", "stop", "clock", "panic", "usage", "reload"}

\* classify's kinds; "failure" is its default.
Kinds == {"success", "quota", "auth", "rate_limit", "transient", "failure"}

(***************************************************************************)
(* An account (config.go).  AuthID is "" for an entry of a disabled        *)
(* provider, which is then itself Disabled.                                *)
(***************************************************************************)
Account == [Fingerprint : Fingerprints, AuthID : AuthIDs \cup {""},
            Disabled : BOOLEAN]

(***************************************************************************)
(* What readConfiguration can return.  Durations are at least one second.  *)
(* Keys are distinct, because a duplicate is an error, and an auth ID is   *)
(* derived from its key.                                                   *)
(***************************************************************************)
Configuration ==
    {c \in [Accounts : Seq(Account), StateDir : StateDirs,
            AuthSuspension : Nat \ {0}, RateFallback : Nat \ {0},
            TransientFallback : Nat \ {0}] :
        \A i \in 1..Len(c.Accounts) :
            /\ c.Accounts[i].AuthID = "" => c.Accounts[i].Disabled
            /\ \A j \in 1..Len(c.Accounts) :
                  \/ i = j
                  \/ /\ c.Accounts[i].Fingerprint # c.Accounts[j].Fingerprint
                     /\ c.Accounts[i].AuthID # c.Accounts[j].AuthID
                          \/ c.Accounts[i].AuthID = ""}

ASSUME ConfigsAssumption == Configs # {} /\ Configs \subseteq Configuration

\* Some configuration gives the key fp the auth ID a.
DerivedFrom(a, fp) ==
    \E c \in Configs : \E i \in 1..Len(c.Accounts) :
        c.Accounts[i].AuthID = a /\ c.Accounts[i].Fingerprint = fp

\* nextAuthID hashes the key into the auth ID: no two keys share one.
ASSUME AuthIDsAssumption ==
    \A a \in AuthIDs : \A fp, fq \in Fingerprints :
        DerivedFrom(a, fp) /\ DerivedFrom(a, fq) => fp = fq

ASSUME ConstantsAssumption ==
    /\ "" \notin Fingerprints \cup AuthIDs \cup StateDirs
    /\ MaxTime \in Nat \ {0} /\ MaxReset \in Nat /\ MaxKeys \in Nat
    /\ Hazards \subseteq Hazard /\ Outcomes \subseteq Kinds

(***************************************************************************)
(* The part of a keyState (state.go) that decides anything.                *)
(***************************************************************************)
KeyState == [ExhaustedUntil : Nat, SuspendedUntil : Nat,
             RateLimitedUntil : Nat, TransientUntil : Nat,
             IgnoreBefore : Nat, LastFailureAt : Nat]

FreshKey == [ExhaustedUntil |-> 0, SuspendedUntil |-> 0,
             RateLimitedUntil |-> 0, TransientUntil |-> 0,
             IgnoreBefore |-> 0, LastFailureAt |-> 0]

NoKeys == [fp \in {} |-> FreshKey]

\* persistedState: what Save writes and Load returns.
EmptyState == [Current |-> "", Cursor |-> "", Keys |-> NoKeys]

Faults == {"", "state_write_failed", "configuration_error",
           "configuration_or_state_error_restart_required",
           "state_unavailable_restart_required", "internal_error"}

NoConfig == CHOOSE c \in Configs : TRUE
NoRoutes == [a \in AuthIDs |-> ""]
Idle == [auth |-> "", at |-> 0, resumed |-> ""]

VARIABLES
    now,       \* p.now(): the wall clock
    up,        \* a.p # nil
    cfg,       \* p.cfg
    current,   \* p.state.Current
    cursor,    \* p.state.Cursor
    keys,      \* p.state.Keys, a map from fingerprints
    byAuthID,  \* p.byAuthID, "" where the map has no entry
    store,     \* p.store # nil
    fault,     \* p.fault
    disk,      \* state.json in each directory; a missing file is EmptyState
    reqs,      \* requests handed out whose outcome is not yet reported
    rejected   \* history: the last configuration handed over was refused

poolVars == <<up, cfg, current, cursor, keys, byAuthID, store, fault>>
vars == <<now, poolVars, disk, reqs, rejected>>

-----------------------------------------------------------------------------
(***************************************************************************)
(* Helpers of pool.go.                                                     *)
(***************************************************************************)

\* The fingerprints accountLocked finds, and those of them not disabled.
Configured(c) == {c.Accounts[i].Fingerprint : i \in 1..Len(c.Accounts)}
Enabled(c) == {c.Accounts[i].Fingerprint :
                  i \in {j \in 1..Len(c.Accounts) : ~c.Accounts[j].Disabled}}

AccountLocked(c, fp) ==
    c.Accounts[CHOOSE i \in 1..Len(c.Accounts) :
                  c.Accounts[i].Fingerprint = fp]

\* blockedLocked: why account fp may not serve at time t, "" if it may.
BlockedLocked(c, ks, fp, t) ==
    IF fp \notin Enabled(c) THEN "disabled"
    ELSE IF t < ks[fp].ExhaustedUntil THEN "exhausted"
    ELSE IF t < ks[fp].SuspendedUntil THEN "suspended"
    ELSE IF t < ks[fp].RateLimitedUntil THEN "rate_limited"
    ELSE IF t < ks[fp].TransientUntil THEN "transient"
    ELSE ""

\* The j-th account chooseLocked tries when it starts behind account after.
Probe(c, after, j) ==
    LET n == Len(c.Accounts)
        start == IF after \in Configured(c)
                 THEN CHOOSE i \in 1..n : c.Accounts[i].Fingerprint = after
                 ELSE 0
    IN  c.Accounts[((start + j) % n) + 1].Fingerprint

\* Mutant: the loop stops one account short, before the one it started from.
EligibleShort(c, ks, after, t) ==
    {j \in 0..(Len(c.Accounts) - 2) :
        BlockedLocked(c, ks, Probe(c, after, j), t) = ""}

\* The indices of chooseLocked's loop whose account is eligible.
Eligible(c, ks, after, t) ==
    {j \in 0..(Len(c.Accounts) - 1) :
        BlockedLocked(c, ks, Probe(c, after, j), t) = ""}

\* chooseLocked: the first eligible account behind after, or "".
ChooseLocked(c, ks, after, t) ==
    LET free == Eligible(c, ks, after, t)
    IN  IF free = {} THEN "" ELSE Probe(c, after, Min(free))

\* chooseLocked moves the cursor only when it finds an account.
CursorAfter(chosen, old) == IF chosen = "" THEN old ELSE chosen

\* Mutants: no keyState for an account that is added disabled; the routes of
\* auth IDs that the new configuration does not name are dropped.
InstallEnabled(c, ks) ==
    [fp \in DOMAIN ks \cup Enabled(c) |->
        IF fp \in DOMAIN ks THEN ks[fp] ELSE FreshKey]

RoutesNamed(c, old) ==
    [a \in AuthIDs |->
        IF \E i \in 1..Len(c.Accounts) : c.Accounts[i].AuthID = a
        THEN c.Accounts[CHOOSE i \in 1..Len(c.Accounts) :
                           c.Accounts[i].AuthID = a].Fingerprint
        ELSE ""]

\* installAccountsLocked: keys are added and never removed; an old auth ID
\* of a key that is still configured keeps its route.
Install(c, ks) ==
    [fp \in DOMAIN ks \cup Configured(c) |->
        IF fp \in DOMAIN ks THEN ks[fp] ELSE FreshKey]

Routes(c, old) ==
    [a \in AuthIDs |->
        IF \E i \in 1..Len(c.Accounts) : c.Accounts[i].AuthID = a
        THEN c.Accounts[CHOOSE i \in 1..Len(c.Accounts) :
                           c.Accounts[i].AuthID = a].Fingerprint
        ELSE IF old[a] \in Configured(c) THEN old[a] ELSE ""]

\* decodeState refuses a file with more keys than the limit; Save does not.
Loadable(s) == Cardinality(DOMAIN s.Keys) <= MaxKeys

\* newPool: the pool that starts from the persisted state s.
Restore(c, s) ==
    [Current |-> IF s.Current \in Configured(c) THEN s.Current ELSE "",
     Cursor |-> s.Cursor, Keys |-> Install(c, s.Keys)]

\* Mutant: the last end of a cooldown instead of the first.
RetryAtLast(c, ks, t) ==
    LET untils == UNION {{ks[fp].ExhaustedUntil, ks[fp].SuspendedUntil,
                          ks[fp].RateLimitedUntil} : fp \in Configured(c)}
        future == {u \in untils : u > t}
    IN  IF future = {} THEN 0 ELSE Max(future)

\* unavailableLocked: the retry_at of a refusal, 0 if there is none.
RetryAt(c, ks, t) ==
    LET untils == UNION {{ks[fp].ExhaustedUntil, ks[fp].SuspendedUntil,
                          ks[fp].RateLimitedUntil} : fp \in Configured(c)}
        future == {u \in untils : u > t}
    IN  IF future = {} THEN 0 ELSE Min(future)

-----------------------------------------------------------------------------
(***************************************************************************)
(* fileStore.Save, by its outcome: it replaces the file and returns nil,   *)
(* it fails before the rename and leaves the old file, or it fails after   *)
(* the rename (opening or syncing the directory) with the new file there.  *)
(***************************************************************************)
SaveOutcomes == IF "storage" \in Hazards THEN {"ok", "failed", "renamed"}
                                         ELSE {"ok"}

Written(dir, s, oc) == IF oc = "failed" THEN disk
                                        ELSE [disk EXCEPT ![dir] = s]

\* p.state
State == [Current |-> current, Cursor |-> cursor, Keys |-> keys]

\* Mutants: a failed save leaves no fault; a successful one clears any fault.
SaveLockedSilent(f, oc) ==
    /\ disk' = IF store' THEN Written(cfg'.StateDir, State', oc) ELSE disk
    /\ fault' = IF f = "state_write_failed" THEN "" ELSE f

SaveLockedHeals(f, oc) ==
    /\ disk' = IF store' THEN Written(cfg'.StateDir, State', oc) ELSE disk
    /\ fault' = IF ~store' THEN f
                ELSE IF oc # "ok" THEN "state_write_failed" ELSE ""

\* saveLocked, the last step of a handler that leaves the fault at f.
SaveLocked(f, oc) ==
    /\ disk' = IF store' THEN Written(cfg'.StateDir, State', oc) ELSE disk
    /\ fault' = IF ~store' THEN f
                ELSE IF oc # "ok" THEN "state_write_failed"
                ELSE IF f = "state_write_failed" THEN "" ELSE f

-----------------------------------------------------------------------------
(***************************************************************************)
(* plugin.register and plugin.reconfigure (application.configure).         *)
(***************************************************************************)

\* newPool over a file that newFileStore locks and Load reads.
NewPool(c) ==
    /\ ~up /\ Loadable(disk[c.StateDir])
    /\ LET s == Restore(c, disk[c.StateDir])
       IN  current' = s.Current /\ cursor' = s.Cursor /\ keys' = s.Keys
    /\ byAuthID' = Routes(c, NoRoutes)
    /\ up' = TRUE /\ cfg' = c /\ store' = TRUE /\ fault' = ""
    /\ rejected' = FALSE
    /\ UNCHANGED <<now, disk, reqs>>

\* Mutants: the faulted pool keeps the store it could not load, or has no fault.
FaultedPoolWrites(c, reason) ==
    /\ ~up
    /\ up' = TRUE /\ cfg' = c /\ store' = TRUE /\ fault' = reason
    /\ current' = "" /\ cursor' = "" /\ keys' = Install(c, NoKeys)
    /\ byAuthID' = Routes(c, NoRoutes)
    /\ UNCHANGED <<now, disk, reqs>>

FaultedPoolServes(c, reason) ==
    /\ ~up
    /\ up' = TRUE /\ cfg' = c /\ store' = FALSE /\ fault' = ""
    /\ current' = "" /\ cursor' = "" /\ keys' = Install(c, NoKeys)
    /\ byAuthID' = Routes(c, NoRoutes)
    /\ UNCHANGED <<now, disk, reqs>>

\* faultedPool: a pool without a store.
FaultedPool(c, reason) ==
    /\ ~up
    /\ up' = TRUE /\ cfg' = c /\ store' = FALSE /\ fault' = reason
    /\ current' = "" /\ cursor' = "" /\ keys' = Install(c, NoKeys)
    /\ byAuthID' = Routes(c, NoRoutes)
    /\ UNCHANGED <<now, disk, reqs>>

\* The state file is locked by another process, unreadable or invalid.
RegisterUnavailable(c) ==
    /\ "storage" \in Hazards \/ ~Loadable(disk[c.StateDir])
    /\ FaultedPool(c, "state_unavailable_restart_required")
    /\ rejected' = FALSE

\* readConfiguration failed before there was a pool, having read the first n
\* accounts.
RegisterInvalid(c, n) ==
    /\ FaultedPool([c EXCEPT !.Accounts = [i \in 1..n |-> c.Accounts[i]]],
                   "configuration_error")
    /\ rejected' = TRUE

\* readConfiguration failed: the old pool stays, and is faulted.
ReconfigureInvalid ==
    /\ up
    /\ fault' = "configuration_error" /\ rejected' = TRUE
    /\ UNCHANGED <<now, up, cfg, current, cursor, keys, byAuthID, store,
                   disk, reqs>>

\* Reconfigure returns an error before it touches the pool.
ReconfigureRefused(c) ==
    /\ up /\ (~store \/ c.StateDir # cfg.StateDir)
    /\ fault' = "configuration_or_state_error_restart_required"
    /\ rejected' = TRUE
    /\ UNCHANGED <<now, up, cfg, current, cursor, keys, byAuthID, store,
                   disk, reqs>>

\* Mutant: a reload chooses again although the current account is enabled.
ReconfigureChooses(c, oc) ==
    /\ up /\ store /\ c.StateDir = cfg.StateDir
    /\ cfg' = c /\ keys' = Install(c, keys) /\ byAuthID' = Routes(c, byAuthID)
    /\ LET next == ChooseLocked(c, Install(c, keys), cursor, now)
       IN  current' = next /\ cursor' = CursorAfter(next, cursor)
    /\ disk' = Written(c.StateDir, State', oc)
    /\ fault' = "" /\ rejected' = FALSE
    /\ UNCHANGED <<now, up, store, reqs>>

\* Reconfigure; when its save fails, configure faults the pool for good.
Reconfigure(c, oc) ==
    /\ up /\ store /\ c.StateDir = cfg.StateDir
    /\ cfg' = c /\ keys' = Install(c, keys) /\ byAuthID' = Routes(c, byAuthID)
    /\ IF current \in Enabled(c)
       THEN UNCHANGED <<current, cursor>>
       ELSE LET next == ChooseLocked(c, Install(c, keys), cursor, now)
            IN  current' = next /\ cursor' = CursorAfter(next, cursor)
    /\ disk' = Written(c.StateDir, State', oc)
    /\ fault' = IF oc = "ok" THEN ""
                ELSE "configuration_or_state_error_restart_required"
    /\ rejected' = (oc # "ok")
    /\ UNCHANGED <<now, up, store, reqs>>

-----------------------------------------------------------------------------
(***************************************************************************)
(* scheduler.pick (Pick).  listed says whether the host's candidates hold  *)
(* the chosen account's auth ID, not disabled.                             *)
(***************************************************************************)
\* Mutant: the answer carries the fingerprint instead of the auth ID.
HandOutKey(r, fp) ==
    reqs' = [reqs EXCEPT ![r] = [auth |-> fp, at |-> now, resumed |-> ""]]

HandOut(r, fp) ==
    reqs' = [reqs EXCEPT ![r] = [auth |-> AccountLocked(cfg, fp).AuthID,
                                 at |-> now, resumed |-> ""]]

Serving(r) == up /\ fault = "" /\ reqs[r] = Idle

\* Mutant: the choice is handed out before it is saved.
PickFirstUnsaved(r, listed, oc) ==
    /\ Serving(r) /\ current = ""
    /\ LET next == ChooseLocked(cfg, keys, cursor, now)
       IN  /\ next # ""
           /\ current' = next /\ cursor' = next
           /\ IF listed THEN HandOut(r, next) ELSE UNCHANGED reqs
    /\ UNCHANGED <<now, up, cfg, keys, byAuthID, store, fault, disk, rejected>>

\* There is no current account: choose one, and save before handing it out.
PickFirst(r, listed, oc) ==
    /\ Serving(r) /\ current = ""
    /\ LET next == ChooseLocked(cfg, keys, cursor, now)
       IN  /\ next # ""
           /\ current' = next /\ cursor' = next
           /\ IF listed /\ store /\ oc = "ok"
              THEN HandOut(r, next) ELSE UNCHANGED reqs
    /\ UNCHANGED <<now, up, cfg, keys, byAuthID, store, rejected>>
    /\ SaveLocked(fault, oc)

\* The current account may serve.
PickCurrent(r) ==
    /\ Serving(r) /\ current # ""
    /\ BlockedLocked(cfg, keys, current, now) = ""
    /\ HandOut(r, current)
    /\ UNCHANGED <<now, poolVars, disk, rejected>>

\* The current account is found suspended or in quarantine: the pool moves on
\* without saving, and has no current account when nobody else may serve.
FailoverUnsaved ==
    LET next == ChooseLocked(cfg, keys, current, now)
    IN  /\ current # ""
        /\ BlockedLocked(cfg, keys, current, now)
             \in {"suspended", "transient"}
        /\ current' = next /\ cursor' = CursorAfter(next, cursor)

\* Mutant: the candidates are searched for the account that was current.
PickFailoverOld(r, listed) ==
    /\ Serving(r) /\ FailoverUnsaved
    /\ IF listed /\ current' # "" THEN HandOut(r, current)
                                  ELSE UNCHANGED reqs
    /\ UNCHANGED <<now, up, cfg, keys, byAuthID, store, fault, disk, rejected>>

PickFailover(r, listed) ==
    /\ Serving(r) /\ FailoverUnsaved
    /\ IF listed /\ current' # "" THEN HandOut(r, current')
                                  ELSE UNCHANGED reqs
    /\ UNCHANGED <<now, up, cfg, keys, byAuthID, store, fault, disk, rejected>>

\* request.intercept_before (Guard) writes only when it fails over.
Guard ==
    /\ up /\ fault = "" /\ FailoverUnsaved
    /\ UNCHANGED <<now, up, cfg, keys, byAuthID, store, fault, disk, reqs,
                   rejected>>

-----------------------------------------------------------------------------
(***************************************************************************)
(* usage.handle (Observe).  ras is the record's RequestedAt, lat its       *)
(* Latency; a negative latency has the effect of one that ends after now.  *)
(* The record's base URL is the managed provider's.                        *)
(***************************************************************************)
RequestTimes(r) == {reqs[r].at} \cup (IF "usage" \in Hazards THEN {0} ELSE {})

Observed(ras, lat) == IF ras = 0 \/ ras + lat > now THEN now ELSE ras + lat

Owner(r) == byAuthID[reqs[r].auth]

\* The host reports the outcome of r, for the last time or not.
Reported(r) ==
    /\ up /\ reqs[r] # Idle
    /\ \/ reqs' = [reqs EXCEPT ![r] = Idle]
       \/ "usage" \in Hazards /\ UNCHANGED reqs
    /\ UNCHANGED <<now, up, cfg, byAuthID, store, rejected>>

\* There is no store, or the auth ID is not the pool's.
ObserveDropped(r) ==
    /\ Reported(r)
    /\ ~store \/ Owner(r) = ""
    /\ UNCHANGED <<current, cursor, keys, fault, disk>>

\* A success only counts.
ObserveSuccess(r, oc) ==
    /\ Reported(r) /\ store /\ Owner(r) # ""
    /\ UNCHANGED <<current, cursor, keys>>
    /\ SaveLocked(fault, oc)

\* A failure from before the barrier, or older than the last one recorded.
Stale(k, ras, observed) ==
    \/ k.IgnoreBefore # 0 /\ (ras = 0 \/ ras < k.IgnoreBefore)
    \/ observed < k.LastFailureAt

ObserveStale(r, ras, lat, oc) ==
    /\ Reported(r) /\ store /\ Owner(r) # ""
    /\ Stale(keys[Owner(r)], ras, Observed(ras, lat))
    /\ UNCHANGED <<current, cursor, keys>>
    /\ SaveLocked(fault, oc)

\* Mutant: a failure moves the pool whichever account is current.
FailureOfAny(r, ras, lat, k, moves, oc) ==
    LET fp == Owner(r)
        observed == Observed(ras, lat)
        ks == [keys EXCEPT ![fp] = [k EXCEPT !.LastFailureAt = observed]]
        next == ChooseLocked(cfg, ks, fp, now)
    IN  /\ Reported(r) /\ store /\ fp # ""
        /\ ~Stale(keys[fp], ras, observed)
        /\ keys' = ks
        /\ IF moves
           THEN current' = next /\ cursor' = CursorAfter(next, fp)
           ELSE UNCHANGED <<current, cursor>>
        /\ SaveLocked(fault, oc)

\* A failure that counts turns the owner's keyState into k; when it takes the
\* account out of service and that is the current one, the pool moves on.
Failure(r, ras, lat, k, moves, oc) ==
    LET fp == Owner(r)
        observed == Observed(ras, lat)
        ks == [keys EXCEPT ![fp] = [k EXCEPT !.LastFailureAt = observed]]
        next == ChooseLocked(cfg, ks, fp, now)
    IN  /\ Reported(r) /\ store /\ fp # ""
        /\ ~Stale(keys[fp], ras, observed)
        /\ keys' = ks
        /\ IF moves /\ current = fp
           THEN current' = next /\ cursor' = CursorAfter(next, fp)
           ELSE UNCHANGED <<current, cursor>>
        /\ SaveLocked(fault, oc)

\* Mutant: exhaustion sets no barrier.
ObserveQuotaOpen(r, ras, lat, until, oc) ==
    LET k == keys[Owner(r)]
    IN  IF until > now
        THEN Failure(r, ras, lat, [k EXCEPT !.ExhaustedUntil = until], TRUE, oc)
        ELSE Failure(r, ras, lat, k, FALSE, oc)

ObserveQuota(r, ras, lat, until, oc) ==
    LET k == keys[Owner(r)]
    IN  IF until > now
        THEN Failure(r, ras, lat, [k EXCEPT !.ExhaustedUntil = until,
                                            !.IgnoreBefore = until], TRUE, oc)
        ELSE Failure(r, ras, lat, k, FALSE, oc)

\* Mutant: "401/403 suspension without failover", as registration() has it.
ObserveAuthStays(r, ras, lat, oc) ==
    Failure(r, ras, lat,
            [keys[Owner(r)] EXCEPT !.SuspendedUntil =
                Observed(ras, lat) + cfg.AuthSuspension], FALSE, oc)

ObserveAuth(r, ras, lat, oc) ==
    Failure(r, ras, lat,
            [keys[Owner(r)] EXCEPT !.SuspendedUntil =
                Observed(ras, lat) + cfg.AuthSuspension], TRUE, oc)

ObserveRateLimit(r, ras, lat, reset, oc) ==
    LET k == keys[Owner(r)]
        until == IF reset = 0 THEN Observed(ras, lat) + cfg.RateFallback
                              ELSE reset
    IN  Failure(r, ras, lat,
                IF until > k.RateLimitedUntil
                THEN [k EXCEPT !.RateLimitedUntil = until] ELSE k, FALSE, oc)

\* Mutant: the quarantine is recorded without moving on.
ObserveTransientStays(r, ras, lat, oc) ==
    Failure(r, ras, lat,
            [keys[Owner(r)] EXCEPT !.TransientUntil =
                Observed(ras, lat) + cfg.TransientFallback], FALSE, oc)

ObserveTransient(r, ras, lat, oc) ==
    Failure(r, ras, lat,
            [keys[Owner(r)] EXCEPT !.TransientUntil =
                Observed(ras, lat) + cfg.TransientFallback], TRUE, oc)

\* Any other failure: a 4xx that blames the request, not the account.
ObserveOther(r, ras, lat, oc) == Failure(r, ras, lat, keys[Owner(r)], FALSE, oc)

\* classify's reset times: never before the observed time.
ResetsAfter(ras, lat) == Observed(ras, lat)..(Observed(ras, lat) + MaxReset)

-----------------------------------------------------------------------------
(***************************************************************************)
(* management.handle, POST resume (Resume).  An acknowledged resume is     *)
(* noted on the requests that the account had started before it.           *)
(***************************************************************************)
\* Mutant: resume clears the cooldowns and the barrier with them.
ResumeOpen(fp, oc) ==
    /\ up /\ fp \in Enabled(cfg)
    /\ keys' = [keys EXCEPT ![fp] = [FreshKey EXCEPT
                    !.LastFailureAt = keys[fp].LastFailureAt]]
    /\ reqs' = [r \in Requests |->
                  IF store /\ oc = "ok" /\ reqs[r] # Idle /\ reqs[r].at < now
                     /\ Owner(r) = fp
                  THEN [reqs[r] EXCEPT !.resumed = cfg.StateDir]
                  ELSE reqs[r]]
    /\ UNCHANGED <<now, up, cfg, current, cursor, byAuthID, store, rejected>>
    /\ SaveLocked(fault, oc)

Resume(fp, oc) ==
    /\ up /\ fp \in Enabled(cfg)
    /\ keys' = [keys EXCEPT ![fp] = [FreshKey EXCEPT
                    !.IgnoreBefore = now,
                    !.LastFailureAt = keys[fp].LastFailureAt]]
    /\ reqs' = [r \in Requests |->
                  IF store /\ oc = "ok" /\ reqs[r] # Idle /\ reqs[r].at < now
                     /\ Owner(r) = fp
                  THEN [reqs[r] EXCEPT !.resumed = cfg.StateDir]
                  ELSE reqs[r]]
    /\ UNCHANGED <<now, up, cfg, current, cursor, byAuthID, store, rejected>>
    /\ SaveLocked(fault, oc)

\* A handler panicked and zen_plugin_call recovered (failClosed).
FailClosed ==
    /\ "panic" \in Hazards /\ up
    /\ fault' = "internal_error"
    /\ UNCHANGED <<now, up, cfg, current, cursor, keys, byAuthID, store,
                   disk, reqs, rejected>>

-----------------------------------------------------------------------------
(***************************************************************************)
(* The end of a pool, and the environment.                                 *)
(***************************************************************************)

\* The variables of a pool that is not there hold what Init gives them.
NoPool ==
    /\ up' = FALSE /\ cfg' = NoConfig /\ current' = "" /\ cursor' = ""
    /\ keys' = NoKeys /\ byAuthID' = NoRoutes /\ store' = FALSE /\ fault' = ""
    /\ rejected' = FALSE

\* plugin.shutdown: Close saves and releases the lock, and a.p becomes nil
\* whatever that returns.  Requests stay in flight.
Shutdown(oc) ==
    /\ "stop" \in Hazards /\ up
    /\ disk' = IF store THEN Written(cfg.StateDir, State, oc) ELSE disk
    /\ NoPool
    /\ UNCHANGED <<now, reqs>>

\* The host process dies, and its requests with it.
Crash ==
    /\ "stop" \in Hazards /\ up
    /\ NoPool
    /\ reqs' = [r \in Requests |-> Idle]
    /\ UNCHANGED <<now, disk>>

\* An outcome reported while a.p is nil is answered zen_not_initialized.
LoseResult(r) ==
    /\ ~up /\ reqs[r] # Idle
    /\ reqs' = [reqs EXCEPT ![r] = Idle]
    /\ UNCHANGED <<now, poolVars, disk, rejected>>

Tick == now < MaxTime /\ now' = now + 1
        /\ UNCHANGED <<poolVars, disk, reqs, rejected>>

StepBack == "clock" \in Hazards /\ now > 1 /\ now' = now - 1
            /\ UNCHANGED <<poolVars, disk, reqs, rejected>>

-----------------------------------------------------------------------------
Init ==
    /\ now = 1
    /\ up = FALSE /\ cfg = NoConfig /\ current = "" /\ cursor = ""
    /\ keys = NoKeys /\ byAuthID = NoRoutes /\ store = FALSE /\ fault = ""
    /\ disk = [d \in StateDirs |-> EmptyState]
    /\ reqs = [r \in Requests |-> Idle]
    /\ rejected = FALSE

Configure ==
    \E c \in Configs :
        \/ NewPool(c)
        \/ RegisterUnavailable(c)
        \/ /\ "reload" \in Hazards
           /\ \/ \E n \in 0..Len(c.Accounts) : RegisterInvalid(c, n)
              \/ ReconfigureInvalid
              \/ ReconfigureRefused(c)
              \/ \E oc \in SaveOutcomes : Reconfigure(c, oc)

Pick(r) ==
    \/ \E listed \in BOOLEAN, oc \in SaveOutcomes : PickFirst(r, listed, oc)
    \/ PickCurrent(r)
    \/ \E listed \in BOOLEAN : PickFailover(r, listed)

ObserveFailure(r, ras, lat, oc) ==
    \/ ObserveStale(r, ras, lat, oc)
    \/ /\ "quota" \in Outcomes
       /\ \E u \in ResetsAfter(ras, lat) : ObserveQuota(r, ras, lat, u, oc)
    \/ "auth" \in Outcomes /\ ObserveAuth(r, ras, lat, oc)
    \/ /\ "rate_limit" \in Outcomes
       /\ \E u \in {0} \cup ResetsAfter(ras, lat) :
             ObserveRateLimit(r, ras, lat, u, oc)
    \/ "transient" \in Outcomes /\ ObserveTransient(r, ras, lat, oc)
    \/ "failure" \in Outcomes /\ ObserveOther(r, ras, lat, oc)

\* A latency that runs past now has the effect of one that ends now.
Observe(r) ==
    \/ ObserveDropped(r)
    \/ \E oc \in SaveOutcomes :
          \/ "success" \in Outcomes /\ ObserveSuccess(r, oc)
          \/ \E ras \in RequestTimes(r), lat \in 0..now :
                ObserveFailure(r, ras, lat, oc)

Next ==
    \/ Configure
    \/ \E r \in Requests : Pick(r) \/ Observe(r) \/ LoseResult(r)
    \/ Guard
    \/ \E fp \in Fingerprints, oc \in SaveOutcomes : Resume(fp, oc)
    \/ FailClosed
    \/ \E oc \in SaveOutcomes : Shutdown(oc)
    \/ Crash
    \/ Tick
    \/ StepBack

Spec == Init /\ [][Next]_vars

(***************************************************************************)
(* The clock runs, the host keeps sending requests, and it reports the     *)
(* outcome of each.                                                        *)
(***************************************************************************)
Fairness ==
    /\ WF_vars(Tick)
    /\ \A r \in Requests : WF_vars(Pick(r)) /\ WF_vars(Observe(r))

FairSpec == Spec /\ Fairness

-----------------------------------------------------------------------------
(***************************************************************************)
(* Properties.                                                             *)
(***************************************************************************)
IsPersistedState(s) ==
    /\ s = [Current |-> s.Current, Cursor |-> s.Cursor, Keys |-> s.Keys]
    /\ {s.Current, s.Cursor} \subseteq Fingerprints \cup {""}
    /\ DOMAIN s.Keys \subseteq Fingerprints
    /\ s.Keys \in [DOMAIN s.Keys -> KeyState]

Flights == {Idle} \cup [auth : AuthIDs, at : Nat \ {0},
                        resumed : StateDirs \cup {""}]

PoolTypeOK ==
    /\ up \in BOOLEAN /\ store \in BOOLEAN
    /\ cfg \in Configuration
    /\ IsPersistedState(State)
    /\ byAuthID \in [AuthIDs -> Fingerprints \cup {""}]
    /\ fault \in Faults

FilesTypeOK == /\ DOMAIN disk = StateDirs
               /\ \A d \in StateDirs : IsPersistedState(disk[d])

\* Every variable of the pool, the file and the requests in flight (pool.go's
\* and state.go's structures, and the auth IDs Pick returns) has its type: in
\* particular Pick only ever hands out an auth ID of the host.
TypeOK ==
    /\ now \in Nat \ {0}
    /\ PoolTypeOK
    /\ FilesTypeOK
    /\ reqs \in [Requests -> Flights]
    /\ rejected \in BOOLEAN

\* The keyStates that blockedLocked, unavailableLocked, Resume and Status
\* dereference exist: whatever was loaded, reloaded, added or taken out of the
\* configuration, every configured account has one, and every auth ID that
\* Observe looks up leads to one.
KeysCoverAccounts ==
    up => /\ Configured(cfg) \subseteq DOMAIN keys
          /\ \A a \in AuthIDs : byAuthID[a] \in Configured(cfg) \cup {""}
          /\ current \in Configured(cfg) \cup {""}

Cooling(ks, fp, t) == \/ t < ks[fp].ExhaustedUntil
                      \/ t < ks[fp].SuspendedUntil
                      \/ t < ks[fp].TransientUntil

\* The account that every request is sent to is never one whose quota, auth
\* suspension or quarantine is still running, however late and in whatever
\* order outcomes were reported, and after any restart or reload.  It follows
\* that the unsaved failovers in Pick and Guard are dead code as long as the
\* clock never steps back.
CurrentNeverCooling == current # "" => ~Cooling(keys, current, now)

\* An exhausted account's record is closed (Observe's IgnoreBefore test):
\* until the reset no reported outcome changes it, so that late failures
\* neither extend the cooldown nor replace it.  Only Resume, which clears it,
\* does.
ExhaustedGenerationIsClosed ==
    [][\A fp \in DOMAIN keys :
          up /\ up' /\ now < keys[fp].ExhaustedUntil
            => \/ keys'[fp] = keys[fp]
               \/ keys'[fp].ExhaustedUntil = 0]_vars

\* What was started before an acknowledged Resume cannot undo it: its outcome
\* changes neither the keys nor the selection, however late it is reported,
\* and also when the plugin was stopped and started again on the same state.
ResumeSticks ==
    [][\A r \in Requests :
          Observe(r) /\ reqs[r].resumed = cfg.StateDir
            => UNCHANGED <<current, cursor, keys>>]_vars

\* Drain, then switch: a running pool leaves its current account only when the
\* outcome of a request of that very account is being reported, when a reload
\* has disabled or removed it, or when it is cooling, which takes a clock that
\* stepped back (CurrentNeverCooling); and only for an account that may serve.
\* Late outcomes of other accounts, recoveries, Resume and reloads that keep
\* the account never move it.
DrainThenSwitch ==
    [][up /\ up' /\ current # "" /\ current' # current
         => /\ \/ \E r \in Requests : Observe(r) /\ Owner(r) = current
               \/ current \notin Enabled(cfg')
               \/ Cooling(keys, current, now)
            /\ current' # "" => BlockedLocked(cfg', keys', current', now) = ""
      ]_vars

\* A pool that accepts requests can lose its process at any moment: started
\* again from the file under the same configuration (newPool) it has the very
\* state it had in memory.  So nothing Pick decided on is unsaved, also when
\* saves failed before.
CrashLosesNothing ==
    up /\ store /\ fault = "" => Restore(cfg, disk[cfg.StateDir]) = State

\* Without a state file there is no service: a pool without a store, made by
\* faultedPool, is never without a fault, whatever is called on it.
ServesOnlyWithStore == up /\ ~store => fault # ""

\* What is known of account fp in directory d: the record in the file and that
\* of a pool which runs on the file.
RunsOn(d) == up /\ store /\ cfg.StateDir = d
Records(d, fp) == {disk[d].Keys[fp]} \cup (IF RunsOn(d) THEN {keys[fp]} ELSE {})

\* A cooldown that the file and the pool on it know of is not lost and not
\* shortened, in neither of them, by a failed save, a crash, a faulted start,
\* a reload, the removal of its key or a later outcome: only Resume does that,
\* also when its save fails.
DurableCooldown ==
    [][\A d \in StateDirs : \A fp \in DOMAIN disk[d].Keys :
          /\ fp \in DOMAIN disk'[d].Keys
          /\ RunsOn(d)' => fp \in DOMAIN keys'
          /\ \/ /\ cfg.StateDir = d
                /\ \E oc \in SaveOutcomes : Resume(fp, oc)
             \/ \A new \in Records(d, fp)' : \E old \in Records(d, fp) :
                   new.ExhaustedUntil >= old.ExhaustedUntil]_vars

\* Whatever the clock does, Pick hands out an account that may serve now, is
\* the current one, and whose outcome Observe will attribute to it.
HandoutIsAccountable ==
    [][\A r \in Requests :
          reqs[r] = Idle /\ reqs'[r] # Idle
            => /\ current' # ""
               /\ BlockedLocked(cfg, keys, current', now) = ""
               /\ byAuthID[reqs'[r].auth] = current']_vars

\* After a configuration was refused (unreadable, or Reconfigure returned an
\* error), the pool stays closed until a configuration is accepted or the host
\* restarts.
RejectedConfigFailsClosed == up /\ rejected => fault # ""

\* A reload does not orphan the requests in flight: as long as a key stays
\* configured, the auth IDs handed out for it (the one of its old proxy too)
\* lead to it.
AttributionSurvivesReload ==
    [][\A a \in AuthIDs :
          up /\ up' /\ byAuthID[a] \in Configured(cfg')
            => byAuthID'[a] = byAuthID[a]]_vars

\* A client that waits for the retry time of a refusal never waits too long:
\* an account that cannot serve now and can at a later time has given
\* unavailableLocked a time that is no later, unless only a quarantine, which
\* it does not look at, keeps the account back.
RetryNeverLate ==
    up => \A fp \in Enabled(cfg) : \A t \in now..(MaxTime + MaxReset) :
             /\ \/ now < keys[fp].ExhaustedUntil
                \/ now < keys[fp].SuspendedUntil
                \/ now < keys[fp].RateLimitedUntil
             /\ BlockedLocked(cfg, keys, fp, t) = ""
             => RetryAt(cfg, keys, now) \in (now + 1)..t

\* The account that Pick answers with in this state, or "" when it refuses; the
\* host lists it, and the save of a first choice succeeds.
PickAnswer ==
    LET reason == BlockedLocked(cfg, keys, current, now)
    IN  IF current = "" THEN ChooseLocked(cfg, keys, cursor, now)
        ELSE IF reason = "" THEN current
        ELSE IF reason \in {"suspended", "transient"}
             THEN ChooseLocked(cfg, keys, current, now)
        ELSE ""

\* No request is refused while an account may serve, but for the two cases in
\* which the pool stays where it is: a rate limit of the current account, and
\* one that was disabled while the plugin was down.  No sequence of failures,
\* recoveries, reloads and restarts leaves the pool on an exhausted account or
\* its search short of the last eligible one.
RefusesOnlyIfNobodyCan ==
    /\ up /\ fault = "" /\ PickAnswer = ""
    /\ \E fp \in Enabled(cfg) : BlockedLocked(cfg, keys, fp, now) = ""
    => /\ current # ""
       /\ BlockedLocked(cfg, keys, current, now) \in {"rate_limited", "disabled"}

Curable ==
    /\ up /\ fault = ""
    /\ \E fp \in IF current = "" THEN Enabled(cfg) ELSE {current} :
          BlockedLocked(cfg, keys, fp, MaxTime) = ""

\* The pool recovers by itself: when some account's cooldowns end (of the
\* current account, or of any enabled one when there is none), requests are
\* eventually served again, unless more failures are reported meanwhile.
Recovers ==
    Curable ~> \/ ~Curable
               \/ current # "" /\ BlockedLocked(cfg, keys, current, now) = ""

(***************************************************************************)
(* The pool as those who send requests see it, where the configuration     *)
(* stays the same: what a start would find in the file.                    *)
(***************************************************************************)
Durable == Restore(NoConfig, disk[NoConfig.StateDir])

CooldownEnd(k) == Max({k.ExhaustedUntil, k.SuspendedUntil, k.TransientUntil})

\* The account of a request under way.
Nobody == ""
Payer(r) == IF reqs[r] = Idle THEN Nobody ELSE Routes(NoConfig, NoRoutes)[reqs[r].auth]

Drain == INSTANCE DrainSwitch WITH
    Accounts <- Enabled(NoConfig),
    None <- Nobody,
    serving <- Durable.Current,
    until <- [fp \in Enabled(NoConfig) |-> CooldownEnd(Durable.Keys[fp])],
    paused <- [fp \in Enabled(NoConfig) |-> Durable.Keys[fp].RateLimitedUntil],
    out <- [r \in Requests |-> Payer(r)]

\* Where saves succeed and the clock runs forward, nobody notices that the
\* plugin is stopped, killed, started again, reloaded or closed by a panic: the
\* pool behaves like one that has no files and never stops, one account serves
\* until its own failure takes it out of service, failures never shorten a
\* cooldown, and only an account that may serve takes over.
ImplementsDrainSwitch == Drain!Spec

-----------------------------------------------------------------------------
(***************************************************************************)
(* What the documentation says and the code does not do.                   *)
(***************************************************************************)

\* README: disabling a key by configuration "and reload or restart" takes it
\* out of the rotation, current or not.
DisableMovesCurrent == up /\ current # "" => current \in Enabled(cfg)

\* docs/VERIFICATION.md: "Confirmed quota advances": a quota failure of the
\* current account, started after the barrier and with its reset still ahead,
\* moves the pool on, also when another failure is reported before it.
ConfirmedQuotaMoves ==
    [][\A r \in Requests, lat \in 0..now, oc \in SaveOutcomes :
       \A until \in ResetsAfter(reqs[r].at, lat) :
          /\ \/ ObserveQuota(r, reqs[r].at, lat, until, oc)
             \/ ObserveStale(r, reqs[r].at, lat, oc)
          /\ until > now /\ Owner(r) = current
          /\ reqs[r].at >= keys[current].IgnoreBefore
          => current' # current]_vars
=============================================================================
