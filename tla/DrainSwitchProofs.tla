------------------------- MODULE DrainSwitchProofs -------------------------
(***************************************************************************)
(* The pool implements DrainSwitch: where saves succeed, the clock runs    *)
(* forward and the configuration stays the same, every step of the pool    *)
(* is a step of DrainSwitch or leaves it alone, for any accounts, requests *)
(* and durations.  By the same lemma on chooseLocked, nobody is refused    *)
(* without need, also under reloads and storage errors.                    *)
(***************************************************************************)
EXTENDS ZenPoolProofs

\* No account has the empty name.
LEMMA NobodyIsNone ==
    Nobody \notin Fingerprints /\ Nobody \notin Enabled(NoConfig)
<1>1. Nobody \notin Fingerprints
  BY ConstantsAssumption, Zenon DEF Nobody
<1> QED
  BY <1>1, NoConfigType, AccountsType

\* The cooldown of an account ends with the last of its three.
LEMMA EndIsLast ==
    ASSUME NEW k \in KeyState
    PROVE  /\ CooldownEnd(k) \in Nat
           /\ CooldownEnd(k) \in {k.ExhaustedUntil, k.SuspendedUntil,
                                  k.TransientUntil}
           /\ k.ExhaustedUntil <= CooldownEnd(k)
           /\ k.SuspendedUntil <= CooldownEnd(k)
           /\ k.TransientUntil <= CooldownEnd(k)
<1>1. /\ k.ExhaustedUntil \in Nat /\ k.SuspendedUntil \in Nat
      /\ k.TransientUntil \in Nat
  BY DEF KeyState
<1>2. \A e, s, t \in Nat :
         /\ Max({e, s, t}) \in {e, s, t}
         /\ e <= Max({e, s, t}) /\ s <= Max({e, s, t}) /\ t <= Max({e, s, t})
  <2> TAKE e, s, t \in Nat
  <2>1. \E x \in {e, s, t} : \A y \in {e, s, t} : x >= y
    <3>1. CASE e >= s /\ e >= t
      BY <3>1
    <3>2. CASE s >= e /\ s >= t
      BY <3>2
    <3>3. CASE t >= s /\ t >= e
      BY <3>3
    <3> QED
      BY <3>1, <3>2, <3>3
  <2> QED
    BY <2>1 DEF Max
<1> QED
  BY <1>1, <1>2 DEF CooldownEnd

\* blockedLocked lets an enabled account serve once its cooldown and its rate
\* limit have ended.
LEMMA Unblocked ==
    ASSUME NEW ks, NEW fp \in Enabled(NoConfig), ks[fp] \in KeyState,
           NEW t \in Nat
    PROVE  BlockedLocked(NoConfig, ks, fp, t) = Nobody
             <=> t >= CooldownEnd(ks[fp]) /\ t >= ks[fp].RateLimitedUntil
<1>1. BlockedLocked(NoConfig, ks, fp, t) = Nobody
        <=> /\ ~(t < ks[fp].ExhaustedUntil) /\ ~(t < ks[fp].SuspendedUntil)
            /\ ~(t < ks[fp].RateLimitedUntil) /\ ~(t < ks[fp].TransientUntil)
  BY Zenon DEF BlockedLocked, Nobody
<1>2. /\ ks[fp].ExhaustedUntil \in Nat /\ ks[fp].SuspendedUntil \in Nat
      /\ ks[fp].TransientUntil \in Nat /\ ks[fp].RateLimitedUntil \in Nat
  BY DEF KeyState
<1> QED
  BY <1>1, <1>2, EndIsLast

\* Counting on from any account, modulo their number, meets every account.
LEMMA ProbesMeetAll ==
    ASSUME NEW n \in Nat \ {0}, NEW s \in 0..n, NEW i \in 1..n
    PROVE  \E j \in 0..(n - 1) : ((s + j) % n) + 1 = i
<1>1. \A x \in Nat : x < n => x % n = x /\ (x + n) % n = x
  OBVIOUS
<1>2. CASE i - 1 >= s
  <2>1. /\ (i - 1) - s \in 0..(n - 1) /\ s + ((i - 1) - s) = i - 1
        /\ i - 1 \in Nat /\ i - 1 < n
    BY <1>2
  <2>2. ((s + ((i - 1) - s)) % n) + 1 = i
    BY <1>1, <2>1
  <2> QED
    BY <2>1, <2>2
<1>3. CASE i - 1 < s
  <2>1. /\ ((i - 1) - s) + n \in 0..(n - 1)
        /\ s + (((i - 1) - s) + n) = (i - 1) + n
        /\ i - 1 \in Nat /\ i - 1 < n
    BY <1>3
  <2>2. ((s + (((i - 1) - s) + n)) % n) + 1 = i
    BY <1>1, <2>1
  <2> QED
    BY <2>1, <2>2
<1> QED
  BY <1>2, <1>3

\* chooseLocked overlooks nobody: it answers that there is no account only
\* when every enabled one is blocked.
LEMMA ChooseIsComplete ==
    ASSUME NEW c \in Configuration, NEW ks, NEW after, NEW t,
           ChooseLocked(c, ks, after, t) = Nobody, NEW fp \in Enabled(c)
    PROVE  BlockedLocked(c, ks, fp, t) # Nobody
<1> DEFINE n == Len(c.Accounts)
           s == IF after \in Configured(c)
                THEN CHOOSE i \in 1..n : c.Accounts[i].Fingerprint = after
                ELSE 0
<1>1. n \in Nat
  BY AccountsType
<1>2. PICK i \in 1..n : c.Accounts[i].Fingerprint = fp
  BY DEF Enabled
<1>3. n \in Nat \ {0}
  BY <1>1, <1>2
<1>4. s \in 0..n
  <2>1. CASE after \in Configured(c)
    <3>1. \E j \in 1..n : c.Accounts[j].Fingerprint = after
      BY <2>1 DEF Configured
    <3>2. s \in 1..n
      BY <2>1, <3>1
    <3> QED
      BY <1>1, <3>2
  <2> QED
    BY <1>1, <2>1
<1>5. \A j : Probe(c, after, j) = c.Accounts[((s + j) % n) + 1].Fingerprint
  BY DEF Probe
<1> HIDE DEF s, n
<1>6. PICK j \in 0..(n - 1) : ((s + j) % n) + 1 = i
  BY <1>3, <1>4, ProbesMeetAll
<1>7. Probe(c, after, j) = fp
  BY <1>2, <1>5, <1>6
<1> SUFFICES ASSUME BlockedLocked(c, ks, fp, t) = Nobody
             PROVE  FALSE
  OBVIOUS
<1>8. j \in Eligible(c, ks, after, t)
  BY <1>6, <1>7, Zenon DEF Eligible, Nobody, n
<1>9. PICK m : m = Min(Eligible(c, ks, after, t))
  OBVIOUS
<1>10. m \in 0..(n - 1)
  <2>1. Eligible(c, ks, after, t) \subseteq 0..(n - 1)
    BY Zenon DEF Eligible, n
  <2>2. Eligible(c, ks, after, t) \in SUBSET Nat
    BY <1>1, <2>1
  <2> QED
    BY <1>8, <1>9, <2>1, <2>2, MinIsLeast
<1>11. Probe(c, after, m) = Nobody
  <2>1. Eligible(c, ks, after, t) # {}
    BY <1>8
  <2> QED
    BY <1>9, <2>1, Zenon DEF ChooseLocked, Nobody
<1>12. ((s + m) % n) + 1 \in 1..n
  BY <1>3, <1>4, <1>10
<1>13. Probe(c, after, m) \in Fingerprints
  <2>1. c.Accounts[((s + m) % n) + 1] \in Account
    BY <1>12, AccountsType DEF n
  <2> QED
    BY <1>5, <2>1 DEF Account
<1> QED
  BY <1>11, <1>13, NobodyIsNone

-----------------------------------------------------------------------------
(***************************************************************************)
(* What a start would find.  Durable is well-typed, follows the file, and  *)
(* is the state of a pool that has just saved.                             *)
(***************************************************************************)

\* What newPool makes of a well-typed file.
LEMMA RestoredType ==
    ASSUME NEW s, IsPersistedState(s)
    PROVE  /\ Restore(NoConfig, s).Current \in Configured(NoConfig) \cup {Nobody}
           /\ Restore(NoConfig, s).Keys = Install(NoConfig, s.Keys)
           /\ \A fp \in Configured(NoConfig) :
                 Restore(NoConfig, s).Keys[fp] \in KeyState
<1>1. DOMAIN s.Keys \subseteq Fingerprints /\ s.Keys \in [DOMAIN s.Keys -> KeyState]
  BY DEF IsPersistedState
<1>2. Restore(NoConfig, s).Keys = Install(NoConfig, s.Keys)
  BY Zenon DEF Restore
<1>3. Restore(NoConfig, s).Current \in Configured(NoConfig) \cup {Nobody}
  <2>1. Restore(NoConfig, s).Current =
          IF s.Current \in Configured(NoConfig) THEN s.Current ELSE Nobody
    BY Zenon DEF Restore, Nobody
  <2> QED
    BY <2>1
<1>4. \A fp \in Configured(NoConfig) :
         Install(NoConfig, s.Keys)[fp] \in KeyState
  BY <1>1, NoConfigType, InstallType
<1> QED
  BY <1>2, <1>3, <1>4

\* The file of the one configuration is well-typed.
LEMMA DurableType ==
    ASSUME Consistent
    PROVE  /\ Durable.Current \in Configured(NoConfig) \cup {Nobody}
           /\ \A fp \in Configured(NoConfig) : Durable.Keys[fp] \in KeyState
<1>1. NoConfig.StateDir \in StateDirs
  BY NoConfigType, AccountsType
<1>2. IsPersistedState(disk[NoConfig.StateDir])
  BY <1>1, ConsistentParts DEF FilesTypeOK
<1> QED
  BY <1>2, RestoredType DEF Durable

\* Nothing but the file decides what a start would find.
LEMMA DurableIsOnDisk == disk' = disk => Durable' = Durable
BY DEF Durable, Restore, Install

\* A pool that has just saved would be found as it is.
LEMMA SavedIsDurable ==
    ASSUME Consistent, Consistent', "storage" \notin Hazards,
           up', cfg' = NoConfig, NEW oc \in SaveOutcomes,
           disk' = Written(NoConfig.StateDir, State', oc)
    PROVE  Durable' = State'
<1>1. NoConfig.StateDir \in StateDirs
  BY NoConfigType, AccountsType
<1>2. oc = "ok"
  BY DEF SaveOutcomes
<1>3. PICK s : s = State'
  OBVIOUS
<1>4. disk'[NoConfig.StateDir] = s
  <2>1. disk' = [disk EXCEPT ![NoConfig.StateDir] = s]
    BY <1>2, <1>3 DEF Written
  <2>2. DOMAIN disk = StateDirs
    BY ConsistentParts DEF FilesTypeOK
  <2> QED
    BY <1>1, <2>1, <2>2
<1>5. IsPersistedState(s)
  <2>1. IsPersistedState(State)'
    BY DEF Consistent, TypeOK, PoolTypeOK
  <2> QED
    BY <1>3, <2>1 DEF IsPersistedState
<1>6. Configured(NoConfig) \subseteq DOMAIN s.Keys
      /\ s.Current \in Configured(NoConfig) \cup {""}
  <2>1. s.Keys = keys' /\ s.Current = current'
    BY <1>3 DEF State
  <2>2. Configured(cfg') \subseteq DOMAIN keys'
        /\ current' \in Configured(cfg') \cup {""}
    BY Zenon DEF Consistent, KeysCoverAccounts
  <2> QED
    BY <2>1, <2>2, Zenon
<1>7. Restore(NoConfig, s) = s
  BY <1>5, <1>6, RestoreFixpoint
<1>8. Durable' = Restore(NoConfig, disk'[NoConfig.StateDir])
  BY DEF Durable
<1> QED
  BY <1>3, <1>4, <1>7, <1>8

LEMMA LockedIsDurable ==
    ASSUME Consistent, Consistent', "storage" \notin Hazards,
           up', store', cfg' = NoConfig, NEW oc \in SaveOutcomes, NEW f,
           SaveLocked(f, oc)
    PROVE  Durable' = State'
<1>1. disk' = Written(NoConfig.StateDir, State', oc)
  <2>1. disk' = IF store' THEN Written(cfg'.StateDir, State', oc) ELSE disk
    BY Zenon DEF SaveLocked
  <2> QED
    BY <2>1
<1> QED
  BY <1>1, SavedIsDurable

-----------------------------------------------------------------------------
(***************************************************************************)
(* The invariant.  A pool that runs on the file is what a start would find *)
(* there; the current account and those of the requests under way are      *)
(* enabled; and a suspension or a quarantine is no longer than the         *)
(* configured one from the last failure on, which is why a failure that is *)
(* counted never shortens one.                                             *)
(***************************************************************************)
Slack(k) == /\ k.SuspendedUntil <= k.LastFailureAt + NoConfig.AuthSuspension
            /\ k.TransientUntil <= k.LastFailureAt + NoConfig.TransientFallback

SlackKeys(ks) == \A fp \in Configured(NoConfig) : Slack(ks[fp])

PayersEnabled ==
    \A r \in Requests : reqs[r] # Idle => Payer(r) \in Enabled(NoConfig)

InPool == up /\ store => /\ cfg = NoConfig /\ State = Durable
                         /\ byAuthID = Routes(NoConfig, NoRoutes)

Steady == /\ Durable.Current \in Enabled(NoConfig) \cup {Nobody}
          /\ SlackKeys(Durable.Keys)
          /\ PayersEnabled
          /\ InPool

\* What the proof rests on, with the invariants shown before.
Sound == /\ Consistent /\ Settled /\ Barriers /\ Attributed
         /\ ServesOnlyWithStore /\ Steady

\* A step of the pool as DrainSwitch sees it.
Refined == Drain!Next \/ UNCHANGED Drain!vars

LEMMA PayersKept == \A r : reqs' = reqs => Payer(r)' = Payer(r)
BY DEF Payer

LEMMA FlightsSeen ==
    ASSUME Consistent, NEW r \in Requests
    PROVE  /\ Payer(r) \in Fingerprints \cup {Nobody}
           /\ reqs[r] = Idle => Payer(r) = Nobody
<1>1. reqs[r] = Idle \/ reqs[r].auth \in AuthIDs
  BY ConsistentParts DEF Flights
<1>2. \A a \in AuthIDs : Routes(NoConfig, NoRoutes)[a] \in Fingerprints \cup {Nobody}
  <2>1. Routes(NoConfig, NoRoutes) \in [AuthIDs -> Configured(NoConfig) \cup {Nobody}]
    BY NoConfigType, RoutesType, Zenon DEF Nobody
  <2> QED
    BY <2>1, NoConfigType, AccountsType
<1> QED
  BY <1>1, <1>2 DEF Payer

\* A step that leaves the file, the requests and the clock alone is not seen.
LEMMA QuietRefines ==
    ASSUME UNCHANGED <<now, disk, reqs>>
    PROVE  UNCHANGED Drain!vars
<1>1. Durable' = Durable
  BY DurableIsOnDisk
<1>2. \A r : Payer(r)' = Payer(r)
  BY PayersKept
<1> QED
  BY <1>1, <1>2 DEF Drain!vars

LEMMA QuietSteady ==
    ASSUME Steady, UNCHANGED <<disk, reqs>>, InPool'
    PROVE  Steady'
<1>1. Durable' = Durable
  BY DurableIsOnDisk
<1>2. \A r : Payer(r)' = Payer(r)
  BY PayersKept
<1>3. SlackKeys(Durable.Keys)'
  BY <1>1 DEF Steady, SlackKeys, Slack
<1>4. PayersEnabled'
  BY <1>2 DEF Steady, PayersEnabled, Idle
<1> QED
  BY <1>1, <1>3, <1>4 DEF Steady

-----------------------------------------------------------------------------
(***************************************************************************)
(* Registering, faults, stops and the environment.                         *)
(***************************************************************************)

\* A pool that starts is the one that was there before.
LEMMA NewPoolRefines ==
    ASSUME Configs = {NoConfig}, Sound, NEW c \in Configs, NewPool(c)
    PROVE  Steady' /\ Refined
<1>1. c = NoConfig
  OBVIOUS
<1>2. UNCHANGED <<now, disk, reqs>>
  BY DEF NewPool
<1>3. Durable' = Durable
  BY <1>2, DurableIsOnDisk
<1>4. /\ State' = [Current |-> Durable.Current, Cursor |-> Durable.Cursor,
                   Keys |-> Durable.Keys]
      /\ cfg' = NoConfig /\ byAuthID' = Routes(NoConfig, NoRoutes)
  BY <1>1, Zenon DEF NewPool, State, Durable
<1>5. Durable = [Current |-> Durable.Current, Cursor |-> Durable.Cursor,
                 Keys |-> Durable.Keys]
  BY Zenon DEF Durable, Restore
<1>6. InPool'
  BY <1>3, <1>4, <1>5, Zenon DEF InPool
<1> QED
  BY <1>2, <1>6, QuietRefines, QuietSteady DEF Sound, Refined

\* A pool without a store, or with a fault more or less, is not seen either.
LEMMA FaultRefines ==
    ASSUME Sound, UNCHANGED <<now, disk, reqs>>,
           \/ ~store' \/ ~up'
           \/ UNCHANGED <<up, cfg, current, cursor, keys, byAuthID, store>>
    PROVE  Steady' /\ Refined
<1>1. Durable' = Durable
  BY DurableIsOnDisk
<1>2. InPool'
  <2>1. CASE ~store' \/ ~up'
    BY <2>1 DEF InPool
  <2>2. CASE UNCHANGED <<up, cfg, current, cursor, keys, byAuthID, store>>
    BY <1>1, <2>2 DEF InPool, State, Sound, Steady
  <2> QED
    BY <2>1, <2>2
<1> QED
  BY <1>2, QuietRefines, QuietSteady DEF Sound, Refined

\* Close saves what is in the file already.
LEMMA ShutdownRefines ==
    ASSUME "storage" \notin Hazards, Sound, NEW oc \in SaveOutcomes, Shutdown(oc)
    PROVE  Steady' /\ Refined
<1>1. ~up' /\ UNCHANGED <<now, reqs>>
  BY Zenon DEF Shutdown, NoPool
<1>2. Durable' = Durable
  <2>1. CASE ~store
    BY <2>1, DurableIsOnDisk DEF Shutdown
  <2>2. CASE store
    <3>1. up /\ cfg = NoConfig /\ State = Durable
      BY <2>2 DEF Sound, Steady, InPool, Shutdown
    <3>2. NoConfig.StateDir \in StateDirs /\ DOMAIN disk = StateDirs
      BY NoConfigType, AccountsType, ConsistentParts DEF FilesTypeOK, Sound
    <3>3. oc = "ok"
      BY DEF SaveOutcomes
    <3>4. disk' = [disk EXCEPT ![NoConfig.StateDir] = State]
      BY <2>2, <3>1, <3>3 DEF Shutdown, Written
    <3>5. disk'[NoConfig.StateDir] = Durable
      BY <3>1, <3>2, <3>4
    <3>6. PICK s : s = Durable
      OBVIOUS
    <3>7. IsPersistedState(s)
      <4>1. IsPersistedState(State)
        BY DEF Sound, Consistent, TypeOK, PoolTypeOK
      <4> QED
        BY <3>1, <3>6, <4>1 DEF IsPersistedState
    <3>8. Configured(NoConfig) \subseteq DOMAIN s.Keys
          /\ s.Current \in Configured(NoConfig) \cup {""}
      <4>1. s.Keys = keys /\ s.Current = current
        BY <3>1, <3>6 DEF State
      <4> QED
        BY <3>1, <4>1, Zenon DEF Sound, Consistent, KeysCoverAccounts
    <3>9. Restore(NoConfig, s) = s
      BY <3>7, <3>8, RestoreFixpoint
    <3>10. Durable' = Restore(NoConfig, disk'[NoConfig.StateDir])
      BY DEF Durable
    <3> QED
      BY <3>5, <3>6, <3>9, <3>10
  <2> QED
    BY <2>1, <2>2
<1>3. \A r : Payer(r)' = Payer(r)
  BY <1>1, PayersKept
<1>4. Refined
  BY <1>1, <1>2, <1>3 DEF Refined, Drain!vars
<1>5. SlackKeys(Durable.Keys)'
  BY <1>2 DEF Sound, Steady, SlackKeys, Slack
<1>6. PayersEnabled'
  BY <1>1, <1>3 DEF Sound, Steady, PayersEnabled, Idle
<1> QED
  BY <1>1, <1>2, <1>4, <1>5, <1>6 DEF Sound, Steady, InPool

\* A crash loses the requests under way and nothing else.
LEMMA CrashRefines ==
    ASSUME Sound, Crash
    PROVE  Steady' /\ Refined
<1>1. /\ ~up' /\ UNCHANGED <<now, disk>>
      /\ reqs' = [r \in Requests |-> Idle]
  BY Zenon DEF Crash, NoPool
<1>2. Durable' = Durable
  BY <1>1, DurableIsOnDisk
<1>3. \A r \in Requests : Payer(r)' = Nobody /\ reqs'[r] = Idle
  BY <1>1 DEF Payer, Idle
<1>4. Drain!Lose
  BY <1>1, <1>2, <1>3 DEF Drain!Lose
<1>5. SlackKeys(Durable.Keys)'
  BY <1>2 DEF Sound, Steady, SlackKeys, Slack
<1>6. PayersEnabled'
  BY <1>3 DEF PayersEnabled, Idle
<1> QED
  BY <1>1, <1>2, <1>4, <1>5, <1>6 DEF Sound, Steady, InPool, Refined, Drain!Next

\* A request whose slot becomes free, or one that is reported again, over an
\* unchanged record.
LEMMA ReturnRefines ==
    ASSUME Sound, NEW r \in Requests, reqs[r] # Idle,
           Durable' = Durable, now' = now, InPool',
           reqs' = reqs \/ reqs' = [reqs EXCEPT ![r] = Idle]
    PROVE  Steady' /\ Refined
<1>1. SlackKeys(Durable.Keys)'
  BY DEF Sound, Steady, SlackKeys, Slack
<1>2. CASE reqs' = reqs
  <2>1. \A q : Payer(q)' = Payer(q)
    BY <1>2, PayersKept
  <2>2. PayersEnabled'
    BY <1>2, <2>1 DEF Sound, Steady, PayersEnabled, Idle
  <2> QED
    BY <1>1, <2>1, <2>2 DEF Sound, Steady, Refined, Drain!vars
<1>3. CASE reqs' = [reqs EXCEPT ![r] = Idle]
  <2>1. reqs \in [Requests -> Flights]
    BY ConsistentParts DEF Sound
  <2>2. Payer(r)' = Nobody /\ reqs'[r] = Idle
    BY <1>3, <2>1 DEF Payer, Idle
  <2>3. \A q \in Requests : q # r => Payer(q)' = Payer(q) /\ reqs'[q] = reqs[q]
    BY <1>3, <2>1 DEF Payer, Idle
  <2>4. Payer(r) # Nobody
    BY NobodyIsNone DEF Sound, Steady, PayersEnabled
  <2>5. Drain!Return(r)
    BY <2>2, <2>3, <2>4 DEF Drain!Return
  <2>6. PayersEnabled'
    BY <2>2, <2>3 DEF Sound, Steady, PayersEnabled, Idle
  <2> QED
    BY <1>1, <2>5, <2>6 DEF Sound, Steady, Refined, Drain!Next
<1> QED
  BY <1>2, <1>3

\* The clock runs.
LEMMA TickRefines ==
    ASSUME Sound, Tick
    PROVE  Steady' /\ Refined
<1>1. /\ UNCHANGED <<up, cfg, current, cursor, keys, byAuthID, store, disk, reqs>>
      /\ now' = now + 1
  BY DEF Tick, poolVars
<1>2. Durable' = Durable
  BY <1>1, DurableIsOnDisk
<1>3. \A r : Payer(r)' = Payer(r)
  BY <1>1, PayersKept
<1>4. Drain!Tick
  BY <1>1, <1>2, <1>3 DEF Drain!Tick
<1>5. InPool'
  BY <1>1, <1>2 DEF InPool, State, Sound, Steady
<1> QED
  BY <1>1, <1>4, <1>5, QuietSteady DEF Sound, Refined, Drain!Next

-----------------------------------------------------------------------------
(***************************************************************************)
(* Taking over, and handing out.                                           *)
(***************************************************************************)

LEMMA MayServe ==
    ASSUME Consistent, NEW fp \in Enabled(NoConfig),
           BlockedLocked(NoConfig, Durable.Keys, fp, now) = Nobody
    PROVE  Drain!Available(fp)
<1>1. Durable.Keys[fp] \in KeyState /\ now \in Nat
  BY DurableType, ConsistentParts, NoConfigType, AccountsType
<1>2. /\ now >= CooldownEnd(Durable.Keys[fp])
      /\ now >= Durable.Keys[fp].RateLimitedUntil
  BY <1>1, Unblocked
<1> QED
  BY <1>2 DEF Drain!Available

\* What a pool that runs on the file has in memory.
LEMMA PoolIsDurable ==
    ASSUME Sound, up, store
    PROVE  /\ cfg = NoConfig /\ byAuthID = Routes(NoConfig, NoRoutes)
           /\ current = Durable.Current /\ keys = Durable.Keys
<1>1. State = Durable /\ cfg = NoConfig /\ byAuthID = Routes(NoConfig, NoRoutes)
  BY DEF Sound, Steady, InPool
<1>2. State.Current = current /\ State.Keys = keys
  BY DEF State
<1> QED
  BY <1>1, <1>2

\* The request that is handed out is one of the account's.
LEMMA HandOutSeen ==
    ASSUME Sound, up, store, NEW r \in Requests, NEW fp \in Enabled(NoConfig),
           HandOut(r, fp)
    PROVE  /\ reqs'[r] # Idle /\ Payer(r)' = fp
           /\ \A q \in Requests :
                 q # r => reqs'[q] = reqs[q] /\ Payer(q)' = Payer(q)
<1>1. cfg = NoConfig /\ byAuthID = Routes(NoConfig, NoRoutes)
  BY PoolIsDurable
<1>2. /\ byAuthID[reqs'[r].auth] = fp
      /\ \A q \in Requests : q # r => reqs'[q] = reqs[q]
  BY <1>1, HandOutLeadsBack DEF Sound
<1>3. reqs'[r] # Idle
  <2>1. now \in Nat \ {0} /\ reqs \in [Requests -> Flights]
    BY ConsistentParts DEF Sound
  <2>2. reqs'[r].at = now
    <3>1. \E e : reqs' = [reqs EXCEPT ![r] = [auth |-> AccountLocked(cfg, fp).AuthID,
                                              at |-> now, resumed |-> e]]
      BY Zenon DEF HandOut
    <3> QED
      BY <2>1, <3>1
  <2>3. Idle.at = 0
    BY Zenon DEF Idle
  <2> QED
    BY <2>1, <2>2, <2>3
<1>4. Payer(r)' = fp
  <2>1. Payer(r)' = IF reqs'[r] = Idle THEN Nobody
                    ELSE Routes(NoConfig, NoRoutes)[reqs'[r].auth]
    BY DEF Payer, Nobody, Idle, Routes, NoRoutes
  <2> QED
    BY <1>1, <1>2, <1>3, <2>1
<1>5. \A q \in Requests : q # r => Payer(q)' = Payer(q)
  BY <1>2 DEF Payer, Idle
<1> QED
  BY <1>2, <1>3, <1>4, <1>5

\* A request goes to the account that serves from then on.
LEMMA HandOutRefines ==
    ASSUME Sound, up, store, NEW r \in Requests, reqs[r] = Idle,
           NEW fp \in Enabled(NoConfig), HandOut(r, fp),
           BlockedLocked(NoConfig, Durable.Keys, fp, now) = Nobody,
           Durable.Current \in {fp, Nobody}, Durable'.Current = fp,
           Durable'.Keys = Durable.Keys, now' = now, InPool'
    PROVE  Steady' /\ Refined
<1>1. /\ reqs'[r] # Idle /\ Payer(r)' = fp
      /\ \A q \in Requests :
            q # r => reqs'[q] = reqs[q] /\ Payer(q)' = Payer(q)
  BY HandOutSeen
<1>2. Payer(r) = Nobody
  BY FlightsSeen DEF Sound
<1>3. Drain!Available(fp)
  BY MayServe DEF Sound
<1>4. Drain!HandOut(r, fp)
  BY <1>1, <1>2, <1>3 DEF Drain!HandOut
<1>5. SlackKeys(Durable.Keys)'
  BY DEF Sound, Steady, SlackKeys, Slack
<1>6. PayersEnabled'
  BY <1>1 DEF Sound, Steady, PayersEnabled, Idle
<1> QED
  BY <1>4, <1>5, <1>6 DEF Steady, Refined, Drain!Next

\* An account takes over, or nobody, and no request is handed out.
LEMMA ServeRefines ==
    ASSUME Sound, UNCHANGED <<now, reqs>>, Durable'.Keys = Durable.Keys, InPool',
           \/ Durable'.Current = Durable.Current
           \/ /\ Durable.Current = Nobody
              /\ Durable'.Current \in Enabled(NoConfig)
              /\ BlockedLocked(NoConfig, Durable.Keys, Durable'.Current, now)
                   = Nobody
    PROVE  Steady' /\ Refined
<1>1. \A r : Payer(r)' = Payer(r)
  BY PayersKept
<1>2. SlackKeys(Durable.Keys)'
  BY DEF Sound, Steady, SlackKeys, Slack
<1>3. PayersEnabled'
  BY <1>1 DEF Sound, Steady, PayersEnabled, Idle
<1>4. CASE Durable'.Current = Durable.Current
  <2>1. UNCHANGED Drain!vars
    BY <1>1, <1>4 DEF Drain!vars
  <2> QED
    BY <1>2, <1>3, <1>4, <2>1 DEF Sound, Steady, Refined
<1>5. CASE /\ Durable.Current = Nobody
           /\ Durable'.Current \in Enabled(NoConfig)
           /\ BlockedLocked(NoConfig, Durable.Keys, Durable'.Current, now)
                = Nobody
  <2>1. PICK fp \in Enabled(NoConfig) : fp = Durable'.Current
    BY <1>5
  <2>2. Drain!Available(fp)
    BY <1>5, <2>1, MayServe DEF Sound
  <2>3. Drain!Serve(fp)
    BY <1>1, <1>5, <2>1, <2>2 DEF Drain!Serve
  <2> QED
    BY <1>2, <1>3, <1>5, <2>3 DEF Steady, Refined, Drain!Next
<1> QED
  BY <1>4, <1>5

\* Reloading the same configuration changes no route and no record.
LEMMA ReloadedRoutes ==
    Routes(NoConfig, Routes(NoConfig, NoRoutes)) = Routes(NoConfig, NoRoutes)
<1>1. Nobody \notin Configured(NoConfig)
  BY NobodyIsNone, NoConfigType, AccountsType
<1>2. \A a \in AuthIDs : NoRoutes[a] = Nobody
  BY Zenon DEF NoRoutes, Nobody
<1>3. \A old : Routes(NoConfig, old) =
        [a \in AuthIDs |->
           IF \E i \in 1..Len(NoConfig.Accounts) : NoConfig.Accounts[i].AuthID = a
           THEN NoConfig.Accounts[CHOOSE i \in 1..Len(NoConfig.Accounts) :
                                     NoConfig.Accounts[i].AuthID = a].Fingerprint
           ELSE IF old[a] \in Configured(NoConfig) THEN old[a] ELSE Nobody]
  BY Zenon DEF Routes, Nobody
<1> QED
  BY <1>1, <1>2, <1>3

LEMMA ReloadedKeys ==
    ASSUME Sound, up, store
    PROVE  Install(NoConfig, keys) = keys
<1>1. keys \in [DOMAIN keys -> KeyState] /\ Configured(NoConfig) \subseteq DOMAIN keys
  BY PoolIsDurable, ConsistentParts DEF Sound
<1>2. DOMAIN keys \cup Configured(NoConfig) = DOMAIN keys
  BY <1>1
<1>3. Install(NoConfig, keys) =
        [fp \in DOMAIN keys |-> IF fp \in DOMAIN keys THEN keys[fp] ELSE FreshKey]
  BY <1>2, Zenon DEF Install
<1> QED
  BY <1>1, <1>3

LEMMA ReconfigureRefines ==
    ASSUME Configs = {NoConfig}, "storage" \notin Hazards, Sound, Consistent',
           NEW c \in Configs, NEW oc \in SaveOutcomes, Reconfigure(c, oc)
    PROVE  Steady' /\ Refined
<1>1. c = NoConfig
  OBVIOUS
<1>2. /\ up /\ store /\ up' /\ store' /\ cfg' = NoConfig
      /\ keys' = Install(NoConfig, keys)
      /\ byAuthID' = Routes(NoConfig, byAuthID)
      /\ disk' = Written(NoConfig.StateDir, State', oc)
      /\ UNCHANGED <<now, reqs>>
  BY <1>1 DEF Reconfigure
<1>3. /\ cfg = NoConfig /\ byAuthID = Routes(NoConfig, NoRoutes)
      /\ current = Durable.Current /\ keys = Durable.Keys
  BY <1>2, PoolIsDurable
<1>4. keys' = keys /\ byAuthID' = Routes(NoConfig, NoRoutes)
  BY <1>2, <1>3, ReloadedRoutes, ReloadedKeys
<1>5. Durable' = State'
  BY <1>2, SavedIsDurable DEF Sound
<1>6. Durable'.Current = current' /\ Durable'.Keys = keys'
  BY <1>5 DEF State
<1>7. InPool'
  BY <1>2, <1>4, <1>5 DEF InPool, Routes, NoRoutes
<1>8. \/ current' = current
      \/ /\ current \notin Enabled(NoConfig)
         /\ current' = ChooseLocked(NoConfig, keys, cursor, now)
  <2>1. \/ current' = current
        \/ /\ current \notin Enabled(NoConfig)
           /\ current' = ChooseLocked(NoConfig, Install(NoConfig, keys), cursor, now)
    BY <1>1 DEF Reconfigure
  <2>2. Install(NoConfig, keys) = keys
    BY <1>2, <1>4
  <2> QED
    BY <2>1, <2>2
<1>9. \/ Durable'.Current = Durable.Current
      \/ /\ Durable.Current = Nobody
         /\ Durable'.Current \in Enabled(NoConfig)
         /\ BlockedLocked(NoConfig, Durable.Keys, Durable'.Current, now) = Nobody
  <2>1. CASE current' = current
    BY <1>3, <1>6, <2>1
  <2>2. CASE /\ current \notin Enabled(NoConfig)
             /\ current' = ChooseLocked(NoConfig, keys, cursor, now)
    <3>1. current = Nobody
      BY <1>3, <2>2 DEF Sound, Steady
    <3>2. CASE current' = Nobody
      BY <1>3, <1>6, <3>1, <3>2
    <3>3. CASE current' # Nobody
      <4>1. ChooseLocked(NoConfig, keys, cursor, now) # ""
        BY <2>2, <3>3, Zenon DEF Nobody
      <4>2. /\ current' \in Enabled(NoConfig)
            /\ BlockedLocked(NoConfig, keys, current', now) = ""
        BY <2>2, <4>1, NoConfigType, ChooseIsEligible, Zenon
      <4>3. BlockedLocked(NoConfig, keys, current', now) = Nobody
        BY <4>2, Zenon DEF Nobody
      <4>4. current' \in Enabled(NoConfig)
        BY <4>2, Zenon
      <4> QED
        BY <1>3, <1>6, <3>1, <4>3, <4>4
    <3> QED
      BY <3>2, <3>3
  <2> QED
    BY <1>8, <2>1, <2>2
<1> QED
  BY <1>2, <1>3, <1>4, <1>6, <1>7, <1>9, ServeRefines

\* Nobody serves: the account that Pick chooses takes over, with the request or
\* before it.
LEMMA PickFirstRefines ==
    ASSUME "storage" \notin Hazards, Sound, Consistent',
           NEW r \in Requests, NEW listed, NEW oc \in SaveOutcomes,
           PickFirst(r, listed, oc)
    PROVE  Steady' /\ Refined
<1>1. /\ up /\ up' /\ reqs[r] = Idle /\ current = Nobody /\ current' # Nobody
      /\ current' = ChooseLocked(cfg, keys, cursor, now)
      /\ SaveLocked(fault, oc) /\ (UNCHANGED reqs \/ HandOut(r, current'))
      /\ UNCHANGED <<now, up, cfg, keys, byAuthID, store>>
  BY Zenon DEF PickFirst, Serving, Nobody
<1>2. store
  BY Zenon DEF PickFirst, Serving, Sound, ServesOnlyWithStore
<1>3. /\ cfg = NoConfig /\ byAuthID = Routes(NoConfig, NoRoutes)
      /\ current = Durable.Current /\ keys = Durable.Keys
  BY <1>1, <1>2, PoolIsDurable
<1>4. Durable' = State'
  BY <1>1, <1>2, <1>3, LockedIsDurable DEF Sound
<1>5. Durable'.Current = current' /\ Durable'.Keys = keys'
  BY <1>4 DEF State
<1>6. InPool'
  BY <1>1, <1>3, <1>4 DEF InPool, Routes, NoRoutes
<1>7. /\ current' \in Enabled(NoConfig)
      /\ BlockedLocked(NoConfig, keys, current', now) = Nobody
  <2>1. ChooseLocked(NoConfig, keys, cursor, now) # ""
    BY <1>1, <1>3, Zenon DEF Nobody
  <2>2. /\ current' \in Enabled(NoConfig)
        /\ BlockedLocked(NoConfig, keys, current', now) = ""
    BY <1>1, <1>3, <2>1, NoConfigType, ChooseIsEligible, Zenon
  <2> QED
    BY <2>2, Zenon DEF Nobody
<1>8. CASE UNCHANGED reqs
  BY <1>1, <1>3, <1>5, <1>6, <1>7, <1>8, ServeRefines
<1>9. CASE HandOut(r, current')
  <2>1. PICK fp \in Enabled(NoConfig) : fp = current'
    BY <1>7
  <2>2. HandOut(r, fp)
    BY <1>9, <2>1
  <2> QED
    BY <1>1, <1>2, <1>3, <1>5, <1>6, <1>7, <2>1, <2>2, HandOutRefines
<1> QED
  BY <1>1, <1>8, <1>9

LEMMA PickCurrentRefines ==
    ASSUME Sound, NEW r \in Requests, PickCurrent(r)
    PROVE  Steady' /\ Refined
<1>1. /\ up /\ reqs[r] = Idle /\ current # Nobody
      /\ BlockedLocked(cfg, keys, current, now) = Nobody
      /\ HandOut(r, current)
      /\ UNCHANGED <<now, up, cfg, current, cursor, keys, byAuthID, store, disk>>
  BY Zenon DEF PickCurrent, Serving, Nobody, poolVars
<1>2. store
  BY Zenon DEF PickCurrent, Serving, Sound, ServesOnlyWithStore
<1>3. /\ cfg = NoConfig /\ byAuthID = Routes(NoConfig, NoRoutes)
      /\ current = Durable.Current /\ keys = Durable.Keys
  BY <1>1, <1>2, PoolIsDurable
<1>4. Durable' = Durable
  BY <1>1, DurableIsOnDisk
<1>5. InPool'
  BY <1>1, <1>4 DEF InPool, State, Sound, Steady
<1>6. current \in Enabled(NoConfig)
  BY <1>1, <1>3 DEF Sound, Steady
<1>7. PICK fp \in Enabled(NoConfig) : fp = current
  BY <1>6
<1> QED
  BY <1>1, <1>2, <1>3, <1>4, <1>5, <1>7, HandOutRefines

-----------------------------------------------------------------------------
(***************************************************************************)
(* Resume.                                                                 *)
(***************************************************************************)

\* The note of a resume on a request under way changes neither its account nor
\* that it is under way.
LEMMA NotesUnseen ==
    ASSUME Consistent, NEW fp, NEW oc, Resume(fp, oc), NEW q \in Requests
    PROVE  Payer(q)' = Payer(q) /\ (reqs'[q] = Idle <=> reqs[q] = Idle)
<1>1. \/ reqs'[q] = reqs[q]
      \/ reqs[q] # Idle /\ reqs'[q] = [reqs[q] EXCEPT !.resumed = cfg.StateDir]
  BY DEF Resume
<1>2. CASE reqs'[q] = reqs[q]
  BY <1>2 DEF Payer, Idle
<1>3. CASE reqs[q] # Idle /\ reqs'[q] = [reqs[q] EXCEPT !.resumed = cfg.StateDir]
  <2>1. \E D : reqs[q] \in [auth : AuthIDs, at : Nat \ {0}, resumed : D]
    BY <1>3, ConsistentParts, Zenon DEF Flights
  <2>2. reqs'[q].auth = reqs[q].auth /\ reqs'[q].at # 0
    BY <1>3, <2>1
  <2>3. reqs'[q] # Idle
    <3>1. Idle.at = 0
      BY Zenon DEF Idle
    <3> QED
      BY <2>2, <3>1
  <2>4. Payer(q) = Routes(NoConfig, NoRoutes)[reqs[q].auth]
    BY <1>3 DEF Payer
  <2>5. Payer(q)' = IF reqs'[q] = Idle THEN Nobody
                    ELSE Routes(NoConfig, NoRoutes)[reqs'[q].auth]
    BY DEF Payer, Nobody, Idle, Routes, NoRoutes
  <2> QED
    BY <1>3, <2>2, <2>3, <2>4, <2>5
<1> QED
  BY <1>1, <1>2, <1>3

LEMMA ResumeRefines ==
    ASSUME "storage" \notin Hazards, Sound, Consistent',
           NEW fp \in Fingerprints, NEW oc \in SaveOutcomes, Resume(fp, oc)
    PROVE  Steady' /\ Refined
<1>1. /\ up /\ fp \in Enabled(cfg) /\ SaveLocked(fault, oc)
      /\ UNCHANGED <<now, up, cfg, current, cursor, byAuthID, store>>
  BY DEF Resume
<1>2. \A q \in Requests :
         Payer(q)' = Payer(q) /\ (reqs'[q] = Idle <=> reqs[q] = Idle)
  BY NotesUnseen DEF Sound
<1>3. CASE ~store
  <2>1. disk' = disk
    BY <1>1, <1>3, Zenon DEF SaveLocked
  <2>2. reqs' = reqs
    <3>1. \A q \in Requests : reqs'[q] = reqs[q]
      BY <1>3, Zenon DEF Resume
    <3>2. /\ reqs \in [Requests -> Flights]
          /\ reqs' = [q \in Requests |-> reqs'[q]]
      BY ConsistentParts DEF Resume, Sound
    <3> QED
      BY <3>1, <3>2
  <2> QED
    BY <1>1, <1>3, <2>1, <2>2, FaultRefines
<1>4. CASE store
  <2>1. /\ cfg = NoConfig /\ byAuthID = Routes(NoConfig, NoRoutes)
        /\ current = Durable.Current /\ keys = Durable.Keys
    BY <1>1, <1>4, PoolIsDurable
  <2>2. Durable' = State'
    BY <1>1, <1>4, <2>1, LockedIsDurable DEF Sound
  <2>3. Durable'.Current = current' /\ Durable'.Keys = keys'
    BY <2>2 DEF State
  <2>4. InPool'
    BY <1>1, <2>1, <2>2 DEF InPool, Routes, NoRoutes
  <2>5. /\ fp \in DOMAIN keys /\ DOMAIN keys \subseteq Fingerprints
        /\ keys \in [DOMAIN keys -> KeyState]
        /\ Enabled(NoConfig) \subseteq Configured(NoConfig)
        /\ Configured(NoConfig) \subseteq DOMAIN keys
    BY <1>1, <2>1, ConsistentParts DEF Sound
  <2>6. PICK k : k = [FreshKey EXCEPT !.IgnoreBefore = now,
                                      !.LastFailureAt = keys[fp].LastFailureAt]
    OBVIOUS
  <2>7. keys' = [keys EXCEPT ![fp] = k]
    BY <2>6 DEF Resume
  <2>8. /\ k \in KeyState /\ k.RateLimitedUntil = 0 /\ k.ExhaustedUntil = 0
        /\ k.SuspendedUntil = 0 /\ k.TransientUntil = 0
    <3>1. now \in Nat
      BY ConsistentParts DEF Sound
    <3> QED
      BY <2>5, <2>6, <3>1 DEF FreshKey, KeyState
  <2>9. CooldownEnd(k) = 0
    BY <2>8, EndIsLast
  <2>10. Slack(k)
    <3>1. k.LastFailureAt \in Nat
      BY <2>8 DEF KeyState
    <3> QED
      BY <2>8, <3>1, NoConfigType, AccountsType DEF Slack
  <2>11. keys'[fp] = k /\ \A e \in DOMAIN keys : e # fp => keys'[e] = keys[e]
    BY <2>5, <2>7
  <2>12. Drain!Resume(fp)
    BY <1>1, <1>2, <2>1, <2>3, <2>5, <2>8, <2>9, <2>11 DEF Drain!Resume
  <2>13. SlackKeys(keys)
    BY <2>1 DEF Sound, Steady
  <2>14. \A e \in Configured(NoConfig) : Slack(keys'[e])
    BY <2>5, <2>10, <2>11, <2>13 DEF SlackKeys
  <2>15. SlackKeys(Durable.Keys)'
    BY <2>3, <2>14 DEF SlackKeys, Slack
  <2>16. PayersEnabled'
    BY <1>2 DEF Sound, Steady, PayersEnabled, Idle
  <2>17. fp \in Enabled(NoConfig)
    BY <1>1, <2>1
  <2> QED
    BY <1>1, <2>1, <2>3, <2>4, <2>12, <2>15, <2>16, <2>17
    DEF Sound, Steady, Refined, Drain!Next
<1> QED
  BY <1>3, <1>4

-----------------------------------------------------------------------------
(***************************************************************************)
(* Outcomes.                                                               *)
(***************************************************************************)

\* The account that Observe looks up is the one that was handed out.
LEMMA OwnerIsPayer ==
    ASSUME Sound, up, store, NEW r \in Requests, reqs[r] # Idle
    PROVE  Owner(r) = Payer(r) /\ Payer(r) \in Enabled(NoConfig)
<1>1. byAuthID = Routes(NoConfig, NoRoutes)
  BY PoolIsDurable
<1> QED
  BY <1>1 DEF Owner, Payer, Sound, Steady, PayersEnabled

\* An outcome that is dropped, a success and a stale failure change nothing.
LEMMA UncountedRefines ==
    ASSUME "storage" \notin Hazards, Sound, Consistent', NEW r \in Requests,
           ObserveDropped(r) \/ \E oc \in SaveOutcomes : Counted(r, oc)
    PROVE  Steady' /\ Refined
<1>1. /\ up /\ reqs[r] # Idle
      /\ reqs' = reqs \/ reqs' = [reqs EXCEPT ![r] = Idle]
      /\ UNCHANGED <<now, up, cfg, current, cursor, keys, byAuthID, store>>
  BY DEF ObserveDropped, Counted, Reported
<1>2. State' = State
  BY <1>1 DEF State
<1>3. Durable' = Durable
  <2>1. CASE ObserveDropped(r)
    BY <2>1, DurableIsOnDisk DEF ObserveDropped
  <2>2. CASE \E oc \in SaveOutcomes : Counted(r, oc)
    <3>1. PICK oc \in SaveOutcomes : Counted(r, oc)
      BY <2>2
    <3>2. store /\ SaveLocked(fault, oc)
      BY <3>1 DEF Counted
    <3>3. cfg = NoConfig /\ State = Durable
      BY <1>1, <3>2 DEF Sound, Steady, InPool
    <3>4. Durable' = State'
      BY <1>1, <3>2, <3>3, LockedIsDurable DEF Sound
    <3> QED
      BY <1>2, <3>3, <3>4
  <2> QED
    BY <2>1, <2>2
<1>4. InPool'
  BY <1>1, <1>2, <1>3 DEF InPool, Sound, Steady
<1> QED
  BY <1>1, <1>3, <1>4, ReturnRefines

\* Three ends that do not come earlier make no earlier end of the cooldown.
LEMMA EndsLater ==
    ASSUME NEW i \in KeyState, NEW j \in KeyState,
           i.ExhaustedUntil <= j.ExhaustedUntil,
           i.SuspendedUntil <= j.SuspendedUntil,
           i.TransientUntil <= j.TransientUntil
    PROVE  CooldownEnd(i) <= CooldownEnd(j)
<1>1. /\ i.ExhaustedUntil \in Nat /\ i.SuspendedUntil \in Nat
      /\ i.TransientUntil \in Nat /\ j.ExhaustedUntil \in Nat
      /\ j.SuspendedUntil \in Nat /\ j.TransientUntil \in Nat
  BY DEF KeyState
<1>2. /\ CooldownEnd(j) \in Nat /\ j.ExhaustedUntil <= CooldownEnd(j)
      /\ j.SuspendedUntil <= CooldownEnd(j) /\ j.TransientUntil <= CooldownEnd(j)
  BY EndIsLast
<1>3. CooldownEnd(i) \in {i.ExhaustedUntil, i.SuspendedUntil, i.TransientUntil}
  BY EndIsLast
<1> QED
  BY <1>1, <1>2, <1>3

\* The record j has no earlier end than i, and keeps its slack.
Outlasts(i, j) ==
    /\ i \in KeyState /\ j \in KeyState
    /\ CooldownEnd(i) <= CooldownEnd(j)
    /\ i.RateLimitedUntil <= j.RateLimitedUntil
    /\ Slack(j)

\* A failure that counts never shortens a cooldown or a rate limit: it was
\* observed no earlier than the last one, and an exhausted account's record is
\* closed until the reset.
LEMMA FailureLengthens ==
    ASSUME Sound, NEW r \in Requests, NEW ras \in RequestTimes(r) \cap Nat,
           NEW lat \in Nat, NEW k, NEW moves, NEW oc,
           CountedFailure(r, ras, lat, k, moves, oc)
    PROVE  Outlasts(keys[Owner(r)], Stamped(k, ras, lat))
<1>i. PICK i : i = keys[Owner(r)]
  OBVIOUS
<1>j. PICK j : j = Stamped(k, ras, lat)
  OBVIOUS
<1> DEFINE observed == Observed(ras, lat)
<1>1. /\ up /\ store /\ reqs[r] # Idle /\ Owner(r) # ""
      /\ ~Stale(keys[Owner(r)], ras, observed)
  BY DEF CountedFailure, Failure, Reported
<1>2. k \in KeyState /\ j \in KeyState /\ Owner(r) \in Configured(cfg)
  BY <1>j, FailureEffect DEF Sound
<1>3. i \in KeyState
  BY <1>i, <1>1, OwnerType DEF Sound
<1>4. observed \in Nat /\ now \in Nat
  BY ObservedType, ConsistentParts DEF Sound
<1>5. /\ j.ExhaustedUntil = k.ExhaustedUntil /\ j.SuspendedUntil = k.SuspendedUntil
      /\ j.TransientUntil = k.TransientUntil
      /\ j.RateLimitedUntil = k.RateLimitedUntil /\ j.LastFailureAt = observed
  BY <1>j, <1>2 DEF Stamped, KeyState
<1>6. cfg = NoConfig /\ SlackKeys(keys)
  BY <1>1, PoolIsDurable DEF Sound, Steady
<1>7. Slack(i)
  BY <1>i, <1>2, <1>6 DEF SlackKeys
<1>8. ~(observed < i.LastFailureAt)
  BY <1>i, <1>1 DEF Stale
<1>9. Lengthens(i, k, observed)
  BY <1>i DEF CountedFailure
<1>10. i.ExhaustedUntil <= now
  BY <1>i, CountedIsPast DEF Sound
<1>11. k.ExhaustedUntil = i.ExhaustedUntil \/ k.ExhaustedUntil > now
  BY <1>i DEF CountedFailure
<1>12. NoConfig.AuthSuspension \in Nat /\ NoConfig.TransientFallback \in Nat
  BY NoConfigType, AccountsType
<1> HIDE DEF observed
<1>13. /\ i.ExhaustedUntil \in Nat /\ i.SuspendedUntil \in Nat
       /\ i.TransientUntil \in Nat /\ i.RateLimitedUntil \in Nat
       /\ i.LastFailureAt \in Nat /\ j.ExhaustedUntil \in Nat
       /\ j.SuspendedUntil \in Nat /\ j.TransientUntil \in Nat
       /\ j.RateLimitedUntil \in Nat
  BY <1>2, <1>3 DEF KeyState
<1>14. i.ExhaustedUntil <= j.ExhaustedUntil
  BY <1>4, <1>5, <1>10, <1>11, <1>13
<1>15. /\ i.SuspendedUntil <= j.SuspendedUntil
       /\ j.SuspendedUntil <= observed + NoConfig.AuthSuspension
  BY <1>4, <1>5, <1>6, <1>7, <1>8, <1>9, <1>12, <1>13 DEF Slack, Lengthens
<1>16. /\ i.TransientUntil <= j.TransientUntil
       /\ j.TransientUntil <= observed + NoConfig.TransientFallback
  BY <1>4, <1>5, <1>6, <1>7, <1>8, <1>9, <1>12, <1>13 DEF Slack, Lengthens
<1>17. i.RateLimitedUntil <= j.RateLimitedUntil
  BY <1>5, <1>9, <1>13 DEF Lengthens
<1>18. Slack(j)
  BY <1>5, <1>15, <1>16 DEF Slack
<1>19. CooldownEnd(i) <= CooldownEnd(j)
  BY <1>2, <1>3, <1>14, <1>15, <1>16, EndsLater
<1> QED
  BY <1>i, <1>j, <1>2, <1>3, <1>17, <1>18, <1>19 DEF Outlasts

\* chooseLocked's answer is a successor, in the new state.
LEMMA ChosenSucceeds ==
    ASSUME Consistent', NEW after, NEW t, t = now',
           NEW ks, ks = Durable'.Keys,
           \A fp \in Enabled(NoConfig) : ks[fp] \in KeyState,
           Durable'.Current = ChooseLocked(NoConfig, ks, after, t)
    PROVE  /\ Durable'.Current \in Drain!Successors'
           /\ Durable'.Current \in Enabled(NoConfig) \cup {Nobody}
<1>1. t \in Nat
  BY DEF Consistent, TypeOK
<1>2. \A fp \in Enabled(NoConfig) :
         Drain!Available(fp)' <=> BlockedLocked(NoConfig, ks, fp, t) = Nobody
  <2> TAKE fp \in Enabled(NoConfig)
  <2>1. BlockedLocked(NoConfig, ks, fp, t) = Nobody
          <=> t >= CooldownEnd(ks[fp]) /\ t >= ks[fp].RateLimitedUntil
    BY <1>1, Unblocked
  <2>2. Drain!Available(fp)'
          <=> t >= CooldownEnd(ks[fp]) /\ t >= ks[fp].RateLimitedUntil
    BY DEF Drain!Available
  <2> QED
    BY <2>1, <2>2
<1>3. PICK next : next = ChooseLocked(NoConfig, ks, after, t)
  OBVIOUS
<1>4. CASE next = Nobody
  <2>1. \A fp \in Enabled(NoConfig) : BlockedLocked(NoConfig, ks, fp, t) # Nobody
    BY <1>3, <1>4, NoConfigType, ChooseIsComplete
  <2>2. Drain!Successors' = {Nobody}
    BY <1>2, <2>1 DEF Drain!Successors
  <2> QED
    BY <1>3, <1>4, <2>2
<1>5. CASE next # Nobody
  <2>1. ChooseLocked(NoConfig, ks, after, t) # ""
    BY <1>3, <1>5, Zenon DEF Nobody
  <2>2. next \in Enabled(NoConfig) /\ BlockedLocked(NoConfig, ks, next, t) = Nobody
    BY <1>3, <2>1, NoConfigType, ChooseIsEligible, Zenon DEF Nobody
  <2>3. next \in Drain!Successors'
    BY <1>2, <2>2 DEF Drain!Successors
  <2> QED
    BY <1>3, <2>2, <2>3
<1> QED
  BY <1>4, <1>5

\* A failure that counts.
LEMMA FailureRefines ==
    ASSUME "storage" \notin Hazards, Sound, Consistent', NEW r \in Requests,
           NEW ras \in RequestTimes(r) \cap Nat, NEW lat \in Nat,
           NEW oc \in SaveOutcomes, NEW k, NEW moves,
           CountedFailure(r, ras, lat, k, moves, oc)
    PROVE  Steady' /\ Refined
<1>1. reqs' = reqs \/ reqs' = [reqs EXCEPT ![r] = Idle]
  BY DEF CountedFailure, Failure, Reported
<1>2. /\ up /\ store /\ UNCHANGED <<now, up, cfg, byAuthID, store>>
      /\ keys' = [keys EXCEPT ![Owner(r)] = Stamped(k, ras, lat)]
      /\ \/ /\ current' = current
            /\ current # Owner(r) \/ SameCooling(k, keys[Owner(r)])
         \/ /\ current = Owner(r)
            /\ current' = ChooseLocked(cfg, keys', Owner(r), now)
      /\ SaveLocked(fault, oc)
  BY FailureEffect DEF Sound
<1>3. /\ cfg = NoConfig /\ byAuthID = Routes(NoConfig, NoRoutes)
      /\ current = Durable.Current /\ keys = Durable.Keys
  BY <1>2, PoolIsDurable
<1>4. Durable' = State'
  BY <1>2, <1>3, LockedIsDurable DEF Sound
<1>5. Durable'.Current = current' /\ Durable'.Keys = keys'
  BY <1>4 DEF State
<1>6. InPool'
  BY <1>2, <1>3, <1>4 DEF InPool, Routes, NoRoutes
<1>7. reqs[r] # Idle
  BY DEF CountedFailure, Failure, Reported
<1>8. PICK fp \in Enabled(NoConfig) : fp = Owner(r) /\ fp = Payer(r)
  BY <1>2, <1>7, OwnerIsPayer
<1>9. PICK j : j = Stamped(k, ras, lat)
  OBVIOUS
<1>10. PICK i : i = keys[fp]
  OBVIOUS
<1>11. /\ i \in KeyState /\ j \in KeyState
       /\ CooldownEnd(i) <= CooldownEnd(j)
       /\ i.RateLimitedUntil <= j.RateLimitedUntil
       /\ Slack(j)
       /\ SameCooling(k, i) => CooldownEnd(j) = CooldownEnd(i)
  <2>1. Outlasts(keys[Owner(r)], Stamped(k, ras, lat))
    BY FailureLengthens
  <2>2. Outlasts(i, j)
    BY <1>8, <1>9, <1>10, <2>1
  <2>3. k \in KeyState
    BY FailureEffect DEF Sound
  <2>4. SameCooling(k, i) => CooldownEnd(j) = CooldownEnd(i)
    BY <1>9, <2>3 DEF SameCooling, CooldownEnd, Stamped, KeyState
  <2> QED
    BY <2>2, <2>4 DEF Outlasts
<1>12. /\ keys \in [DOMAIN keys -> KeyState]
       /\ Enabled(NoConfig) \subseteq Configured(NoConfig)
       /\ Configured(NoConfig) \subseteq DOMAIN keys
  BY <1>2, <1>3, ConsistentParts DEF Sound
<1>13. /\ keys'[fp] = j
       /\ \A e \in Configured(NoConfig) : e # fp => keys'[e] = keys[e]
  BY <1>2, <1>8, <1>9, <1>12
<1>14. \A e \in Enabled(NoConfig) : keys'[e] \in KeyState
  BY <1>11, <1>12, <1>13
<1>15. \/ /\ current' = current
          /\ current = fp => CooldownEnd(j) = CooldownEnd(i)
       \/ /\ current = fp
          /\ Durable'.Current \in Drain!Successors'
  <2>1. CASE /\ current' = current
             /\ current # Owner(r) \/ SameCooling(k, keys[Owner(r)])
    BY <1>8, <1>10, <1>11, <2>1
  <2>2. CASE /\ current = Owner(r)
             /\ current' = ChooseLocked(cfg, keys', Owner(r), now)
    <3>1. PICK ks : ks = keys'
      OBVIOUS
    <3>2. Durable'.Current = ChooseLocked(NoConfig, ks, fp, now)
      BY <1>3, <1>5, <1>8, <2>2, <3>1
    <3>3. Durable'.Current \in Drain!Successors'
      BY <1>2, <1>5, <1>14, <3>1, <3>2, ChosenSucceeds
    <3> QED
      BY <1>8, <2>2, <3>3
  <2> QED
    BY <1>2, <2>1, <2>2
<1>16. Durable'.Current \in Enabled(NoConfig) \cup {Nobody}
  <2>1. CASE current' = current
    BY <1>3, <1>5, <2>1 DEF Sound, Steady
  <2>2. CASE Durable'.Current \in Drain!Successors'
    BY <2>2 DEF Drain!Successors
  <2> QED
    BY <1>15, <2>1, <2>2
<1>17. reqs \in [Requests -> Flights]
  BY ConsistentParts DEF Sound
<1>18. \A q \in Requests : q # r => Payer(q)' = Payer(q) /\ reqs'[q] = reqs[q]
  BY <1>1, <1>17 DEF Payer, Idle
<1>19. \/ Payer(r)' = Payer(r) /\ reqs'[r] = reqs[r]
       \/ Payer(r)' = Nobody /\ reqs'[r] = Idle
  BY <1>1, <1>17 DEF Payer, Idle
<1>20. fp # Nobody
  BY NobodyIsNone
<1>21. Drain!Fail(r)
  <2> DEFINE until == [e \in Enabled(NoConfig) |-> CooldownEnd(Durable.Keys[e])]
             paused == [e \in Enabled(NoConfig) |-> Durable.Keys[e].RateLimitedUntil]
             out == [q \in Requests |-> Payer(q)]
  <2>1. /\ until' = [until EXCEPT ![fp] = until'[fp]] /\ until'[fp] >= until[fp]
        /\ CooldownEnd(j) = CooldownEnd(i) => until' = until
    <3>1. until[fp] = CooldownEnd(i) /\ until'[fp] = CooldownEnd(j)
      BY <1>3, <1>5, <1>10, <1>13
    <3>2. \A e \in Enabled(NoConfig) : e # fp => until'[e] = until[e]
      BY <1>3, <1>5, <1>12, <1>13
    <3>3. CooldownEnd(i) \in Nat /\ CooldownEnd(j) \in Nat
      BY <1>11, EndIsLast
    <3>4. /\ until' = [e \in Enabled(NoConfig) |-> until'[e]]
          /\ until = [e \in Enabled(NoConfig) |-> until[e]]
      OBVIOUS
    <3> HIDE DEF until
    <3> QED
      BY <1>11, <3>1, <3>2, <3>3, <3>4
  <2>2. /\ paused' = [paused EXCEPT ![fp] = paused'[fp]] /\ paused'[fp] >= paused[fp]
    <3>1. paused[fp] = i.RateLimitedUntil /\ paused'[fp] = j.RateLimitedUntil
      BY <1>3, <1>5, <1>10, <1>13
    <3>2. \A e \in Enabled(NoConfig) : e # fp => paused'[e] = paused[e]
      BY <1>3, <1>5, <1>12, <1>13
    <3>3. i.RateLimitedUntil \in Nat /\ j.RateLimitedUntil \in Nat
      BY <1>11 DEF KeyState
    <3>4. /\ paused' = [e \in Enabled(NoConfig) |-> paused'[e]]
          /\ paused = [e \in Enabled(NoConfig) |-> paused[e]]
      OBVIOUS
    <3> HIDE DEF paused
    <3> QED
      BY <1>11, <3>1, <3>2, <3>3, <3>4
  <2>3. out' \in {out, [out EXCEPT ![r] = Nobody]}
    BY <1>18, <1>19
  <2>4. out[r] = fp
    BY <1>8
  <2>5. \/ /\ Durable'.Current = Durable.Current
           /\ Durable.Current = fp => until' = until
        \/ Durable.Current = fp /\ Durable'.Current \in Drain!Successors'
    BY <1>3, <1>5, <1>15, <2>1
  <2> QED
    BY <1>2, <1>20, <2>1, <2>2, <2>3, <2>4, <2>5 DEF Drain!Fail
<1>22. SlackKeys(Durable.Keys)'
  <2>1. SlackKeys(keys)
    BY <1>3 DEF Sound, Steady
  <2>2. \A e \in Configured(NoConfig) : Slack(keys'[e])
    BY <1>11, <1>13, <2>1 DEF SlackKeys
  <2> QED
    BY <1>5, <2>2 DEF SlackKeys, Slack
<1>23. PayersEnabled'
  BY <1>18, <1>19 DEF Sound, Steady, PayersEnabled, Idle
<1> QED
  BY <1>6, <1>16, <1>21, <1>22, <1>23 DEF Steady, Refined, Drain!Next

LEMMA ObserveRefines ==
    ASSUME "storage" \notin Hazards, Sound, Consistent', NEW r \in Requests,
           Observe(r)
    PROVE  Steady' /\ Refined
<1>1. \/ ObserveDropped(r)
      \/ \E oc \in SaveOutcomes : Counted(r, oc)
      \/ \E ras \in RequestTimes(r) \cap Nat, lat \in Nat, oc \in SaveOutcomes :
         \E k, moves : CountedFailure(r, ras, lat, k, moves, oc)
  BY ObserveCases DEF Sound
<1> QED
  BY <1>1, UncountedRefines, FailureRefines, Zenon

-----------------------------------------------------------------------------
\* Every step of the pool is one of DrainSwitch's or none, and keeps Steady.
LEMMA NextRefines ==
    ASSUME "clock" \notin Hazards, "storage" \notin Hazards,
           Configs = {NoConfig}, Sound, Consistent', [Next]_vars
    PROVE  Steady' /\ Refined
<1>1. CASE Configure
  <2>1. PICK c \in Configs :
           \/ NewPool(c)
           \/ RegisterUnavailable(c)
           \/ \E n \in 0..Len(c.Accounts) : RegisterInvalid(c, n)
           \/ ReconfigureInvalid
           \/ ReconfigureRefused(c)
           \/ \E oc \in SaveOutcomes : Reconfigure(c, oc)
    BY <1>1, Zenon DEF Configure
  <2>2. CASE NewPool(c)
    BY <2>2, NewPoolRefines
  <2>3. CASE RegisterUnavailable(c) \/ \E n \in 0..Len(c.Accounts) : RegisterInvalid(c, n)
    <3>1. ~store' /\ UNCHANGED <<now, disk, reqs>>
      BY <2>3, Zenon DEF RegisterUnavailable, RegisterInvalid, FaultedPool
    <3> QED
      BY <3>1, FaultRefines
  <2>4. CASE ReconfigureInvalid \/ ReconfigureRefused(c)
    <3>1. /\ UNCHANGED <<now, disk, reqs>>
          /\ UNCHANGED <<up, cfg, current, cursor, keys, byAuthID, store>>
      BY <2>4, Zenon DEF ReconfigureInvalid, ReconfigureRefused
    <3> QED
      BY <3>1, FaultRefines
  <2>5. CASE \E oc \in SaveOutcomes : Reconfigure(c, oc)
    BY <2>5, ReconfigureRefines
  <2> QED
    BY <2>1, <2>2, <2>3, <2>4, <2>5
<1>2. CASE \E r \in Requests : Pick(r)
  <2>1. PICK r \in Requests :
           \/ \E listed \in BOOLEAN, oc \in SaveOutcomes : PickFirst(r, listed, oc)
           \/ PickCurrent(r)
           \/ \E listed \in BOOLEAN : PickFailover(r, listed)
    BY <1>2, Zenon DEF Pick
  <2>2. ~\E listed \in BOOLEAN : PickFailover(r, listed)
    BY NoFailover, Zenon DEF PickFailover, Sound
  <2> QED
    BY <2>1, <2>2, PickFirstRefines, PickCurrentRefines
<1>3. CASE \E r \in Requests : Observe(r)
  BY <1>3, ObserveRefines
<1>4. CASE \E r \in Requests : LoseResult(r)
  <2>1. PICK r \in Requests : LoseResult(r)
    BY <1>4
  <2>2. /\ ~up' /\ UNCHANGED <<now, disk>> /\ reqs[r] # Idle
        /\ reqs' = [reqs EXCEPT ![r] = Idle]
    BY <2>1 DEF LoseResult, poolVars
  <2>3. Durable' = Durable
    BY <2>2, DurableIsOnDisk
  <2>4. InPool'
    BY <2>2 DEF InPool
  <2> QED
    BY <2>2, <2>3, <2>4, ReturnRefines
<1>5. CASE Guard
  BY <1>5, NoFailover, Zenon DEF Guard, Sound
<1>6. CASE \E fp \in Fingerprints, oc \in SaveOutcomes : Resume(fp, oc)
  BY <1>6, ResumeRefines
<1>7. CASE FailClosed \/ UNCHANGED vars
  <2>1. /\ UNCHANGED <<now, disk, reqs>>
        /\ UNCHANGED <<up, cfg, current, cursor, keys, byAuthID, store>>
    BY <1>7, Zenon DEF FailClosed, vars, poolVars
  <2> QED
    BY <2>1, FaultRefines
<1>8. CASE \E oc \in SaveOutcomes : Shutdown(oc)
  BY <1>8, ShutdownRefines
<1>9. CASE Crash
  BY <1>9, CrashRefines
<1>10. CASE Tick
  BY <1>10, TickRefines
<1>11. ~StepBack
  BY Zenon DEF StepBack
<1> QED
  BY <1>1, <1>2, <1>3, <1>4, <1>5, <1>6, <1>7, <1>8, <1>9, <1>10, <1>11 DEF Next

\* The first start finds no file: nobody serves, nobody cools down.
LEMMA InitRefines == Init => Sound /\ Drain!Init
<1> SUFFICES ASSUME Init PROVE Sound /\ Drain!Init
  OBVIOUS
<1>1. /\ Consistent /\ Settled /\ Barriers /\ Attributed
  BY InitConsistent, InitSettled, InitBarred, InitAttributed
<1>2. ServesOnlyWithStore /\ InPool /\ now = 1
  BY Zenon DEF Init, ServesOnlyWithStore, InPool
<1>3. \A r \in Requests : reqs[r] = Idle /\ Payer(r) = Nobody
  BY DEF Init, Payer
<1>4. NoConfig.StateDir \in StateDirs
  BY NoConfigType, AccountsType
<1>5. disk[NoConfig.StateDir] = EmptyState
  BY <1>4 DEF Init
<1>6. Durable.Current = Nobody
  <2>1. EmptyState.Current = Nobody
    BY Zenon DEF EmptyState, Nobody
  <2>2. Durable.Current = IF EmptyState.Current \in Configured(NoConfig)
                          THEN EmptyState.Current ELSE Nobody
    BY <1>5, Zenon DEF Durable, Restore, Nobody
  <2> QED
    BY <2>1, <2>2
<1>7. \A fp \in Configured(NoConfig) : Durable.Keys[fp] = FreshKey
  <2>1. EmptyState.Keys = NoKeys
    BY Zenon DEF EmptyState
  <2>2. Durable.Keys = Install(NoConfig, NoKeys)
    BY <1>5, <2>1, Zenon DEF Durable, Restore
  <2> QED
    BY <2>2, NoKeysType DEF Install
<1>8. /\ FreshKey \in KeyState /\ CooldownEnd(FreshKey) = 0
      /\ FreshKey.RateLimitedUntil = 0 /\ Slack(FreshKey)
  <2>1. /\ FreshKey \in KeyState
        /\ FreshKey.ExhaustedUntil = 0 /\ FreshKey.SuspendedUntil = 0
        /\ FreshKey.TransientUntil = 0 /\ FreshKey.RateLimitedUntil = 0
        /\ FreshKey.LastFailureAt = 0
    BY DEF FreshKey, KeyState
  <2>2. CooldownEnd(FreshKey) = 0
    BY <2>1, EndIsLast
  <2>3. Slack(FreshKey)
    BY <2>1, NoConfigType, AccountsType DEF Slack
  <2> QED
    BY <2>1, <2>2, <2>3
<1>9. SlackKeys(Durable.Keys)
  BY <1>7, <1>8 DEF SlackKeys
<1>10. Steady
  BY <1>2, <1>3, <1>6, <1>9 DEF Steady, PayersEnabled
<1>11. Drain!Init
  <2>1. Enabled(NoConfig) \subseteq Configured(NoConfig)
    BY NoConfigType, AccountsType
  <2> QED
    BY <1>2, <1>3, <1>6, <1>7, <1>8, <2>1 DEF Drain!Init
<1> QED
  BY <1>1, <1>2, <1>10, <1>11 DEF Sound

\* Where saves succeed, the clock runs forward and the configuration stays the
\* same, the pool implements the one that has no file and never stops, whatever
\* is stopped, killed, reloaded, refused, resumed or reported late or twice.
THEOREM PoolRefinement ==
    ASSUME "clock" \notin Hazards, "storage" \notin Hazards, Configs = {NoConfig}
    PROVE  Spec => ImplementsDrainSwitch
<1>1. Init => Sound /\ Drain!Init
  BY InitRefines
<1>2. Sound /\ [Next]_vars => Sound'
  <2> SUFFICES ASSUME Sound, [Next]_vars PROVE Sound'
    OBVIOUS
  <2>1. Consistent'
    BY NextConsistent DEF Sound
  <2>2. Settled' /\ Barriers' /\ Attributed' /\ ServesOnlyWithStore'
    BY NextSettled, NextBarred, NextAttributed, NextServesOnlyWithStore DEF Sound
  <2>3. Steady'
    BY <2>1, NextRefines
  <2> QED
    BY <2>1, <2>2, <2>3 DEF Sound
<1>3. Sound /\ [Next]_vars => [Drain!Next]_(Drain!vars)
  <2> SUFFICES ASSUME Sound, [Next]_vars PROVE Refined
    BY DEF Refined
  <2>1. Consistent'
    BY NextConsistent DEF Sound
  <2> QED
    BY <2>1, NextRefines
<1> QED
  BY <1>1, <1>2, <1>3, PTL DEF Spec, ImplementsDrainSwitch, Drain!Spec

-----------------------------------------------------------------------------
(***************************************************************************)
(* Refusals.  Here reloads, restarts and storage errors are back.          *)
(***************************************************************************)

\* The reasons of blockedLocked.
LEMMA BlockedReasons ==
    ASSUME NEW c, NEW ks, NEW fp, NEW t
    PROVE  \/ BlockedLocked(c, ks, fp, t)
                \in {Nobody, "disabled", "rate_limited"}
           \/ Cooling(ks, fp, t)
  BY Zenon DEF BlockedLocked, Cooling, Nobody

\* A pool that does not sit on a cooling account refuses only if nobody can
\* serve, or its current account is rate limited or disabled.
LEMMA SettledRefusals ==
    ASSUME Consistent, Settled
    PROVE  RefusesOnlyIfNobodyCan
<1> DEFINE reason == BlockedLocked(cfg, keys, current, now)
<1> SUFFICES ASSUME PickAnswer = Nobody, NEW fp \in Enabled(cfg),
                    BlockedLocked(cfg, keys, fp, now) = Nobody
             PROVE  current # Nobody /\ reason \in {"rate_limited", "disabled"}
  BY Zenon DEF RefusesOnlyIfNobodyCan, Nobody
<1>1. \A after : ChooseLocked(cfg, keys, after, now) # Nobody
  BY ConsistentParts, ChooseIsComplete
<1>2. current # Nobody
  BY <1>1, Zenon DEF PickAnswer, Nobody
<1>3. ~Cooling(keys, current, now)
  BY <1>2, Zenon DEF Settled, CurrentNeverCooling, Nobody
<1>4. reason # Nobody
  BY <1>2, Zenon DEF PickAnswer, Nobody
<1> QED
  BY <1>2, <1>3, <1>4, BlockedReasons

\* Unless the clock steps back, Pick refuses a request while some account may
\* serve only for a rate limit of the current account, or because that account
\* was disabled while the plugin was down: for any number of accounts, and
\* after any failures, reloads, storage errors and restarts.
THEOREM RefusalsJustified ==
    ASSUME "clock" \notin Hazards
    PROVE  Spec => []RefusesOnlyIfNobodyCan
<1>1. Consistent /\ Settled /\ [Next]_vars => Consistent' /\ Settled'
  BY NextConsistent, NextSettled
<1>2. Consistent /\ Settled => RefusesOnlyIfNobodyCan
  BY SettledRefusals
<1> QED
  BY <1>1, <1>2, InitConsistent, InitSettled, PTL DEF Spec
=============================================================================
