--------------------------- MODULE ZenPoolProofs ---------------------------
(***************************************************************************)
(* Proofs about ZenPool for every set of keys, auth IDs, directories and   *)
(* requests, every configuration and every bound.                          *)
(***************************************************************************)
EXTENDS ZenPool, TLAPS, WellFoundedInduction

-----------------------------------------------------------------------------
(***************************************************************************)
(* Lemmas about the helpers of pool.go.                                    *)
(***************************************************************************)

\* A non-empty set of numbers has the least element chooseLocked's loop stops
\* at, and unavailableLocked's starts from.
LEMMA MinIsLeast == ASSUME NEW S \in SUBSET Nat, NEW x \in S
                    PROVE  Min(S) \in S /\ Min(S) <= x
<1>1. PICK y \in S : \A z \in S : ~(<<z, y>> \in OpToRel(<, Nat))
  BY WFMin, NatLessThanWellFounded
<1>2. ASSUME NEW z \in S PROVE y <= z
  <2>1. z < y => <<z, y>> \in {ss \in Nat \X Nat : ss[1] < ss[2]}
    OBVIOUS
  <2> QED
    BY <1>1, <2>1 DEF OpToRel
<1> QED
  BY <1>2 DEF Min

\* The accounts of a configuration are records of known keys.
LEMMA AccountsType ==
    ASSUME NEW c \in Configuration
    PROVE  /\ Configured(c) \subseteq Fingerprints
           /\ Enabled(c) \subseteq Configured(c)
           /\ Len(c.Accounts) \in Nat
           /\ c.Accounts \in Seq(Account)
           /\ \A i \in 1..Len(c.Accounts) :
                 c.Accounts[i] \in Account
           /\ c.StateDir \in StateDirs
           /\ c.AuthSuspension \in Nat /\ c.RateFallback \in Nat
           /\ c.TransientFallback \in Nat
<1>1. c.Accounts \in Seq(Account)
  BY DEF Configuration
<1>2. Len(c.Accounts) \in Nat /\ \A i \in 1..Len(c.Accounts) :
                                    c.Accounts[i] \in Account
  BY <1>1
<1>3. Configured(c) \subseteq Fingerprints
  BY <1>2 DEF Configured, Account
<1>4. Enabled(c) \subseteq Configured(c)
  BY DEF Enabled, Configured
<1> QED
  BY <1>1, <1>2, <1>3, <1>4 DEF Configuration

\* The indices of chooseLocked's loop are natural numbers.
LEMMA IndicesAreNatural == \A n \in Nat : 0..(n - 1) \subseteq Nat
  OBVIOUS

\* chooseLocked returns no account, or one that blockedLocked lets serve.
LEMMA ChooseIsEligible ==
    ASSUME NEW c \in Configuration, NEW ks, NEW after, NEW t,
           ChooseLocked(c, ks, after, t) # ""
    PROVE  /\ ChooseLocked(c, ks, after, t) \in Enabled(c)
           /\ BlockedLocked(c, ks, ChooseLocked(c, ks, after, t), t) = ""
<1> DEFINE free == Eligible(c, ks, after, t)
<1>1. free # {} /\ ChooseLocked(c, ks, after, t) = Probe(c, after, Min(free))
  BY DEF ChooseLocked
<1>2. free \in SUBSET Nat
  <2>1. Len(c.Accounts) \in Nat
    BY AccountsType
  <2>2. free \subseteq 0..(Len(c.Accounts) - 1)
    BY Zenon DEF Eligible
  <2> QED
    BY <2>1, <2>2, IndicesAreNatural, Zenon
<1>3. Min(free) \in free
  BY <1>1, <1>2, MinIsLeast
<1>4. BlockedLocked(c, ks, Probe(c, after, Min(free)), t) = ""
  BY <1>3 DEF Eligible
<1> QED
  BY <1>1, <1>4 DEF BlockedLocked

\* An account that may serve is not cooling.
LEMMA UnblockedNotCooling ==
    ASSUME NEW c, NEW ks, NEW fp, NEW t, BlockedLocked(c, ks, fp, t) = ""
    PROVE  ~Cooling(ks, fp, t)
  BY DEF BlockedLocked, Cooling

\* installAccountsLocked keeps the type of the keys and covers the accounts.
LEMMA InstallType ==
    ASSUME NEW c \in Configuration, NEW ks,
           DOMAIN ks \subseteq Fingerprints, ks \in [DOMAIN ks -> KeyState]
    PROVE  /\ DOMAIN Install(c, ks) = DOMAIN ks \cup Configured(c)
           /\ DOMAIN Install(c, ks) \subseteq Fingerprints
           /\ Install(c, ks) \in [DOMAIN Install(c, ks) -> KeyState]
           /\ \A fp \in DOMAIN ks : Install(c, ks)[fp] = ks[fp]
<1>1. FreshKey \in KeyState
  BY DEF FreshKey, KeyState
<1> QED
  BY <1>1, AccountsType DEF Install

\* The key map of emptyState has its type.
LEMMA NoKeysType == /\ DOMAIN NoKeys = {} /\ NoKeys \in [DOMAIN NoKeys -> KeyState]
  BY DEF NoKeys

\* A route of byAuthID leads to a configured account.
LEMMA RoutesType ==
    ASSUME NEW c \in Configuration, NEW old
    PROVE  Routes(c, old) \in [AuthIDs -> Configured(c) \cup {""}]
<1>1. ASSUME NEW a \in AuthIDs
      PROVE  Routes(c, old)[a] \in Configured(c) \cup {""}
  <2>1. CASE \E i \in 1..Len(c.Accounts) : c.Accounts[i].AuthID = a
    BY <2>1 DEF Routes, Configured
  <2>2. CASE ~ \E i \in 1..Len(c.Accounts) : c.Accounts[i].AuthID = a
    BY <2>2 DEF Routes
  <2> QED
    BY <2>1, <2>2
<1> QED
  BY <1>1 DEF Routes

\* A state that already holds the accounts of a configuration is what newPool
\* makes of it.
LEMMA RestoreFixpoint ==
    ASSUME NEW c, NEW s, IsPersistedState(s),
           Configured(c) \subseteq DOMAIN s.Keys,
           s.Current \in Configured(c) \cup {""}
    PROVE  Restore(c, s) = s
<1>1. Install(c, s.Keys) = s.Keys
  BY DEF Install, IsPersistedState
<1> QED
  BY <1>1 DEF Restore, IsPersistedState

-----------------------------------------------------------------------------
(***************************************************************************)
(* Type correctness.  Observe reads the keyState of the account an auth ID *)
(* leads to, so that TypeOK is inductive only together with                *)
(* KeysCoverAccounts.                                                      *)
(***************************************************************************)
Consistent == TypeOK /\ KeysCoverAccounts

\* A request in flight has an auth ID, whose route leads to an account.
LEMMA OwnerType ==
    ASSUME Consistent, up, NEW r \in Requests, reqs[r] # Idle
    PROVE  /\ Owner(r) \in Configured(cfg) \cup {""}
           /\ Owner(r) # "" => /\ Owner(r) \in DOMAIN keys
                               /\ keys[Owner(r)] \in KeyState
<1>1. reqs[r].auth \in AuthIDs
  BY DEF Consistent, TypeOK, Flights
<1>2. Owner(r) \in Configured(cfg) \cup {""}
  BY <1>1 DEF Owner, Consistent, KeysCoverAccounts
<1>3. Configured(cfg) \subseteq DOMAIN keys /\ keys \in [DOMAIN keys -> KeyState]
  BY DEF Consistent, KeysCoverAccounts, TypeOK, PoolTypeOK,
         IsPersistedState, State
<1> QED
  BY <1>2, <1>3

\* Save puts the state into the file of one directory.
LEMMA WrittenType ==
    ASSUME FilesTypeOK, NEW d \in StateDirs, NEW s, IsPersistedState(s), NEW oc
    PROVE  /\ DOMAIN Written(d, s, oc) = StateDirs
           /\ \A e \in StateDirs : IsPersistedState(Written(d, s, oc)[e])
           /\ oc # "failed" => Written(d, s, oc)[d] = s
           /\ \A e \in StateDirs :
                 Written(d, s, oc)[e] # disk[e] => e = d /\ Written(d, s, oc)[e] = s
  BY DEF Written, FilesTypeOK

\* saveLocked writes a well-typed file and leaves a known fault.
LEMMA SaveType ==
    ASSUME FilesTypeOK, cfg' \in Configuration, IsPersistedState(State)',
           NEW f \in Faults, NEW oc, SaveLocked(f, oc)
    PROVE  FilesTypeOK' /\ fault' \in Faults
<1>1. cfg'.StateDir \in StateDirs
  BY AccountsType
<1>2. fault' \in Faults
  BY DEF SaveLocked, Faults
<1>3. CASE store'
  <2>1. disk' = Written(cfg'.StateDir, State', oc)
    BY <1>3 DEF SaveLocked
  <2> QED
    BY <1>1, <1>2, <2>1, WrittenType DEF FilesTypeOK
<1>4. CASE ~store'
  BY <1>2, <1>4 DEF SaveLocked, FilesTypeOK
<1> QED
  BY <1>3, <1>4

\* The configuration of a pool that is not there is one all the same.
LEMMA NoConfigType == NoConfig \in Configuration
  BY ConfigsAssumption DEF NoConfig

\* emptyState is a persisted state.
LEMMA EmptyStateType == IsPersistedState(EmptyState)
  BY NoKeysType DEF EmptyState, IsPersistedState

\* close and a crash leave a well-typed plugin without a pool.
LEMMA NoPoolType == NoPool => PoolTypeOK' /\ KeysCoverAccounts' /\ ~up'
<1> SUFFICES ASSUME NoPool PROVE PoolTypeOK' /\ KeysCoverAccounts' /\ ~up'
  OBVIOUS
<1>1. ~up' /\ up' \in BOOLEAN /\ store' \in BOOLEAN /\ cfg' \in Configuration
  BY NoConfigType DEF NoPool
<1>2. IsPersistedState(State)'
  BY NoKeysType DEF NoPool, IsPersistedState, State
<1>3. byAuthID' \in [AuthIDs -> Fingerprints \cup {""}] /\ fault' \in Faults
  BY DEF NoPool, NoRoutes, Faults
<1> QED
  BY <1>1, <1>2, <1>3 DEF PoolTypeOK, KeysCoverAccounts

\* Before plugin.register the plugin has no pool, and every file is empty.
THEOREM InitConsistent == Init => Consistent
<1> SUFFICES ASSUME Init PROVE Consistent
  OBVIOUS
<1>1. PoolTypeOK
  <2>1. cfg \in Configuration
    BY NoConfigType DEF Init
  <2>2. IsPersistedState(State)
    BY NoKeysType DEF Init, IsPersistedState, State
  <2> QED
    BY <2>1, <2>2 DEF Init, PoolTypeOK, NoRoutes, Faults
<1>2. FilesTypeOK
  BY EmptyStateType DEF Init, FilesTypeOK
<1>3. reqs \in [Requests -> Flights]
  BY DEF Init, Flights
<1>5. now \in Nat \ {0}
  <2>1. now = 1
    BY Zenon DEF Init
  <2> QED
    BY <2>1
<1>6. rejected \in BOOLEAN
  BY Zenon DEF Init
<1>4. KeysCoverAccounts
  BY DEF Init, KeysCoverAccounts
<1> QED
  BY <1>1, <1>2, <1>3, <1>4, <1>5, <1>6 DEF Consistent, TypeOK

\* installAccountsLocked leaves a consistent pool: the common part of newPool,
\* faultedPool and Reconfigure.
LEMMA InstalledConsistent ==
    ASSUME NEW c \in Configuration, NEW ks, NEW routes,
           DOMAIN ks \subseteq Fingerprints, ks \in [DOMAIN ks -> KeyState],
           cfg' = c, keys' = Install(c, ks), byAuthID' = Routes(c, routes),
           current' \in Configured(c) \cup {""},
           cursor' \in Fingerprints \cup {""}
    PROVE  /\ cfg' \in Configuration
           /\ IsPersistedState(State)'
           /\ byAuthID' \in [AuthIDs -> Fingerprints \cup {""}]
           /\ KeysCoverAccounts'
<1>1. Configured(c) \subseteq Fingerprints
  BY AccountsType
<1>2. byAuthID' \in [AuthIDs -> Configured(c) \cup {""}]
  BY RoutesType
<1>3. /\ DOMAIN keys' = DOMAIN ks \cup Configured(c)
      /\ DOMAIN keys' \subseteq Fingerprints
      /\ keys' \in [DOMAIN keys' -> KeyState]
  BY InstallType
<1>4. IsPersistedState(State)'
  BY <1>1, <1>3 DEF IsPersistedState, State
<1>5. KeysCoverAccounts'
  BY <1>2, <1>3 DEF KeysCoverAccounts
<1> QED
  BY <1>1, <1>2, <1>4, <1>5

\* newPool takes a well-typed state over from the file, completed by the
\* accounts it lacks.
LEMMA NewPoolConsistent ==
    ASSUME Consistent, NEW c \in Configs, NewPool(c)
    PROVE  Consistent'
<1> DEFINE s == disk[c.StateDir]
<1>1. c \in Configuration /\ c.StateDir \in StateDirs
  BY ConfigsAssumption, AccountsType
<1>2. IsPersistedState(s)
  BY <1>1 DEF Consistent, TypeOK, FilesTypeOK
<1>3. /\ current' \in Configured(c) \cup {""} /\ cursor' \in Fingerprints \cup {""}
      /\ keys' = Install(c, s.Keys) /\ cfg' = c
      /\ byAuthID' = Routes(c, NoRoutes)
  BY <1>2 DEF NewPool, Restore, IsPersistedState
<1>4. DOMAIN s.Keys \subseteq Fingerprints /\ s.Keys \in [DOMAIN s.Keys -> KeyState]
  BY <1>2 DEF IsPersistedState
<1>5. /\ IsPersistedState(State)' /\ KeysCoverAccounts' /\ cfg' \in Configuration
      /\ byAuthID' \in [AuthIDs -> Fingerprints \cup {""}]
  <2> HIDE DEF s
  <2> QED
    BY <1>1, <1>3, <1>4, InstalledConsistent
<1>6. PoolTypeOK'
  BY <1>5 DEF PoolTypeOK, NewPool, Faults
<1> QED
  BY <1>5, <1>6 DEF Consistent, TypeOK, FilesTypeOK, NewPool

\* faultedPool starts from an empty state with the accounts it was given.
LEMMA FaultedPoolConsistent ==
    ASSUME Consistent, NEW c \in Configuration, NEW reason \in Faults,
           FaultedPool(c, reason), rejected' \in BOOLEAN
    PROVE  Consistent'
<1>1. /\ IsPersistedState(State)' /\ KeysCoverAccounts' /\ cfg' \in Configuration
      /\ byAuthID' \in [AuthIDs -> Fingerprints \cup {""}]
  BY NoKeysType, InstalledConsistent DEF FaultedPool
<1>2. PoolTypeOK'
  BY <1>1 DEF PoolTypeOK, FaultedPool
<1> QED
  BY <1>1, <1>2 DEF Consistent, TypeOK, FilesTypeOK, FaultedPool

\* The accounts readConfiguration had read when it failed form a
\* configuration.
LEMMA TruncatedType ==
    ASSUME NEW c \in Configuration, NEW n \in 0..Len(c.Accounts)
    PROVE  [c EXCEPT !.Accounts = [i \in 1..n |-> c.Accounts[i]]]
             \in Configuration
<1> DEFINE acc == [i \in 1..n |-> c.Accounts[i]]
           t == [c EXCEPT !.Accounts = acc]
<1>1. Len(c.Accounts) \in Nat /\ \A i \in 1..Len(c.Accounts) :
                                    c.Accounts[i] \in Account
  BY AccountsType
<1>2. n \in Nat /\ n <= Len(c.Accounts)
  BY <1>1
<1>3. \A i \in 1..n : i \in 1..Len(c.Accounts) /\ acc[i] = c.Accounts[i]
  BY <1>1, <1>2
<1>4. acc \in Seq(Account) /\ Len(acc) = n
  BY <1>1, <1>2, <1>3
<1> HIDE DEF acc
<1>5. /\ t \in [Accounts : Seq(Account), StateDir : StateDirs,
                AuthSuspension : Nat \ {0}, RateFallback : Nat \ {0},
                TransientFallback : Nat \ {0}]
      /\ t.Accounts = acc
  BY <1>4 DEF Configuration
<1> HIDE DEF t
<1>6. \A i \in 1..Len(t.Accounts) :
            /\ t.Accounts[i].AuthID = "" => t.Accounts[i].Disabled
            /\ \A j \in 1..Len(t.Accounts) :
                  \/ i = j
                  \/ /\ t.Accounts[i].Fingerprint # t.Accounts[j].Fingerprint
                     /\ t.Accounts[i].AuthID # t.Accounts[j].AuthID
                          \/ t.Accounts[i].AuthID = ""
  <2>1. \A i \in 1..Len(t.Accounts) :
           i \in 1..Len(c.Accounts) /\ t.Accounts[i] = c.Accounts[i]
    BY <1>3, <1>4, <1>5 DEF acc
  <2>2. \A i \in 1..Len(c.Accounts) :
            /\ c.Accounts[i].AuthID = "" => c.Accounts[i].Disabled
            /\ \A j \in 1..Len(c.Accounts) :
                  \/ i = j
                  \/ /\ c.Accounts[i].Fingerprint # c.Accounts[j].Fingerprint
                     /\ c.Accounts[i].AuthID # c.Accounts[j].AuthID
                          \/ c.Accounts[i].AuthID = ""
    BY Zenon DEF Configuration
  <2> TAKE i \in 1..Len(t.Accounts)
  <2>3. i \in 1..Len(c.Accounts) /\ t.Accounts[i] = c.Accounts[i]
    BY <2>1
  <2>4. t.Accounts[i].AuthID = "" => t.Accounts[i].Disabled
    BY <2>2, <2>3, Zenon
  <2>5. ASSUME NEW j \in 1..Len(t.Accounts), i # j
        PROVE  /\ t.Accounts[i].Fingerprint # t.Accounts[j].Fingerprint
               /\ \/ t.Accounts[i].AuthID # t.Accounts[j].AuthID
                  \/ t.Accounts[i].AuthID = ""
    <3>1. j \in 1..Len(c.Accounts) /\ t.Accounts[j] = c.Accounts[j]
      BY <2>1, <2>5
    <3>2. /\ c.Accounts[i].Fingerprint # c.Accounts[j].Fingerprint
          /\ \/ c.Accounts[i].AuthID # c.Accounts[j].AuthID
             \/ c.Accounts[i].AuthID = ""
      <4>1. i \in 1..Len(c.Accounts) /\ i # j
        BY <2>3, <2>5
      <4> QED
        BY <2>2, <3>1, <4>1, Zenon
    <3> QED
      BY <2>3, <3>1, <3>2, Zenon
  <2> QED
    BY <2>4, <2>5, Zenon
<1>7. t \in Configuration
  BY <1>5, <1>6 DEF Configuration
<1> QED
  BY <1>7 DEF t, acc

\* Reconfigure keeps the current account only if it is still configured, so
\* that keys and routes cover the new accounts.
LEMMA ReconfigureConsistent ==
    ASSUME Consistent, NEW c \in Configs, NEW oc, Reconfigure(c, oc)
    PROVE  Consistent'
<1>1. c \in Configuration /\ c.StateDir \in StateDirs
      /\ Configured(c) \subseteq Fingerprints /\ Enabled(c) \subseteq Configured(c)
  BY ConfigsAssumption, AccountsType
<1>2. DOMAIN keys \subseteq Fingerprints /\ keys \in [DOMAIN keys -> KeyState]
      /\ cursor \in Fingerprints \cup {""}
  BY DEF Consistent, TypeOK, PoolTypeOK, IsPersistedState, State
<1>3. current' \in Configured(c) \cup {""} /\ cursor' \in Fingerprints \cup {""}
  <2>1. CASE current \in Enabled(c)
    BY <1>1, <1>2, <2>1 DEF Reconfigure
  <2>2. CASE current \notin Enabled(c)
    <3> DEFINE next == ChooseLocked(c, Install(c, keys), cursor, now)
    <3>1. next = "" \/ next \in Enabled(c)
      BY <1>1, ChooseIsEligible
    <3> HIDE DEF next
    <3>2. current' = next /\ cursor' = CursorAfter(next, cursor)
      BY <2>2 DEF Reconfigure, next
    <3> QED
      BY <1>1, <1>2, <3>1, <3>2 DEF CursorAfter
  <2> QED
    BY <2>1, <2>2
<1>4. /\ IsPersistedState(State)' /\ KeysCoverAccounts' /\ cfg' \in Configuration
      /\ byAuthID' \in [AuthIDs -> Fingerprints \cup {""}]
  BY <1>1, <1>2, <1>3, InstalledConsistent DEF Reconfigure
<1>5. PoolTypeOK'
  BY <1>4 DEF PoolTypeOK, Reconfigure, Faults
<1>6. FilesTypeOK'
  <2>1. FilesTypeOK
    BY DEF Consistent, TypeOK
  <2> QED
    BY <1>1, <1>4, <2>1, WrittenType DEF FilesTypeOK, Reconfigure
<1> QED
  BY <1>4, <1>5, <1>6 DEF Consistent, TypeOK, Reconfigure

\* A handler that writes p.state in place keeps the pool consistent when the
\* selection stays among the accounts and no key is added or removed.
LEMMA UpdateConsistent ==
    ASSUME Consistent, UNCHANGED <<up, cfg, byAuthID, store>>,
           now' \in Nat \ {0}, rejected' \in BOOLEAN,
           up => current' \in Configured(cfg) \cup {""},
           current' \in Fingerprints \cup {""},
           cursor' \in Fingerprints \cup {""},
           DOMAIN keys' = DOMAIN keys, keys' \in [DOMAIN keys -> KeyState],
           reqs' \in [Requests -> Flights], FilesTypeOK', fault' \in Faults
    PROVE  Consistent'
<1>1. IsPersistedState(State)'
  BY DEF Consistent, TypeOK, PoolTypeOK, IsPersistedState, State
<1>2. PoolTypeOK'
  BY <1>1 DEF Consistent, TypeOK, PoolTypeOK
<1>3. KeysCoverAccounts'
  BY DEF Consistent, KeysCoverAccounts
<1> QED
  BY <1>2, <1>3 DEF Consistent, TypeOK

\* What Consistent says about the parts a handler reads.
LEMMA ConsistentParts ==
    ASSUME Consistent
    PROVE  /\ cfg \in Configuration /\ now \in Nat \ {0} /\ rejected \in BOOLEAN
           /\ current \in Fingerprints \cup {""}
           /\ cursor \in Fingerprints \cup {""}
           /\ DOMAIN keys \subseteq Fingerprints
           /\ keys \in [DOMAIN keys -> KeyState]
           /\ reqs \in [Requests -> Flights] /\ FilesTypeOK /\ fault \in Faults
           /\ Configured(cfg) \subseteq Fingerprints
           /\ Enabled(cfg) \subseteq Configured(cfg)
           /\ up => /\ current \in Configured(cfg) \cup {""}
                    /\ Configured(cfg) \subseteq DOMAIN keys
<1>1. cfg \in Configuration
  BY DEF Consistent, TypeOK, PoolTypeOK
<1>2. Configured(cfg) \subseteq Fingerprints /\ Enabled(cfg) \subseteq Configured(cfg)
  BY <1>1, AccountsType
<1> QED
  BY <1>1, <1>2 DEF Consistent, TypeOK, PoolTypeOK, IsPersistedState, State,
                    KeysCoverAccounts

\* Pick answers with an auth ID of the host.
LEMMA HandOutType ==
    ASSUME Consistent, NEW r \in Requests, NEW fp \in Enabled(cfg),
           HandOut(r, fp)
    PROVE  reqs' \in [Requests -> Flights]
<1> DEFINE acc == cfg.Accounts
           i == CHOOSE i \in 1..Len(acc) : acc[i].Fingerprint = fp
<1>1. cfg \in Configuration /\ \A j \in 1..Len(acc) : acc[j] \in Account
  BY ConsistentParts, AccountsType
<1>2. PICK j \in 1..Len(acc) : ~acc[j].Disabled /\ acc[j].Fingerprint = fp
  BY DEF Enabled
<1>3. i \in 1..Len(acc) /\ acc[i].Fingerprint = fp
  BY <1>2
<1> HIDE DEF i
<1>4. \A k \in 1..Len(acc) :
          /\ acc[k].AuthID = "" => acc[k].Disabled
          /\ \/ k = j
             \/ acc[k].Fingerprint # acc[j].Fingerprint
  BY <1>1, Zenon DEF Configuration
<1>5. i = j
  BY <1>2, <1>3, <1>4
<1>6. acc[i].AuthID # ""
  BY <1>2, <1>4, <1>5, Zenon
<1>7. acc[i].AuthID \in AuthIDs
  BY <1>1, <1>3, <1>6 DEF Account
<1>8. [auth |-> acc[i].AuthID, at |-> now, resumed |-> ""] \in Flights
  BY <1>7, ConsistentParts DEF Flights
<1>9. reqs' = [reqs EXCEPT ![r] =
                 [auth |-> acc[i].AuthID, at |-> now, resumed |-> ""]]
  BY DEF HandOut, AccountLocked, i
<1> QED
  BY <1>8, <1>9, ConsistentParts

\* The selection after chooseLocked, and after its cursor.
LEMMA ChosenType ==
    ASSUME Consistent, NEW ks, NEW after, NEW t, NEW old \in Fingerprints \cup {""}
    PROVE  LET next == ChooseLocked(cfg, ks, after, t)
           IN  /\ next \in Enabled(cfg) \cup {""}
               /\ next \in Configured(cfg) \cup {""}
               /\ next \in Fingerprints \cup {""}
               /\ CursorAfter(next, old) \in Fingerprints \cup {""}
<1> DEFINE next == ChooseLocked(cfg, ks, after, t)
<1>1. next \in Enabled(cfg) \cup {""}
  BY ConsistentParts, ChooseIsEligible
<1> HIDE DEF next
<1>2. /\ next \in Configured(cfg) \cup {""} /\ next \in Fingerprints \cup {""}
      /\ CursorAfter(next, old) \in Fingerprints \cup {""}
  BY <1>1, ConsistentParts DEF CursorAfter
<1> QED
  BY <1>1, <1>2 DEF next

\* A first selection is a configured account, and its auth ID is handed out.
LEMMA PickFirstConsistent ==
    ASSUME Consistent, NEW r \in Requests, NEW listed, NEW oc,
           PickFirst(r, listed, oc)
    PROVE  Consistent'
<1> DEFINE next == ChooseLocked(cfg, keys, cursor, now)
<1>1. /\ next \in Enabled(cfg) \cup {""} /\ next \in Configured(cfg) \cup {""}
      /\ next \in Fingerprints \cup {""}
  BY ConsistentParts, ChosenType
<1>2. /\ next # "" /\ current' = next /\ cursor' = next
      /\ HandOut(r, next) \/ UNCHANGED reqs
      /\ SaveLocked(fault, oc)
      /\ UNCHANGED <<now, up, cfg, keys, byAuthID, store, rejected>>
  BY DEF PickFirst
<1> HIDE DEF next
<1>3. reqs' \in [Requests -> Flights]
  BY <1>1, <1>2, HandOutType, ConsistentParts
<1>4. IsPersistedState(State)' /\ cfg' \in Configuration
  BY <1>1, <1>2, ConsistentParts DEF IsPersistedState, State
<1>5. FilesTypeOK' /\ fault' \in Faults
  BY <1>2, <1>4, SaveType, ConsistentParts
<1> QED
  BY <1>1, <1>2, <1>3, <1>5, UpdateConsistent, ConsistentParts

\* Handing out the current account changes nothing else.
LEMMA PickCurrentConsistent ==
    ASSUME Consistent, NEW r \in Requests, PickCurrent(r)
    PROVE  Consistent'
<1>1. current \in Enabled(cfg) /\ HandOut(r, current)
  BY DEF PickCurrent, BlockedLocked
<1>2. reqs' \in [Requests -> Flights]
  BY <1>1, HandOutType
<1>3. UNCHANGED <<now, poolVars, disk, rejected>>
  BY DEF PickCurrent
<1>4. FilesTypeOK'
  BY <1>3, ConsistentParts DEF FilesTypeOK
<1> QED
  BY <1>2, <1>3, <1>4, UpdateConsistent, ConsistentParts DEF poolVars

\* The unsaved failover of Pick and of Guard.
LEMMA FailoverConsistent ==
    ASSUME Consistent, FailoverUnsaved,
           UNCHANGED <<now, up, cfg, keys, byAuthID, store, fault, disk, rejected>>,
           \/ UNCHANGED reqs
           \/ \E r \in Requests : current' # "" /\ HandOut(r, current')
    PROVE  Consistent'
<1> DEFINE next == ChooseLocked(cfg, keys, current, now)
<1>1. /\ next \in Enabled(cfg) \cup {""} /\ next \in Configured(cfg) \cup {""}
      /\ next \in Fingerprints \cup {""}
      /\ CursorAfter(next, cursor) \in Fingerprints \cup {""}
  BY ConsistentParts, ChosenType
<1>2. current' = next /\ cursor' = CursorAfter(next, cursor)
  BY DEF FailoverUnsaved
<1> HIDE DEF next
<1>3. reqs' \in [Requests -> Flights]
  BY <1>1, <1>2, HandOutType, ConsistentParts
<1>4. FilesTypeOK'
  BY ConsistentParts DEF FilesTypeOK
<1> QED
  BY <1>1, <1>2, <1>3, <1>4, UpdateConsistent, ConsistentParts

\* usage.handle leaves well-typed requests in flight.
LEMMA ReportedType ==
    ASSUME Consistent, NEW r \in Requests, Reported(r)
    PROVE  reqs' \in [Requests -> Flights]
<1>1. Idle \in Flights
  BY DEF Flights
<1> QED
  BY <1>1, ConsistentParts DEF Reported

\* The time classify and the cooldowns are computed from lies in the past.
LEMMA ObservedType ==
    ASSUME Consistent, NEW ras \in Nat, NEW lat \in Nat
    PROVE  Observed(ras, lat) \in Nat /\ Observed(ras, lat) <= now
<1>1. now \in Nat
  BY ConsistentParts
<1> QED
  BY <1>1 DEF Observed

\* The request time of a usage record is a time, zero if it is missing.
LEMMA RequestTimesType ==
    ASSUME Consistent, NEW r \in Requests, NEW ras \in RequestTimes(r)
    PROVE  ras \in Nat
<1>1. reqs[r].at \in Nat
  <2>1. reqs[r] \in Flights
    BY ConsistentParts
  <2>2. CASE reqs[r] = Idle
    <3>1. Idle.at = 0
      BY DEF Idle
    <3> QED
      BY <2>2, <3>1
  <2>3. CASE reqs[r] \in [auth : AuthIDs, at : Nat \ {0},
                           resumed : StateDirs \cup {""}]
    BY <2>3
  <2> QED
    BY <2>1, <2>2, <2>3 DEF Flights
<1> QED
  BY <1>1 DEF RequestTimes

\* An outcome that only counts: a success or a stale failure.
LEMMA CountedConsistent ==
    ASSUME Consistent, NEW r \in Requests, NEW oc, Reported(r),
           UNCHANGED <<current, cursor, keys>>, SaveLocked(fault, oc)
    PROVE  Consistent'
<1>1. UNCHANGED <<now, up, cfg, byAuthID, store, rejected>>
  BY DEF Reported
<1>2. IsPersistedState(State)' /\ cfg' \in Configuration
  BY <1>1, ConsistentParts DEF IsPersistedState, State
<1>3. FilesTypeOK' /\ fault' \in Faults
  BY <1>2, SaveType, ConsistentParts
<1> QED
  BY <1>1, <1>3, ReportedType, UpdateConsistent, ConsistentParts

\* An outcome that Observe drops changes nothing.
LEMMA DroppedConsistent ==
    ASSUME Consistent, NEW r \in Requests, ObserveDropped(r)
    PROVE  Consistent'
<1>1. FilesTypeOK'
  BY ConsistentParts DEF FilesTypeOK, ObserveDropped
<1> QED
  BY <1>1, ReportedType, UpdateConsistent, ConsistentParts
  DEF ObserveDropped, Reported

\* The keyState a failure leaves, with the time it was observed.
Stamped(k, ras, lat) == [k EXCEPT !.LastFailureAt = Observed(ras, lat)]

\* A failure that does not move the pool leaves the account's cooldowns alone.
SameCooling(k, j) == /\ k.ExhaustedUntil = j.ExhaustedUntil
                     /\ k.SuspendedUntil = j.SuspendedUntil
                     /\ k.TransientUntil = j.TransientUntil

\* A record whose barrier covers its exhaustion.
Barred(k) == k.ExhaustedUntil <= k.IgnoreBefore

\* What a failure observed at time t may make of the record j: a suspension or
\* a quarantine that runs from t, and no shorter rate limit.
Lengthens(j, k, t) ==
    /\ k.SuspendedUntil \in {j.SuspendedUntil, t + cfg.AuthSuspension}
    /\ k.TransientUntil \in {j.TransientUntil, t + cfg.TransientFallback}
    /\ k.RateLimitedUntil >= j.RateLimitedUntil

\* A failure past the barrier: its new keyState has its type, exhausts the
\* account only together with a barrier and until a time ahead, cools it down
\* only when the pool may move, and shortens nothing.
CountedFailure(r, ras, lat, k, moves, oc) ==
    /\ Owner(r) # "" => k \in KeyState
    /\ moves \/ SameCooling(k, keys[Owner(r)])
    /\ Lengthens(keys[Owner(r)], k, Observed(ras, lat))
    /\ \/ /\ k.ExhaustedUntil = keys[Owner(r)].ExhaustedUntil
          /\ k.IgnoreBefore = keys[Owner(r)].IgnoreBefore
       \/ k.ExhaustedUntil = k.IgnoreBefore /\ k.ExhaustedUntil > now
    /\ Failure(r, ras, lat, k, moves, oc)

\* What every failure that counts does, whatever its kind.
LEMMA FailureEffect ==
    ASSUME Consistent, NEW r \in Requests, NEW ras \in Nat, NEW lat \in Nat,
           NEW k, NEW moves, NEW oc, CountedFailure(r, ras, lat, k, moves, oc)
    PROVE  /\ Owner(r) \in Configured(cfg) /\ up /\ store
           /\ UNCHANGED <<now, up, cfg, byAuthID, store, rejected>>
           /\ keys' = [keys EXCEPT ![Owner(r)] = Stamped(k, ras, lat)]
           /\ k \in KeyState /\ Stamped(k, ras, lat) \in KeyState
           /\ \/ /\ UNCHANGED <<current, cursor>>
                 /\ current # Owner(r) \/ SameCooling(k, keys[Owner(r)])
              \/ /\ current = Owner(r)
                 /\ current' = ChooseLocked(cfg, keys', Owner(r), now)
                 /\ cursor' = CursorAfter(current', Owner(r))
           /\ SaveLocked(fault, oc)
<1> DEFINE fp == Owner(r)
<1>1. up /\ store /\ reqs[r] # Idle /\ fp # "" /\ SaveLocked(fault, oc)
      /\ UNCHANGED <<now, up, cfg, byAuthID, store, rejected>>
  BY DEF CountedFailure, Failure, Reported
<1>2. fp \in Configured(cfg)
  BY <1>1, OwnerType
<1>3. k \in KeyState
  BY <1>1 DEF CountedFailure
<1>4. Stamped(k, ras, lat) \in KeyState
  BY <1>3, ObservedType DEF KeyState, Stamped
<1>5. keys' = [keys EXCEPT ![fp] = Stamped(k, ras, lat)]
  BY DEF CountedFailure, Failure, Stamped
<1>6. \/ UNCHANGED <<current, cursor>> /\ ~(moves /\ current = fp)
      \/ /\ current = fp
         /\ current' = ChooseLocked(cfg, keys', fp, now)
         /\ cursor' = CursorAfter(current', fp)
  BY <1>5 DEF CountedFailure, Failure, Stamped
<1>7. moves \/ SameCooling(k, keys[fp])
  BY DEF CountedFailure
<1> QED
  BY <1>1, <1>2, <1>3, <1>4, <1>5, <1>6, <1>7

\* A failure that counts changes the owner's keyState, and moves the pool only
\* to a configured account.
LEMMA FailureConsistent ==
    ASSUME Consistent, NEW r \in Requests, NEW ras \in Nat, NEW lat \in Nat,
           NEW k, NEW moves, NEW oc, CountedFailure(r, ras, lat, k, moves, oc)
    PROVE  Consistent'
<1>1. /\ Owner(r) \in Configured(cfg) /\ up
      /\ UNCHANGED <<now, up, cfg, byAuthID, store, rejected>>
      /\ keys' = [keys EXCEPT ![Owner(r)] = Stamped(k, ras, lat)]
      /\ Stamped(k, ras, lat) \in KeyState
      /\ \/ UNCHANGED <<current, cursor>>
         \/ /\ current' = ChooseLocked(cfg, keys', Owner(r), now)
            /\ cursor' = CursorAfter(current', Owner(r))
      /\ SaveLocked(fault, oc)
  BY FailureEffect
<1>2. Reported(r)
  BY DEF CountedFailure, Failure
<1>3. DOMAIN keys' = DOMAIN keys /\ keys' \in [DOMAIN keys -> KeyState]
  BY <1>1, ConsistentParts
<1>4. /\ current' \in Configured(cfg) \cup {""}
      /\ current' \in Fingerprints \cup {""}
      /\ cursor' \in Fingerprints \cup {""}
  BY <1>1, ChosenType, ConsistentParts
<1>5. IsPersistedState(State)' /\ cfg' \in Configuration
  BY <1>1, <1>3, <1>4, ConsistentParts DEF IsPersistedState, State
<1>6. FilesTypeOK' /\ fault' \in Faults
  BY <1>1, <1>5, SaveType, ConsistentParts
<1> QED
  BY <1>1, <1>2, <1>3, <1>4, <1>6, ReportedType, UpdateConsistent,
     ConsistentParts

\* Every kind of failure that counts is a Failure of that shape.
LEMMA FailureKinds ==
    ASSUME Consistent, NEW r \in Requests, NEW ras \in Nat, NEW lat \in Nat,
           NEW oc, NEW until \in Nat,
           \/ ObserveQuota(r, ras, lat, until, oc)
           \/ ObserveAuth(r, ras, lat, oc)
           \/ ObserveRateLimit(r, ras, lat, until, oc)
           \/ ObserveTransient(r, ras, lat, oc)
           \/ ObserveOther(r, ras, lat, oc)
    PROVE  \E k, moves : CountedFailure(r, ras, lat, k, moves, oc)
<1> DEFINE k == keys[Owner(r)]
           observed == Observed(ras, lat)
<1>1. ASSUME NEW j, NEW m, Failure(r, ras, lat, j, m, oc)
      PROVE  Owner(r) # "" => k \in KeyState
  BY <1>1, OwnerType DEF Failure, Reported
<1>2. observed \in Nat
  BY ObservedType
<1>3. cfg.AuthSuspension \in Nat /\ cfg.RateFallback \in Nat
      /\ cfg.TransientFallback \in Nat
  BY AccountsType, ConsistentParts
<1>k. k \in KeyState => Lengthens(k, k, observed)
  BY DEF KeyState, Lengthens
<1> HIDE DEF k, observed
<1>4. CASE ObserveQuota(r, ras, lat, until, oc)
  <2> DEFINE k2 == [k EXCEPT !.ExhaustedUntil = until, !.IgnoreBefore = until]
  <2>1. k \in KeyState => /\ k2 \in KeyState
                          /\ k2.ExhaustedUntil = until /\ k2.IgnoreBefore = until
                          /\ Lengthens(k, k2, observed)
    <3>1. k \in KeyState => /\ k2.SuspendedUntil = k.SuspendedUntil
                            /\ k2.TransientUntil = k.TransientUntil
                            /\ k2.RateLimitedUntil = k.RateLimitedUntil
                            /\ k.RateLimitedUntil \in Nat
      BY DEF KeyState
    <3>2. k \in KeyState => /\ k2 \in KeyState
                            /\ k2.ExhaustedUntil = until
                            /\ k2.IgnoreBefore = until
      BY DEF KeyState
    <3> HIDE DEF k2
    <3> QED
      BY <3>1, <3>2 DEF Lengthens
  <2>2. SameCooling(k, keys[Owner(r)])
    BY DEF SameCooling, k
  <2>3. \/ until > now /\ Failure(r, ras, lat, k2, TRUE, oc)
        \/ Failure(r, ras, lat, k, FALSE, oc)
    BY <1>4 DEF ObserveQuota, k
  <2>4. Owner(r) # ""
    BY <2>3 DEF Failure
  <2> HIDE DEF k2
  <2>5. CASE until > now /\ Failure(r, ras, lat, k2, TRUE, oc)
    BY <1>1, <2>1, <2>4, <2>5 DEF CountedFailure, k, observed
  <2>6. CASE Failure(r, ras, lat, k, FALSE, oc)
    BY <1>1, <1>k, <2>2, <2>4, <2>6 DEF CountedFailure, k, observed
  <2> QED
    BY <2>3, <2>5, <2>6
<1>5. CASE ObserveAuth(r, ras, lat, oc)
  <2> DEFINE k2 == [k EXCEPT !.SuspendedUntil = observed + cfg.AuthSuspension]
  <2>1. k \in KeyState => /\ k2 \in KeyState
                          /\ k2.ExhaustedUntil = k.ExhaustedUntil
                          /\ k2.IgnoreBefore = k.IgnoreBefore
                          /\ Lengthens(k, k2, observed)
    BY <1>2, <1>3 DEF KeyState, Lengthens
  <2>2. Failure(r, ras, lat, k2, TRUE, oc)
    BY <1>5 DEF ObserveAuth, k, observed
  <2>3. Owner(r) # ""
    BY <2>2 DEF Failure
  <2> HIDE DEF k2
  <2> QED
    BY <1>1, <2>1, <2>2, <2>3 DEF CountedFailure, k, observed
<1>6. CASE ObserveRateLimit(r, ras, lat, until, oc)
  <2> DEFINE u == IF until = 0 THEN observed + cfg.RateFallback ELSE until
             k2 == IF u > k.RateLimitedUntil
                   THEN [k EXCEPT !.RateLimitedUntil = u] ELSE k
  <2>1. u \in Nat
    BY <1>2, <1>3
  <2> HIDE DEF u
  <2>2. k \in KeyState => /\ k2 \in KeyState /\ SameCooling(k2, k)
                          /\ k2.IgnoreBefore = k.IgnoreBefore
                          /\ Lengthens(k, k2, observed)
    BY <2>1 DEF KeyState, SameCooling, Lengthens
  <2>3. Failure(r, ras, lat, k2, FALSE, oc)
    BY <1>6 DEF ObserveRateLimit, k, observed, u
  <2>4. Owner(r) # ""
    BY <2>3 DEF Failure
  <2> HIDE DEF k2
  <2> QED
    BY <1>1, <2>2, <2>3, <2>4 DEF CountedFailure, SameCooling, k, observed
<1>7. CASE ObserveTransient(r, ras, lat, oc)
  <2> DEFINE k2 == [k EXCEPT !.TransientUntil = observed + cfg.TransientFallback]
  <2>1. k \in KeyState => /\ k2 \in KeyState
                          /\ k2.ExhaustedUntil = k.ExhaustedUntil
                          /\ k2.IgnoreBefore = k.IgnoreBefore
                          /\ Lengthens(k, k2, observed)
    BY <1>2, <1>3 DEF KeyState, Lengthens
  <2>2. Failure(r, ras, lat, k2, TRUE, oc)
    BY <1>7 DEF ObserveTransient, k, observed
  <2>3. Owner(r) # ""
    BY <2>2 DEF Failure
  <2> HIDE DEF k2
  <2> QED
    BY <1>1, <2>1, <2>2, <2>3 DEF CountedFailure, k, observed
<1>8. CASE ObserveOther(r, ras, lat, oc)
  <2>1. Failure(r, ras, lat, k, FALSE, oc)
    BY <1>8 DEF ObserveOther, k
  <2>2. SameCooling(k, keys[Owner(r)])
    BY DEF SameCooling, k
  <2>3. Owner(r) # ""
    BY <2>1 DEF Failure
  <2> QED
    BY <1>1, <1>k, <2>1, <2>2, <2>3 DEF CountedFailure, k, observed
<1> QED
  BY <1>4, <1>5, <1>6, <1>7, <1>8

\* An outcome that is saved and changes nothing that decides.
Counted(r, oc) == /\ Reported(r) /\ store
                  /\ UNCHANGED <<current, cursor, keys>>
                  /\ SaveLocked(fault, oc)

\* Observe drops an outcome, counts it, or applies it as a failure.
LEMMA ObserveCases ==
    ASSUME Consistent, NEW r \in Requests, Observe(r)
    PROVE  \/ ObserveDropped(r)
           \/ \E oc \in SaveOutcomes : Counted(r, oc)
           \/ \E ras \in RequestTimes(r) \cap Nat, lat \in Nat, oc \in SaveOutcomes :
              \E k, moves : CountedFailure(r, ras, lat, k, moves, oc)
<1>1. CASE ObserveDropped(r)
  BY <1>1
<1>2. CASE \E oc \in SaveOutcomes : ObserveSuccess(r, oc)
  BY <1>2 DEF ObserveSuccess, Counted
<1>3. ASSUME NEW oc \in SaveOutcomes, NEW ras \in RequestTimes(r),
             NEW lat \in 0..now, ObserveFailure(r, ras, lat, oc)
      PROVE  \/ Counted(r, oc)
             \/ /\ ras \in Nat /\ lat \in Nat
                /\ \E k, moves : CountedFailure(r, ras, lat, k, moves, oc)
  <2>1. ras \in Nat
    BY RequestTimesType
  <2>2. lat \in Nat /\ now \in Nat
    <3>1. now \in Nat
      BY ConsistentParts
    <3> QED
      BY <3>1
  <2>3. \A u \in {0} \cup ResetsAfter(ras, lat) : u \in Nat
    <3>1. Observed(ras, lat) \in Nat /\ MaxReset \in Nat
      BY <2>1, <2>2, ObservedType, ConstantsAssumption
    <3> QED
      BY <3>1 DEF ResetsAfter
  <2>4. CASE ObserveStale(r, ras, lat, oc)
    BY <2>4 DEF ObserveStale, Counted
  <2>5. CASE \E u \in {0} \cup ResetsAfter(ras, lat) :
                \/ ObserveQuota(r, ras, lat, u, oc)
                \/ ObserveAuth(r, ras, lat, oc)
                \/ ObserveRateLimit(r, ras, lat, u, oc)
                \/ ObserveTransient(r, ras, lat, oc)
                \/ ObserveOther(r, ras, lat, oc)
    BY <2>1, <2>2, <2>3, <2>5, FailureKinds
  <2> QED
    BY <1>3, <2>4, <2>5, Zenon DEF ObserveFailure
<1> QED
  BY <1>1, <1>2, <1>3 DEF Observe

\* Every outcome Observe can meet keeps the types.
LEMMA ObserveConsistent ==
    ASSUME Consistent, NEW r \in Requests, Observe(r)
    PROVE  Consistent'
<1>1. ASSUME NEW oc, Counted(r, oc)
      PROVE  Consistent'
  BY <1>1, CountedConsistent DEF Counted
<1>2. ASSUME NEW ras \in Nat, NEW lat \in Nat, NEW oc, NEW k, NEW moves,
             CountedFailure(r, ras, lat, k, moves, oc)
      PROVE  Consistent'
  BY <1>2, FailureConsistent
<1> QED
  BY <1>1, <1>2, ObserveCases, DroppedConsistent

\* Resume writes a well-typed keyState, and the notes on the requests are
\* directories.
LEMMA ResumeConsistent ==
    ASSUME Consistent, NEW fp \in Fingerprints, NEW oc, Resume(fp, oc)
    PROVE  Consistent'
<1> DEFINE k == [FreshKey EXCEPT !.IgnoreBefore = now,
                                 !.LastFailureAt = keys[fp].LastFailureAt]
<1>1. /\ up /\ fp \in DOMAIN keys /\ keys[fp] \in KeyState /\ now \in Nat
      /\ cfg.StateDir \in StateDirs
  BY ConsistentParts, AccountsType DEF Resume
<1>2. k \in KeyState
  BY <1>1 DEF FreshKey, KeyState
<1>3. keys' = [keys EXCEPT ![fp] = k]
  BY DEF Resume
<1> HIDE DEF k
<1>4. DOMAIN keys' = DOMAIN keys /\ keys' \in [DOMAIN keys -> KeyState]
  BY <1>2, <1>3, ConsistentParts
<1>5. reqs' \in [Requests -> Flights]
  <2>1. ASSUME NEW r \in Requests, reqs[r] # Idle
        PROVE  [reqs[r] EXCEPT !.resumed = cfg.StateDir] \in Flights
    <3>1. reqs[r] \in [auth : AuthIDs, at : Nat \ {0},
                       resumed : StateDirs \cup {""}]
      BY <2>1, ConsistentParts DEF Flights
    <3> QED
      BY <1>1, <3>1 DEF Flights
  <2> QED
    BY <2>1, ConsistentParts DEF Resume
<1>6. UNCHANGED <<now, up, cfg, current, cursor, byAuthID, store, rejected>>
      /\ SaveLocked(fault, oc)
  BY DEF Resume
<1>7. IsPersistedState(State)' /\ cfg' \in Configuration
  BY <1>4, <1>6, ConsistentParts DEF IsPersistedState, State
<1>8. FilesTypeOK' /\ fault' \in Faults
  BY <1>6, <1>7, SaveType, ConsistentParts
<1> QED
  BY <1>4, <1>5, <1>6, <1>8, UpdateConsistent, ConsistentParts

\* The handlers that only set the fault.
LEMMA FaultConsistent ==
    ASSUME Consistent, fault' \in Faults, rejected' \in BOOLEAN,
           UNCHANGED <<now, up, cfg, current, cursor, keys, byAuthID, store,
                       disk, reqs>>
    PROVE  Consistent'
<1>1. FilesTypeOK'
  BY ConsistentParts DEF FilesTypeOK
<1> QED
  BY <1>1, UpdateConsistent, ConsistentParts

\* The end of a pool leaves well-typed files.
LEMMA StopConsistent ==
    ASSUME Consistent, Crash \/ \E oc \in SaveOutcomes : Shutdown(oc)
    PROVE  Consistent'
<1>1. NoPool /\ now' = now
  BY DEF Crash, Shutdown
<1>2. PoolTypeOK' /\ KeysCoverAccounts'
  BY <1>1, NoPoolType
<1>3. rejected' \in BOOLEAN
  BY <1>1 DEF NoPool
<1>4. reqs' \in [Requests -> Flights]
  BY ConsistentParts DEF Crash, Shutdown, Flights
<1>5. FilesTypeOK'
  <2>1. CASE Crash
    BY <2>1, ConsistentParts DEF Crash, FilesTypeOK
  <2>2. ASSUME NEW oc \in SaveOutcomes, Shutdown(oc)
        PROVE  FilesTypeOK'
    <3>1. disk' = Written(cfg.StateDir, State, oc) \/ disk' = disk
      BY <2>2 DEF Shutdown
    <3>2. cfg.StateDir \in StateDirs /\ IsPersistedState(State) /\ FilesTypeOK
      BY ConsistentParts, AccountsType DEF Consistent, TypeOK, PoolTypeOK
    <3> QED
      BY <3>1, <3>2, WrittenType DEF FilesTypeOK
  <2> QED
    BY <2>1, <2>2
<1>6. now' \in Nat \ {0}
  BY <1>1, ConsistentParts
<1> QED
  BY <1>2, <1>3, <1>4, <1>5, <1>6 DEF Consistent, TypeOK

\* The environment's steps.
LEMMA EnvironmentConsistent ==
    ASSUME Consistent,
           Tick \/ StepBack \/ \E r \in Requests : LoseResult(r)
    PROVE  Consistent'
<1>1. UNCHANGED <<poolVars, disk, rejected>>
  BY DEF Tick, StepBack, LoseResult
<1>2. now' \in Nat \ {0}
  <2>1. now \in Nat \ {0}
    BY ConsistentParts
  <2>2. now' = now \/ now' = now + 1 \/ (now > 1 /\ now' = now - 1)
    BY DEF Tick, StepBack, LoseResult
  <2> QED
    BY <2>1, <2>2
<1>3. reqs' \in [Requests -> Flights]
  BY ConsistentParts DEF Tick, StepBack, LoseResult, Flights
<1>4. FilesTypeOK'
  BY <1>1, ConsistentParts DEF FilesTypeOK
<1> QED
  BY <1>1, <1>2, <1>3, <1>4, UpdateConsistent, ConsistentParts DEF poolVars

\* Every handler of the plugin, and every step of its environment, keeps the
\* types and a keyState for each account.
THEOREM NextConsistent == Consistent /\ [Next]_vars => Consistent'
<1> SUFFICES ASSUME Consistent, [Next]_vars PROVE Consistent'
  OBVIOUS
<1>1. ASSUME NEW c \in Configs, NewPool(c) PROVE Consistent'
  BY <1>1, NewPoolConsistent
<1>2. ASSUME NEW c \in Configs, RegisterUnavailable(c) PROVE Consistent'
  BY <1>2, ConfigsAssumption, FaultedPoolConsistent
  DEF RegisterUnavailable, Faults
<1>3. ASSUME NEW c \in Configs, NEW n \in 0..Len(c.Accounts),
             RegisterInvalid(c, n)
      PROVE  Consistent'
  <2>1. [c EXCEPT !.Accounts = [i \in 1..n |-> c.Accounts[i]]] \in Configuration
    BY ConfigsAssumption, TruncatedType
  <2> QED
    BY <1>3, <2>1, FaultedPoolConsistent DEF RegisterInvalid, Faults
<1>4. ASSUME NEW c \in Configs,
             ReconfigureInvalid \/ ReconfigureRefused(c) \/ FailClosed
      PROVE  Consistent'
  <2>1. rejected \in BOOLEAN
    BY ConsistentParts
  <2> QED
    BY <1>4, <2>1, FaultConsistent
    DEF ReconfigureInvalid, ReconfigureRefused, FailClosed, Faults
<1>5. ASSUME NEW c \in Configs, NEW oc, Reconfigure(c, oc) PROVE Consistent'
  BY <1>5, ReconfigureConsistent
<1>6. CASE Configure
  BY <1>1, <1>2, <1>3, <1>4, <1>5, <1>6 DEF Configure
<1>7. ASSUME NEW r \in Requests, NEW listed, PickFailover(r, listed)
      PROVE  Consistent'
  BY <1>7, FailoverConsistent DEF PickFailover
<1>8. ASSUME NEW r \in Requests, Pick(r) PROVE Consistent'
  BY <1>7, <1>8, PickFirstConsistent, PickCurrentConsistent DEF Pick
<1>9. ASSUME NEW r \in Requests, Observe(r) PROVE Consistent'
  BY <1>9, ObserveConsistent
<1>10. CASE Guard
  BY <1>10, FailoverConsistent DEF Guard
<1>11. ASSUME NEW fp \in Fingerprints, NEW oc, Resume(fp, oc)
       PROVE  Consistent'
  BY <1>11, ResumeConsistent
<1>12. CASE FailClosed
  BY <1>4, <1>12, ConfigsAssumption
<1>13. CASE Crash \/ \E oc \in SaveOutcomes : Shutdown(oc)
  BY <1>13, StopConsistent
<1>14. CASE Tick \/ StepBack \/ \E r \in Requests : LoseResult(r)
  BY <1>14, EnvironmentConsistent
<1>15. CASE UNCHANGED vars
  BY <1>15, FaultConsistent, ConsistentParts DEF vars, poolVars
<1> QED
  BY <1>6, <1>8, <1>9, <1>10, <1>11, <1>12, <1>13, <1>14, <1>15 DEF Next

\* Every variable keeps its type in every behaviour: the maps of pool.go only
\* hold known keys, and every answer of Pick is an auth ID of the host.
THEOREM TypeCorrect == Spec => []TypeOK
<1>1. Consistent => TypeOK
  BY DEF Consistent
<1> QED
  BY <1>1, InitConsistent, NextConsistent, PTL DEF Spec

\* No handler dereferences a missing keyState, whatever was loaded, added or
\* taken out of the configuration.
THEOREM NoMissingKeyState == Spec => []KeysCoverAccounts
<1>1. Consistent => KeysCoverAccounts
  BY DEF Consistent
<1> QED
  BY <1>1, InitConsistent, NextConsistent, PTL DEF Spec

-----------------------------------------------------------------------------
(***************************************************************************)
(* The current account is never cooling while the clock runs forward.  The *)
(* invariant needs the same fact about every state file, because newPool   *)
(* takes the current account from one of them.                             *)
(***************************************************************************)
NotCoolingIn(s, t) ==
    s.Current # "" => /\ s.Current \in DOMAIN s.Keys
                      /\ ~Cooling(s.Keys, s.Current, t)

\* No state file names a current account that is still cooling down.
FilesNeverCooling == \A d \in StateDirs : NotCoolingIn(disk[d], now)

\* The inductive invariant behind NeverCooling.
Settled == /\ CurrentNeverCooling /\ FilesNeverCooling
           /\ ~up => current = ""

\* There is no current account before plugin.register.
LEMMA InitSettled == Init => Settled
<1> SUFFICES ASSUME Init PROVE Settled
  OBVIOUS
<1>1. current = "" /\ disk = [d \in StateDirs |-> EmptyState]
  BY Zenon DEF Init
<1> QED
  BY <1>1 DEF Settled, CurrentNeverCooling, FilesNeverCooling, NotCoolingIn,
              EmptyState

\* A time that lies ahead later lies ahead now.
LEMMA TimePasses == \A e, t, u \in Nat : t <= u /\ u < e => t < e
  OBVIOUS

\* A cooldown that has ended stays ended.
LEMMA CoolingEnds ==
    ASSUME NEW s, IsPersistedState(s), NEW t \in Nat, NEW u \in Nat, t <= u,
           NotCoolingIn(s, t)
    PROVE  NotCoolingIn(s, u)
<1> SUFFICES ASSUME s.Current # ""
             PROVE  NotCoolingIn(s, u)
  BY DEF NotCoolingIn
<1>1. s.Keys[s.Current] \in KeyState
  BY DEF NotCoolingIn, IsPersistedState
<1>2. /\ s.Keys[s.Current].ExhaustedUntil \in Nat
      /\ s.Keys[s.Current].SuspendedUntil \in Nat
      /\ s.Keys[s.Current].TransientUntil \in Nat
  BY <1>1 DEF KeyState
<1>3. ~Cooling(s.Keys, s.Current, t) /\ s.Current \in DOMAIN s.Keys
  BY DEF NotCoolingIn
<1>4. ~Cooling(s.Keys, s.Current, u)
  BY <1>2, <1>3, TimePasses, Zenon DEF Cooling
<1> QED
  BY <1>3, <1>4 DEF NotCoolingIn

\* Save replaces one file by a settled state, or none.
LEMMA WrittenNotCooling ==
    ASSUME FilesTypeOK, FilesNeverCooling, NEW d \in StateDirs, NEW s,
           IsPersistedState(s), NotCoolingIn(s, now), NEW oc
    PROVE  \A e \in StateDirs : NotCoolingIn(Written(d, s, oc)[e], now)
<1> TAKE e \in StateDirs
<1>1. Written(d, s, oc)[e] = disk[e] \/ Written(d, s, oc)[e] = s
  BY WrittenType
<1> QED
  BY <1>1 DEF FilesNeverCooling

\* A handler that ends with a save, or without one, leaves the files settled
\* when it leaves the pool settled.
LEMMA SaveSettled ==
    ASSUME Consistent, Settled, Consistent', now' = now, up',
           CurrentNeverCooling',
           \/ disk' = disk
           \/ \E oc : disk' = Written(cfg'.StateDir, State', oc)
    PROVE  Settled'
<1>1. cfg' \in Configuration /\ IsPersistedState(State)'
  BY DEF Consistent, TypeOK, PoolTypeOK
<1>2. cfg'.StateDir \in StateDirs
  BY <1>1, AccountsType
<1>3. NotCoolingIn(State', now)
  <2>1. current' # "" => current' \in DOMAIN keys'
    BY DEF Consistent, KeysCoverAccounts
  <2>2. State'.Current = current' /\ State'.Keys = keys'
    BY DEF State
  <2> QED
    BY <2>1, <2>2 DEF NotCoolingIn, CurrentNeverCooling
<1>4. FilesTypeOK /\ FilesNeverCooling
  BY DEF Consistent, TypeOK, Settled
<1>5. FilesNeverCooling'
  BY <1>1, <1>2, <1>3, <1>4, WrittenNotCooling DEF FilesNeverCooling
<1> QED
  BY <1>5 DEF Settled

\* saveLocked leaves the files alone or replaces one by the pool's state.
LEMMA SaveLockedWrites ==
    ASSUME NEW f, NEW oc, SaveLocked(f, oc)
    PROVE  disk' = disk \/ \E o : disk' = Written(cfg'.StateDir, State', o)
  BY DEF SaveLocked

\* newPool takes the current account from a settled file.
LEMMA NewPoolSettled ==
    ASSUME Consistent, Settled, Consistent', NEW c \in Configs, NewPool(c)
    PROVE  Settled'
<1> DEFINE s == disk[c.StateDir]
<1>1. c \in Configuration /\ c.StateDir \in StateDirs
  BY ConfigsAssumption, AccountsType
<1>2. IsPersistedState(s) /\ NotCoolingIn(s, now)
  BY <1>1 DEF Consistent, TypeOK, FilesTypeOK, Settled, FilesNeverCooling
<1>3. /\ current' # "" => current' = s.Current
      /\ keys' = Install(c, s.Keys) /\ now' = now /\ up' /\ disk' = disk
  BY DEF NewPool, Restore
<1>4. \A fp \in DOMAIN s.Keys : keys'[fp] = s.Keys[fp]
  BY <1>1, <1>2, <1>3, InstallType DEF IsPersistedState
<1> HIDE DEF s
<1>5. CurrentNeverCooling'
  BY <1>2, <1>3, <1>4 DEF CurrentNeverCooling, NotCoolingIn, Cooling
<1> QED
  BY <1>3, <1>5, SaveSettled

\* Reconfigure keeps the current account or chooses one that may serve.
LEMMA ReconfigureSettled ==
    ASSUME Consistent, Settled, Consistent', NEW c \in Configs, NEW oc,
           Reconfigure(c, oc)
    PROVE  Settled'
<1>1. c \in Configuration /\ Enabled(c) \subseteq Fingerprints
      /\ "" \notin Fingerprints
  BY ConfigsAssumption, AccountsType, ConstantsAssumption
<1>2. /\ up /\ up' /\ now' = now /\ keys' = Install(c, keys) /\ cfg' = c
      /\ disk' = Written(cfg'.StateDir, State', oc)
  BY DEF Reconfigure
<1>3. CurrentNeverCooling'
  <2>1. CASE current \in Enabled(c)
    <3>1. current' = current /\ current # ""
      BY <1>1, <2>1 DEF Reconfigure
    <3>2. current \in DOMAIN keys
      BY <1>2, <3>1, ConsistentParts
    <3>3. DOMAIN keys \subseteq Fingerprints /\ keys \in [DOMAIN keys -> KeyState]
      BY ConsistentParts
    <3>4. keys'[current] = keys[current]
      BY <1>1, <1>2, <3>2, <3>3, InstallType
    <3> QED
      BY <1>2, <3>1, <3>4 DEF Settled, CurrentNeverCooling, Cooling
  <2>2. CASE current \notin Enabled(c)
    <3>1. current' = ChooseLocked(c, keys', cursor, now)
      BY <1>2, <2>2 DEF Reconfigure
    <3> QED
      BY <1>1, <1>2, <3>1, ChooseIsEligible, UnblockedNotCooling
      DEF CurrentNeverCooling
  <2> QED
    BY <2>1, <2>2
<1> QED
  BY <1>2, <1>3, SaveSettled

\* Pick's first selection may serve.
LEMMA PickFirstSettled ==
    ASSUME Consistent, Settled, Consistent', NEW r, NEW listed, NEW oc,
           PickFirst(r, listed, oc)
    PROVE  Settled'
<1>1. /\ up' /\ now' = now /\ keys' = keys /\ SaveLocked(fault, oc)
      /\ current' = ChooseLocked(cfg, keys, cursor, now)
  BY DEF PickFirst, Serving
<1>2. CurrentNeverCooling'
  BY <1>1, ConsistentParts, ChooseIsEligible, UnblockedNotCooling
  DEF CurrentNeverCooling
<1> QED
  BY <1>1, <1>2, SaveSettled, SaveLockedWrites

\* The unsaved failover of Pick and Guard is dead code in a settled pool.
LEMMA NoFailover == Settled => ~FailoverUnsaved
  BY DEF Settled, CurrentNeverCooling, FailoverUnsaved, BlockedLocked, Cooling

\* An outcome that cools the current account down moves the pool off it in
\* the same call of Observe; any other leaves its cooldowns alone.
LEMMA ObserveSettled ==
    ASSUME Consistent, Settled, Consistent', NEW r \in Requests, Observe(r)
    PROVE  Settled'
<1>1. up /\ up' /\ now' = now
  <2>1. Reported(r) => up /\ up' /\ now' = now
    BY DEF Reported
  <2> QED
    BY <2>1, ObserveCases DEF ObserveDropped, Counted, CountedFailure, Failure
<1>2. CASE ObserveDropped(r)
  BY <1>1, <1>2, SaveSettled
  DEF ObserveDropped, Settled, CurrentNeverCooling
<1>3. ASSUME NEW oc, Counted(r, oc)
      PROVE  Settled'
  BY <1>1, <1>3, SaveSettled, SaveLockedWrites
  DEF Counted, Settled, CurrentNeverCooling
<1>4. ASSUME NEW ras \in Nat, NEW lat \in Nat, NEW oc, NEW k, NEW moves,
             CountedFailure(r, ras, lat, k, moves, oc)
      PROVE  Settled'
  <2> DEFINE fp == Owner(r)
             k2 == Stamped(k, ras, lat)
  <2>1. /\ fp \in Configured(cfg) /\ SaveLocked(fault, oc)
        /\ keys' = [keys EXCEPT ![fp] = k2] /\ k \in KeyState
        /\ \/ /\ UNCHANGED <<current, cursor>>
              /\ current # fp \/ SameCooling(k, keys[fp])
           \/ current' = ChooseLocked(cfg, keys', fp, now)
    BY <1>4, FailureEffect
  <2>2. SameCooling(k2, k)
    BY <2>1 DEF SameCooling, KeyState, Stamped
  <2>3. fp \in DOMAIN keys
    BY <1>1, <2>1, ConsistentParts
  <2> HIDE DEF fp, k2
  <2>4. CurrentNeverCooling'
    <3>1. CASE current' = ChooseLocked(cfg, keys', fp, now)
      BY <1>1, <3>1, ConsistentParts, ChooseIsEligible, UnblockedNotCooling
      DEF CurrentNeverCooling
    <3>2. CASE UNCHANGED current /\ current # fp
      <4>1. keys'[current] = keys[current] \/ current = ""
        BY <1>1, <2>1, <3>2, ConsistentParts
      <4> QED
        BY <1>1, <3>2, <4>1 DEF Settled, CurrentNeverCooling, Cooling
    <3>3. CASE /\ UNCHANGED current /\ current = fp
               /\ SameCooling(k, keys[fp])
      <4>1. keys'[fp] = k2
        BY <2>1, <2>3, ConsistentParts
      <4>2. SameCooling(k2, keys[fp])
        BY <2>2, <3>3 DEF SameCooling
      <4> QED
        BY <1>1, <3>3, <4>1, <4>2
        DEF Settled, CurrentNeverCooling, Cooling, SameCooling
    <3> QED
      BY <2>1, <3>1, <3>2, <3>3
  <2> QED
    BY <1>1, <2>1, <2>4, SaveSettled, SaveLockedWrites
<1> QED
  BY <1>2, <1>3, <1>4, ObserveCases

\* Resume only ends cooldowns.
LEMMA ResumeSettled ==
    ASSUME Consistent, Settled, Consistent', NEW fp \in Fingerprints, NEW oc,
           Resume(fp, oc)
    PROVE  Settled'
<1>1. /\ up /\ up' /\ now' = now /\ current' = current /\ SaveLocked(fault, oc)
      /\ fp \in DOMAIN keys /\ now \in Nat
  BY ConsistentParts DEF Resume
<1>2. /\ keys'[fp].ExhaustedUntil = 0 /\ keys'[fp].SuspendedUntil = 0
      /\ keys'[fp].TransientUntil = 0
  BY <1>1, ConsistentParts DEF Resume, FreshKey
<1>3. \A g \in DOMAIN keys : g # fp => keys'[g] = keys[g]
  BY ConsistentParts DEF Resume
<1>4. ~Cooling(keys', fp, now)
  BY <1>1, <1>2 DEF Cooling
<1>5. CurrentNeverCooling'
  <2>1. current # "" => current \in DOMAIN keys
    BY <1>1, ConsistentParts
  <2> QED
    BY <1>1, <1>3, <1>4, <2>1 DEF Settled, CurrentNeverCooling, Cooling
<1> QED
  BY <1>1, <1>5, SaveSettled, SaveLockedWrites

\* Steps that touch neither the state nor the files, while no time is undone.
LEMMA QuietSettled ==
    ASSUME Consistent, Settled, UNCHANGED <<current, keys, disk>>,
           up' = up, now' \in Nat, now <= now'
    PROVE  Settled'
<1>1. now \in Nat /\ IsPersistedState(State) /\ FilesTypeOK
  BY ConsistentParts DEF Consistent, TypeOK, PoolTypeOK
<1>2. ~up => current = ""
  BY DEF Settled
<1>3. FilesNeverCooling'
  BY <1>1, CoolingEnds DEF Settled, FilesNeverCooling, FilesTypeOK
<1>4. CurrentNeverCooling'
  <2>1. up /\ current # "" => NotCoolingIn(State, now)
    <3>1. up /\ current # "" => current \in DOMAIN keys
      BY DEF Consistent, KeysCoverAccounts
    <3>2. State.Current = current /\ State.Keys = keys
      BY DEF State
    <3> QED
      BY <3>1, <3>2 DEF Settled, NotCoolingIn, CurrentNeverCooling
  <2>2. up /\ current # "" => NotCoolingIn(State, now')
    BY <1>1, <2>1, CoolingEnds
  <2>3. up /\ current # "" => ~Cooling(keys, current, now')
    BY <2>2 DEF State, NotCoolingIn
  <2> QED
    BY <1>2, <2>3 DEF CurrentNeverCooling, Cooling
<1>5. ~up' => current' = ""
  BY <1>2
<1> QED
  BY <1>3, <1>4, <1>5 DEF Settled

\* close writes a settled state, a crash nothing.
LEMMA StopSettled ==
    ASSUME Consistent, Settled, Crash \/ \E oc \in SaveOutcomes : Shutdown(oc)
    PROVE  Settled'
<1>1. NoPool /\ now' = now /\ up
  BY DEF Crash, Shutdown
<1>2. current' = "" /\ ~up'
  BY <1>1 DEF NoPool
<1>3. NotCoolingIn(State, now)
  <2>1. current # "" => current \in DOMAIN keys
    BY <1>1 DEF Consistent, KeysCoverAccounts
  <2>2. State.Current = current /\ State.Keys = keys
    BY DEF State
  <2> QED
    BY <2>1, <2>2 DEF Settled, NotCoolingIn, CurrentNeverCooling
<1>4. disk' = disk \/ \E oc : disk' = Written(cfg.StateDir, State, oc)
  BY DEF Crash, Shutdown
<1>5. cfg.StateDir \in StateDirs /\ IsPersistedState(State) /\ FilesTypeOK
      /\ FilesNeverCooling
  BY ConsistentParts, AccountsType DEF Consistent, TypeOK, PoolTypeOK, Settled
<1>6. FilesNeverCooling'
  BY <1>1, <1>3, <1>4, <1>5, WrittenNotCooling DEF FilesNeverCooling
<1> QED
  BY <1>2, <1>6 DEF Settled, CurrentNeverCooling

\* No step of a settled pool unsettles it, except a clock that steps back.
LEMMA NextSettled ==
    ASSUME "clock" \notin Hazards, Consistent, Settled, [Next]_vars
    PROVE  Settled'
<1>1. Consistent'
  BY NextConsistent
<1>2. now \in Nat
  BY ConsistentParts
<1>3. ASSUME NEW c, NEW reason, FaultedPool(c, reason) PROVE Settled'
  <2>1. current' = "" /\ up' /\ disk' = disk /\ now' = now
    BY <1>3 DEF FaultedPool
  <2> QED
    BY <1>1, <2>1, SaveSettled DEF CurrentNeverCooling
<1>4. ASSUME UNCHANGED <<up, current, keys, disk, now>> PROVE Settled'
  BY <1>2, <1>4, QuietSettled
<1>5. ASSUME NEW c \in Configs, NEW n, NEW oc,
             \/ NewPool(c) \/ RegisterUnavailable(c) \/ RegisterInvalid(c, n)
             \/ ReconfigureInvalid \/ ReconfigureRefused(c)
             \/ Reconfigure(c, oc)
      PROVE  Settled'
  <2>1. CASE NewPool(c)
    BY <1>1, <2>1, NewPoolSettled
  <2>2. CASE RegisterUnavailable(c) \/ RegisterInvalid(c, n)
    BY <1>3, <2>2 DEF RegisterUnavailable, RegisterInvalid
  <2>3. CASE ReconfigureInvalid \/ ReconfigureRefused(c)
    BY <1>4, <2>3 DEF ReconfigureInvalid, ReconfigureRefused
  <2>4. CASE Reconfigure(c, oc)
    BY <1>1, <2>4, ReconfigureSettled
  <2> QED
    BY <1>5, <2>1, <2>2, <2>3, <2>4
<1>6. CASE Configure
  BY <1>5, <1>6 DEF Configure
<1>7. ASSUME NEW r \in Requests, Pick(r) PROVE Settled'
  <2>1. CASE PickCurrent(r)
    BY <1>4, <2>1 DEF PickCurrent, poolVars
  <2>2. ASSUME NEW listed, PickFailover(r, listed) PROVE Settled'
    BY <2>2, NoFailover DEF PickFailover
  <2> QED
    BY <1>1, <1>7, <2>1, <2>2, PickFirstSettled DEF Pick
<1>8. ASSUME NEW r \in Requests, Observe(r) PROVE Settled'
  BY <1>1, <1>8, ObserveSettled
<1>9. CASE Guard
  BY <1>9, NoFailover DEF Guard
<1>10. ASSUME NEW fp \in Fingerprints, NEW oc, Resume(fp, oc) PROVE Settled'
  BY <1>1, <1>10, ResumeSettled
<1>11. CASE FailClosed \/ UNCHANGED vars
       \/ \E r \in Requests : LoseResult(r)
  BY <1>4, <1>11 DEF FailClosed, LoseResult, vars, poolVars
<1>12. CASE Crash \/ \E oc \in SaveOutcomes : Shutdown(oc)
  BY <1>12, StopSettled
<1>13. CASE Tick
  <2>1. UNCHANGED <<up, current, keys, disk>> /\ now' = now + 1
    BY <1>13 DEF Tick, poolVars
  <2>2. now' \in Nat /\ now <= now'
    BY <1>2, <2>1
  <2> QED
    BY <2>1, <2>2, QuietSettled
<1>14. ~StepBack
  BY DEF StepBack
<1> QED
  BY <1>6, <1>7, <1>8, <1>9, <1>10, <1>11, <1>12, <1>13, <1>14 DEF Next

\* As long as the clock never steps back, the account Pick sends every request
\* to is never exhausted, suspended or in quarantine, for any number of
\* accounts and requests and any order of outcomes, reloads and restarts.
THEOREM NeverCooling ==
    ASSUME "clock" \notin Hazards
    PROVE  Spec => []CurrentNeverCooling
<1>1. Settled => CurrentNeverCooling
  BY DEF Settled
<1>2. Consistent /\ Settled /\ [Next]_vars => Consistent' /\ Settled'
  BY NextConsistent, NextSettled
<1> QED
  BY <1>1, <1>2, InitConsistent, InitSettled, PTL DEF Spec

-----------------------------------------------------------------------------
(***************************************************************************)
(* Without a store there is a fault.  faultedPool sets it, saveLocked      *)
(* returns before it could clear it, and Reconfigure refuses such a pool.  *)
(***************************************************************************)

\* saveLocked leaves the fault of a pool without a store alone.
LEMMA SaveKeepsFault ==
    ASSUME ServesOnlyWithStore, NEW oc, SaveLocked(fault, oc),
           UNCHANGED <<up, store>>
    PROVE  ServesOnlyWithStore'
  BY DEF ServesOnlyWithStore, SaveLocked

\* No step gives a pool without a store a clean bill.
LEMMA NextServesOnlyWithStore ==
    ServesOnlyWithStore /\ [Next]_vars => ServesOnlyWithStore'
<1> SUFFICES ASSUME ServesOnlyWithStore, [Next]_vars
             PROVE  ServesOnlyWithStore'
  OBVIOUS
<1>1. ASSUME NEW c \in Configs, NEW n, NEW oc,
             \/ NewPool(c) \/ RegisterUnavailable(c) \/ RegisterInvalid(c, n)
             \/ ReconfigureInvalid \/ ReconfigureRefused(c)
             \/ Reconfigure(c, oc)
      PROVE  ServesOnlyWithStore'
  <2>1. NewPool(c) \/ Reconfigure(c, oc) => store'
    <3>1. NewPool(c) => store' = TRUE
      BY Zenon DEF NewPool
    <3>2. Reconfigure(c, oc) => store /\ store' = store
      BY DEF Reconfigure
    <3> QED
      BY <3>1, <3>2
  <2>2. /\ "configuration_error" # ""
        /\ "state_unavailable_restart_required" # ""
        /\ "configuration_or_state_error_restart_required" # ""
    OBVIOUS
  <2>3. (\/ RegisterUnavailable(c) \/ RegisterInvalid(c, n)
         \/ ReconfigureInvalid \/ ReconfigureRefused(c)) => fault' # ""
    BY <2>2, Zenon DEF RegisterUnavailable, RegisterInvalid, FaultedPool,
       ReconfigureInvalid, ReconfigureRefused
  <2>4. store' \/ fault' # ""
    BY <1>1, <2>1, <2>3
  <2> QED
    BY <2>4 DEF ServesOnlyWithStore
<1>2. CASE Configure
  BY <1>1, <1>2 DEF Configure
<1>3. ASSUME UNCHANGED <<up, store, fault>> PROVE ServesOnlyWithStore'
  BY <1>3 DEF ServesOnlyWithStore
<1>4. ASSUME NEW r \in Requests, Pick(r) PROVE ServesOnlyWithStore'
  <2>1. ASSUME NEW listed, NEW oc, PickFirst(r, listed, oc)
        PROVE  ServesOnlyWithStore'
    BY <2>1, SaveKeepsFault DEF PickFirst
  <2>2. ASSUME NEW listed, PickCurrent(r) \/ PickFailover(r, listed)
        PROVE  ServesOnlyWithStore'
    BY <1>3, <2>2 DEF PickCurrent, PickFailover, poolVars
  <2> QED
    BY <1>4, <2>1, <2>2 DEF Pick
<1>5. ASSUME NEW r \in Requests, Observe(r) PROVE ServesOnlyWithStore'
  <2>1. CASE ObserveDropped(r)
    BY <1>3, <2>1 DEF ObserveDropped, Reported
  <2>2. ASSUME NEW oc, Reported(r), SaveLocked(fault, oc)
        PROVE  ServesOnlyWithStore'
    BY <2>2, SaveKeepsFault DEF Reported
  <2>3. ASSUME NEW oc, ObserveSuccess(r, oc) PROVE ServesOnlyWithStore'
    BY <2>2, <2>3 DEF ObserveSuccess
  <2>4. ASSUME NEW ras, NEW lat, NEW oc, ObserveStale(r, ras, lat, oc)
        PROVE  ServesOnlyWithStore'
    BY <2>2, <2>4 DEF ObserveStale
  <2>5. ASSUME NEW ras, NEW lat, NEW k, NEW moves, NEW oc,
               Failure(r, ras, lat, k, moves, oc)
        PROVE  ServesOnlyWithStore'
    BY <2>2, <2>5 DEF Failure
  <2>6. ASSUME NEW ras, NEW lat, NEW oc, ObserveFailure(r, ras, lat, oc)
        PROVE  ServesOnlyWithStore'
    BY <2>4, <2>5, <2>6, Zenon DEF ObserveFailure, ObserveQuota, ObserveAuth,
       ObserveRateLimit, ObserveTransient, ObserveOther
  <2> QED
    BY <1>5, <2>1, <2>3, <2>6 DEF Observe
<1>6. ASSUME NEW fp, NEW oc, Resume(fp, oc) PROVE ServesOnlyWithStore'
  BY <1>6, SaveKeepsFault DEF Resume
<1>7. CASE FailClosed
  BY <1>7 DEF FailClosed, ServesOnlyWithStore
<1>8. CASE Crash \/ \E oc \in SaveOutcomes : Shutdown(oc)
  BY <1>8 DEF Crash, Shutdown, NoPool, ServesOnlyWithStore
<1>9. CASE Guard \/ Tick \/ StepBack \/ UNCHANGED vars
           \/ \E r \in Requests : LoseResult(r)
  BY <1>3, <1>9 DEF Guard, Tick, StepBack, LoseResult, vars, poolVars
<1> QED
  BY <1>2, <1>4, <1>5, <1>6, <1>7, <1>8, <1>9 DEF Next

\* A pool that faultedPool made, because its state file could not be opened or
\* read, refuses every request until the host restarts, whatever is called.
THEOREM NoServiceWithoutStore == Spec => []ServesOnlyWithStore
<1>1. Init => ServesOnlyWithStore
  BY DEF Init, ServesOnlyWithStore
<1> QED
  BY <1>1, NextServesOnlyWithStore, PTL DEF Spec

-----------------------------------------------------------------------------
(***************************************************************************)
(* A refused configuration keeps the pool closed as long as saves succeed: *)
(* the only fault that saveLocked lifts is its own, "state_write_failed",  *)
(* and without storage errors no fault ever has that name.  With them the  *)
(* run doc_rejected shows the counterexample.                              *)
(***************************************************************************)
StaysClosed == fault # "state_write_failed" /\ RejectedConfigFailsClosed

\* A save that succeeds leaves a fault that is not its own alone.
LEMMA SaveKeepsOthersFault ==
    ASSUME StaysClosed, SaveLocked(fault, "ok"), UNCHANGED <<up, rejected>>
    PROVE  StaysClosed'
<1>1. fault' = fault
  BY Zenon DEF StaysClosed, SaveLocked
<1> QED
  BY <1>1, Zenon DEF StaysClosed, RejectedConfigFailsClosed

\* No step opens a pool whose last configuration was refused.
LEMMA NextStaysClosed ==
    ASSUME "storage" \notin Hazards, StaysClosed, [Next]_vars
    PROVE  StaysClosed'
<1>1. \A oc \in SaveOutcomes : oc = "ok"
  BY Zenon DEF SaveOutcomes
<1>2. ASSUME UNCHANGED <<up, fault, rejected>> PROVE StaysClosed'
  BY <1>2, Zenon DEF StaysClosed, RejectedConfigFailsClosed
<1>3. ASSUME fault' # "", fault' # "state_write_failed" PROVE StaysClosed'
  BY <1>3, Zenon DEF StaysClosed, RejectedConfigFailsClosed
<1>4. ASSUME fault' = "", ~rejected' PROVE StaysClosed'
  <2>1. "" # "state_write_failed"
    OBVIOUS
  <2> QED
    BY <1>4, <2>1, Zenon DEF StaysClosed, RejectedConfigFailsClosed
<1>5. /\ "configuration_error" \notin {"", "state_write_failed"}
      /\ "state_unavailable_restart_required" \notin {"", "state_write_failed"}
      /\ "configuration_or_state_error_restart_required"
            \notin {"", "state_write_failed"}
      /\ "internal_error" \notin {"", "state_write_failed"}
  OBVIOUS
<1>6. ASSUME NEW c \in Configs, NEW n, NEW oc \in SaveOutcomes,
             \/ NewPool(c) \/ RegisterUnavailable(c) \/ RegisterInvalid(c, n)
             \/ ReconfigureInvalid \/ ReconfigureRefused(c)
             \/ Reconfigure(c, oc)
      PROVE  StaysClosed'
  <2>1. CASE NewPool(c)
    BY <1>4, <2>1, Zenon DEF NewPool
  <2>2. CASE RegisterUnavailable(c) \/ RegisterInvalid(c, n)
    BY <1>3, <1>5, <2>2, Zenon DEF RegisterUnavailable, RegisterInvalid,
       FaultedPool
  <2>3. CASE ReconfigureInvalid \/ ReconfigureRefused(c)
    BY <1>3, <1>5, <2>3, Zenon DEF ReconfigureInvalid, ReconfigureRefused
  <2>4. CASE Reconfigure(c, oc)
    BY <1>1, <1>4, <2>4, Zenon DEF Reconfigure
  <2> QED
    BY <1>6, <2>1, <2>2, <2>3, <2>4
<1>7. CASE Configure
  BY <1>1, <1>6, <1>7 DEF Configure, SaveOutcomes
<1>8. ASSUME NEW r \in Requests, Pick(r) PROVE StaysClosed'
  <2>1. ASSUME NEW listed, PickFirst(r, listed, "ok") PROVE StaysClosed'
    BY <2>1, SaveKeepsOthersFault DEF PickFirst
  <2>2. ASSUME NEW listed, PickCurrent(r) \/ PickFailover(r, listed)
        PROVE  StaysClosed'
    BY <1>2, <2>2 DEF PickCurrent, PickFailover, poolVars
  <2> QED
    BY <1>1, <1>8, <2>1, <2>2 DEF Pick
<1>9. ASSUME NEW r \in Requests, Observe(r) PROVE StaysClosed'
  <2>1. CASE ObserveDropped(r)
    BY <1>2, <2>1 DEF ObserveDropped, Reported
  <2>2. ASSUME Reported(r), SaveLocked(fault, "ok") PROVE StaysClosed'
    BY <2>2, SaveKeepsOthersFault DEF Reported
  <2>3. CASE ObserveSuccess(r, "ok")
    BY <2>2, <2>3 DEF ObserveSuccess
  <2>4. ASSUME NEW ras, NEW lat, ObserveStale(r, ras, lat, "ok")
        PROVE  StaysClosed'
    BY <2>2, <2>4 DEF ObserveStale
  <2>5. ASSUME NEW ras, NEW lat, NEW k, NEW moves,
               Failure(r, ras, lat, k, moves, "ok")
        PROVE  StaysClosed'
    BY <2>2, <2>5 DEF Failure
  <2>6. ASSUME NEW ras, NEW lat, ObserveFailure(r, ras, lat, "ok")
        PROVE  StaysClosed'
    BY <2>4, <2>5, <2>6, Zenon DEF ObserveFailure, ObserveQuota, ObserveAuth,
       ObserveRateLimit, ObserveTransient, ObserveOther
  <2> QED
    BY <1>1, <1>9, <2>1, <2>3, <2>6 DEF Observe
<1>10. ASSUME NEW fp, Resume(fp, "ok") PROVE StaysClosed'
  BY <1>10, SaveKeepsOthersFault DEF Resume
<1>11. CASE FailClosed
  BY <1>3, <1>5, <1>11, Zenon DEF FailClosed
<1>12. CASE Crash \/ \E oc \in SaveOutcomes : Shutdown(oc)
  BY <1>4, <1>12, Zenon DEF Crash, Shutdown, NoPool
<1>13. CASE Guard \/ Tick \/ StepBack \/ UNCHANGED vars
            \/ \E r \in Requests : LoseResult(r)
  BY <1>2, <1>13 DEF Guard, Tick, StepBack, LoseResult, vars, poolVars
<1> QED
  BY <1>1, <1>7, <1>8, <1>9, <1>10, <1>11, <1>12, <1>13 DEF Next

\* Where saves succeed, a pool whose last configuration was refused answers no
\* request until a configuration is accepted or the host restarts.
THEOREM RefusedStaysClosed ==
    ASSUME "storage" \notin Hazards
    PROVE  Spec => []RejectedConfigFailsClosed
<1>1. Init => StaysClosed
  BY Zenon DEF Init, StaysClosed, RejectedConfigFailsClosed
<1>2. StaysClosed /\ [Next]_vars => StaysClosed'
  BY NextStaysClosed
<1>3. StaysClosed => RejectedConfigFailsClosed
  BY DEF StaysClosed
<1> QED
  BY <1>1, <1>2, <1>3, PTL DEF Spec

-----------------------------------------------------------------------------
(***************************************************************************)
(* A crash loses nothing.  Every handler ends with a save except the       *)
(* failovers of Pick and Guard, which NoFailover rules out as long as the  *)
(* clock runs forward: the argument needs Settled.                         *)
(***************************************************************************)

\* What newPool makes of a file that holds the pool's state is that state.
LEMMA SavedIsSafe ==
    ASSUME Consistent', up', disk'[cfg'.StateDir] = State'
    PROVE  CrashLosesNothing'
<1>1. IsPersistedState(State)'
  BY DEF Consistent, TypeOK, PoolTypeOK
<1>2. /\ Configured(cfg') \subseteq DOMAIN keys'
      /\ current' \in Configured(cfg') \cup {""}
  BY DEF Consistent, KeysCoverAccounts
<1>3. State'.Keys = keys' /\ State'.Current = current'
  BY DEF State
<1>4. Restore(cfg', State') = State'
  BY <1>1, <1>2, <1>3, RestoreFixpoint
<1> QED
  BY <1>4 DEF CrashLosesNothing

\* saveLocked leaves a fault unless the file now holds the pool's state.
LEMMA SaveLockedSafe ==
    ASSUME Consistent, Consistent', up', NEW f, NEW oc, SaveLocked(f, oc)
    PROVE  CrashLosesNothing'
<1>1. FilesTypeOK /\ IsPersistedState(State)' /\ cfg' \in Configuration
  BY DEF Consistent, TypeOK, PoolTypeOK
<1>2. cfg'.StateDir \in StateDirs
  BY <1>1, AccountsType
<1>3. store' /\ fault' = "" => disk' = Written(cfg'.StateDir, State', "ok")
  BY DEF SaveLocked
<1>4. store' /\ fault' = "" => disk'[cfg'.StateDir] = State'
  BY <1>1, <1>2, <1>3 DEF Written, FilesTypeOK
<1> QED
  BY <1>4, SavedIsSafe DEF CrashLosesNothing

\* No step of a pool that a crash would not hurt makes it one that it would.
LEMMA NextCrashLosesNothing ==
    ASSUME "clock" \notin Hazards, Consistent, Settled, CrashLosesNothing,
           [Next]_vars
    PROVE  CrashLosesNothing'
<1>1. Consistent'
  BY NextConsistent
<1>2. ASSUME fault' # "" \/ ~up' PROVE CrashLosesNothing'
  BY <1>2 DEF CrashLosesNothing
<1>3. ASSUME UNCHANGED <<up, cfg, current, cursor, keys, store, fault, disk>>
      PROVE  CrashLosesNothing'
  <2>1. State' = State
    BY <1>3 DEF State
  <2> QED
    BY <1>3, <2>1 DEF CrashLosesNothing
<1>4. ASSUME NEW c \in Configs, NewPool(c) PROVE CrashLosesNothing'
  <2>1. /\ State' = Restore(c, disk[c.StateDir])
        /\ cfg' = c /\ disk' = disk
    BY <1>4 DEF NewPool, Restore, State
  <2> QED
    BY <2>1 DEF CrashLosesNothing
<1>5. ASSUME NEW c \in Configs, NEW oc, Reconfigure(c, oc)
      PROVE  CrashLosesNothing'
  <2>1. /\ up' /\ cfg' = c /\ disk' = Written(c.StateDir, State', oc)
        /\ oc # "ok" => fault' # ""
    BY <1>5 DEF Reconfigure
  <2>2. FilesTypeOK /\ c.StateDir \in StateDirs
    BY ConfigsAssumption, AccountsType DEF Consistent, TypeOK
  <2>3. oc = "ok" => disk'[cfg'.StateDir] = State'
    BY <2>1, <2>2 DEF Written, FilesTypeOK
  <2> QED
    BY <1>1, <1>2, <2>1, <2>3, SavedIsSafe
<1>6. ASSUME NEW c \in Configs, NEW n,
             \/ RegisterUnavailable(c) \/ RegisterInvalid(c, n)
             \/ ReconfigureInvalid \/ ReconfigureRefused(c)
      PROVE  CrashLosesNothing'
  BY <1>2, <1>6 DEF RegisterUnavailable, RegisterInvalid, FaultedPool,
     ReconfigureInvalid, ReconfigureRefused
<1>7. CASE Configure
  BY <1>4, <1>5, <1>6, <1>7 DEF Configure
<1>8. ASSUME NEW r \in Requests, Pick(r) PROVE CrashLosesNothing'
  <2>1. ASSUME NEW listed, NEW oc, PickFirst(r, listed, oc)
        PROVE  CrashLosesNothing'
    BY <1>1, <2>1, SaveLockedSafe DEF PickFirst, Serving
  <2>2. CASE PickCurrent(r)
    BY <1>3, <2>2 DEF PickCurrent, poolVars
  <2>3. ASSUME NEW listed PROVE ~PickFailover(r, listed)
    BY NoFailover DEF PickFailover
  <2> QED
    BY <1>8, <2>1, <2>2, <2>3 DEF Pick
<1>9. ASSUME NEW r \in Requests, Observe(r) PROVE CrashLosesNothing'
  <2>1. CASE ObserveDropped(r)
    BY <1>3, <2>1 DEF ObserveDropped, Reported
  <2>2. ASSUME NEW oc, Counted(r, oc) PROVE CrashLosesNothing'
    BY <1>1, <2>2, SaveLockedSafe DEF Counted, Reported
  <2>3. ASSUME NEW ras, NEW lat, NEW k, NEW moves, NEW oc,
               CountedFailure(r, ras, lat, k, moves, oc)
        PROVE  CrashLosesNothing'
    BY <1>1, <2>3, SaveLockedSafe DEF CountedFailure, Failure, Reported
  <2> QED
    BY <1>9, <2>1, <2>2, <2>3, ObserveCases
<1>10. CASE Guard
  BY <1>10, NoFailover DEF Guard
<1>11. ASSUME NEW fp, NEW oc, Resume(fp, oc) PROVE CrashLosesNothing'
  BY <1>1, <1>11, SaveLockedSafe DEF Resume
<1>12. CASE FailClosed \/ Crash \/ \E oc \in SaveOutcomes : Shutdown(oc)
  BY <1>2, <1>12 DEF FailClosed, Crash, Shutdown, NoPool
<1>13. CASE Tick \/ UNCHANGED vars \/ \E r \in Requests : LoseResult(r)
  BY <1>3, <1>13 DEF Tick, LoseResult, vars, poolVars
<1>14. ~StepBack
  BY DEF StepBack
<1> QED
  BY <1>7, <1>8, <1>9, <1>10, <1>11, <1>12, <1>13, <1>14 DEF Next

\* As long as the clock never steps back, whatever a pool that accepts requests
\* decided on is in the state file: newPool started from it after a crash finds
\* the selection, the cursor and every cooldown as they were.
THEOREM CrashSafety ==
    ASSUME "clock" \notin Hazards
    PROVE  Spec => []CrashLosesNothing
<1>1. Init => CrashLosesNothing
  BY DEF Init, CrashLosesNothing
<1>2. Consistent /\ Settled /\ CrashLosesNothing /\ [Next]_vars
        => Consistent' /\ Settled' /\ CrashLosesNothing'
  BY NextConsistent, NextSettled, NextCrashLosesNothing
<1> QED
  BY <1>1, <1>2, InitConsistent, InitSettled, PTL DEF Spec

-----------------------------------------------------------------------------
(***************************************************************************)
(* Drain, then switch.  This holds whatever the clock, the storage and the *)
(* administrator do: a failure of the current account moves the pool, a    *)
(* reload that takes the account out, and a failover of Pick or Guard,     *)
(* which NoFailover shows to be dead code while the clock runs forward.    *)
(***************************************************************************)

\* Observe moves the pool only for a failure of the current account, and to
\* one that may serve.
LEMMA ObserveDrains ==
    ASSUME Consistent, NEW r \in Requests, Observe(r), current' # current
    PROVE  /\ Owner(r) = current /\ cfg' = cfg
           /\ current' # "" => BlockedLocked(cfg, keys', current', now) = ""
<1>1. ~ObserveDropped(r) /\ \A oc : ~Counted(r, oc)
  BY DEF ObserveDropped, Counted
<1>2. PICK ras \in Nat, lat \in Nat :
         \E oc, k, moves : CountedFailure(r, ras, lat, k, moves, oc)
  BY <1>1, ObserveCases
<1>3. PICK oc, k, moves : CountedFailure(r, ras, lat, k, moves, oc)
  BY <1>2
<1>4. Owner(r) = current /\ cfg' = cfg
  BY <1>3 DEF CountedFailure, Failure, Reported
<1>5. current' = ChooseLocked(cfg, keys', Owner(r), now)
  BY <1>3, FailureEffect
<1>6. cfg \in Configuration
  BY ConsistentParts
<1> QED
  BY <1>4, <1>5, <1>6, ChooseIsEligible

\* A failover without a save leaves an account that is cooling, for one that
\* may serve.
LEMMA FailoverDrains ==
    ASSUME Consistent, FailoverUnsaved
    PROVE  /\ Cooling(keys, current, now)
           /\ current' # "" => BlockedLocked(cfg, keys, current', now) = ""
<1>1. Cooling(keys, current, now)
  BY DEF FailoverUnsaved, BlockedLocked, Cooling
<1>2. current' = ChooseLocked(cfg, keys, current, now) /\ cfg \in Configuration
  BY ConsistentParts DEF FailoverUnsaved
<1> QED
  BY <1>1, <1>2, ChooseIsEligible

\* A reload leaves an account only when the new configuration has disabled or
\* removed it, for one that may serve under the new configuration.
LEMMA ReconfigureDrains ==
    ASSUME NEW c \in Configuration, NEW oc, Reconfigure(c, oc),
           current' # current
    PROVE  /\ current \notin Enabled(cfg')
           /\ current' # "" => BlockedLocked(cfg', keys', current', now) = ""
<1>1. cfg' = c /\ keys' = Install(c, keys) /\ current \notin Enabled(c)
  BY DEF Reconfigure
<1>2. current' = ChooseLocked(c, Install(c, keys), cursor, now)
  BY <1>1 DEF Reconfigure
<1> QED
  BY <1>1, <1>2, ChooseIsEligible

\* Every other step of a running pool keeps its current account.
LEMMA OnlyTheseMove ==
    ASSUME [Next]_vars, up, up', current # "", current' # current
    PROVE  \/ \E r \in Requests : Observe(r)
           \/ \E c \in Configs, oc \in SaveOutcomes : Reconfigure(c, oc)
           \/ FailoverUnsaved /\ UNCHANGED <<cfg, keys>>
<1>1. CASE Configure
  BY <1>1 DEF Configure, NewPool, RegisterUnavailable, RegisterInvalid,
     FaultedPool, ReconfigureInvalid, ReconfigureRefused
<1>2. ASSUME NEW r \in Requests, Pick(r) \/ LoseResult(r)
      PROVE  FailoverUnsaved /\ UNCHANGED <<cfg, keys>>
  BY <1>2 DEF Pick, PickFirst, PickCurrent, PickFailover, LoseResult, poolVars
<1>3. CASE Guard
  BY <1>3 DEF Guard
<1>4. ~FailClosed /\ ~Tick /\ ~StepBack /\ ~UNCHANGED vars
  BY DEF FailClosed, Tick, StepBack, poolVars, vars
<1>5. ~Crash /\ \A oc : ~Shutdown(oc)
  BY DEF Crash, Shutdown, NoPool
<1>6. \A fp, oc : ~Resume(fp, oc)
  BY DEF Resume
<1> QED
  BY <1>1, <1>2, <1>3, <1>4, <1>5, <1>6 DEF Next

\* For any number of accounts, requests and configurations, and whatever the
\* clock and the storage do: a running pool leaves its current account only for
\* an outcome of that account, a reload that took the account out, or because
\* it is cooling, and only for an account that may serve.
THEOREM Drains == Spec => DrainThenSwitch
<1>1. Consistent /\ [Next]_vars => Consistent'
  BY NextConsistent
<1>2. Consistent /\ [Next]_vars
        => [up /\ up' /\ current # "" /\ current' # current
              => /\ \/ \E r \in Requests : Observe(r) /\ Owner(r) = current
                    \/ current \notin Enabled(cfg')
                    \/ Cooling(keys, current, now)
                 /\ current' # ""
                      => BlockedLocked(cfg', keys', current', now) = ""]_vars
  <2> SUFFICES ASSUME Consistent, [Next]_vars, up, up', current # "",
                      current' # current
               PROVE  /\ \/ \E r \in Requests :
                               Observe(r) /\ Owner(r) = current
                         \/ current \notin Enabled(cfg')
                         \/ Cooling(keys, current, now)
                      /\ current' # ""
                           => BlockedLocked(cfg', keys', current', now) = ""
    OBVIOUS
  <2>1. ASSUME NEW r \in Requests, Observe(r)
        PROVE  /\ Owner(r) = current
               /\ current' # ""
                    => BlockedLocked(cfg', keys', current', now) = ""
    BY <2>1, ObserveDrains
  <2>2. ASSUME NEW c \in Configs, NEW oc, Reconfigure(c, oc)
        PROVE  /\ current \notin Enabled(cfg')
               /\ current' # ""
                    => BlockedLocked(cfg', keys', current', now) = ""
    BY <2>2, ReconfigureDrains, ConfigsAssumption
  <2>3. ASSUME FailoverUnsaved, UNCHANGED <<cfg, keys>>
        PROVE  /\ Cooling(keys, current, now)
               /\ current' # ""
                    => BlockedLocked(cfg', keys', current', now) = ""
    BY <2>3, FailoverDrains
  <2> QED
    BY <2>1, <2>2, <2>3, OnlyTheseMove
<1> QED
  BY <1>1, <1>2, InitConsistent, PTL DEF Spec, DrainThenSwitch

-----------------------------------------------------------------------------
(***************************************************************************)
(* The barrier.  Every record that is exhausted has a barrier no earlier   *)
(* than its end, in memory and in every file, and no request in flight     *)
(* was started in the future: what is reported before the end is stale.    *)
(***************************************************************************)
BarredKeys(ks) == \A fp \in DOMAIN ks : Barred(ks[fp])

StartedBefore(t) == \A r \in Requests : reqs[r].at <= t

Barriers == /\ BarredKeys(keys)
            /\ \A d \in StateDirs : BarredKeys(disk[d].Keys)
            /\ StartedBefore(now)

\* A record that was never written has no exhaustion to bar.
LEMMA FreshBarred == Barred(FreshKey) /\ BarredKeys(NoKeys)
  BY DEF Barred, BarredKeys, FreshKey, NoKeys

\* installAccountsLocked adds fresh records only.
LEMMA InstallBarred ==
    ASSUME NEW c, NEW ks, BarredKeys(ks)
    PROVE  BarredKeys(Install(c, ks))
  BY FreshBarred DEF BarredKeys, Install

\* A handler whose save writes the pool's state keeps the barriers when it
\* keeps those in memory.
LEMMA SaveBarred ==
    ASSUME Consistent, Consistent', Barriers, BarredKeys(keys'),
           StartedBefore(now)',
           \/ disk' = disk
           \/ \E oc : disk' = Written(cfg'.StateDir, State', oc)
    PROVE  Barriers'
<1>1. IsPersistedState(State)' /\ cfg' \in Configuration /\ FilesTypeOK
  BY DEF Consistent, TypeOK, PoolTypeOK
<1>2. cfg'.StateDir \in StateDirs /\ State'.Keys = keys'
  BY <1>1, AccountsType DEF State
<1>3. ASSUME NEW d \in StateDirs PROVE BarredKeys(disk'[d].Keys)
  <2>1. disk'[d] = disk[d] \/ disk'[d] = State'
    BY <1>1, <1>2 DEF Written, FilesTypeOK
  <2> QED
    BY <1>2, <2>1 DEF Barriers
<1> QED
  BY <1>3 DEF Barriers

\* A failure that counts keeps the barrier of its account.
LEMMA FailureBarred ==
    ASSUME Consistent, Consistent', Barriers, NEW r \in Requests,
           NEW ras \in Nat, NEW lat \in Nat, NEW k, NEW moves, NEW oc,
           CountedFailure(r, ras, lat, k, moves, oc)
    PROVE  BarredKeys(keys')
<1>1. /\ Owner(r) \in Configured(cfg) /\ up /\ k \in KeyState
      /\ keys' = [keys EXCEPT ![Owner(r)] = Stamped(k, ras, lat)]
  BY FailureEffect
<1>2. Owner(r) \in DOMAIN keys
  BY <1>1, ConsistentParts
<1>3. Barred(keys[Owner(r)])
  BY <1>2 DEF Barriers, BarredKeys
<1>4. Barred(k)
  <2>1. \/ /\ k.ExhaustedUntil = keys[Owner(r)].ExhaustedUntil
           /\ k.IgnoreBefore = keys[Owner(r)].IgnoreBefore
        \/ k.ExhaustedUntil = k.IgnoreBefore
    BY Zenon DEF CountedFailure
  <2>2. k.IgnoreBefore \in Nat
    BY <1>1 DEF KeyState
  <2> QED
    BY <1>3, <2>1, <2>2 DEF Barred
<1>5. Barred(Stamped(k, ras, lat))
  BY <1>1, <1>4 DEF Barred, Stamped, KeyState
<1> QED
  BY <1>1, <1>2, <1>5 DEF Barriers, BarredKeys

\* No outcome of a request lets it start later.
LEMMA ReportedStarted ==
    ASSUME Consistent, Barriers, NEW r \in Requests, Reported(r)
    PROVE  StartedBefore(now)'
<1>1. now \in Nat /\ now' = now
  BY ConsistentParts DEF Reported
<1>2. Idle.at = 0
  BY DEF Idle
<1>3. reqs \in [Requests -> Flights]
  BY ConsistentParts
<1> QED
  BY <1>1, <1>2, <1>3 DEF Barriers, StartedBefore, Reported

\* A request that Pick hands out starts now.
LEMMA HandOutStarted ==
    ASSUME Consistent, Barriers, now' = now, NEW r \in Requests, NEW fp,
           HandOut(r, fp) \/ UNCHANGED reqs
    PROVE  StartedBefore(now)'
<1>1. now \in Nat /\ reqs \in [Requests -> Flights]
  BY ConsistentParts
<1>2. ASSUME NEW x, reqs' = [reqs EXCEPT ![r] = x], x.at = now
      PROVE  StartedBefore(now)'
  BY <1>1, <1>2 DEF Barriers, StartedBefore
<1>3. CASE HandOut(r, fp)
  <2> DEFINE x == [auth |-> AccountLocked(cfg, fp).AuthID, at |-> now,
                   resumed |-> ""]
  <2>1. reqs' = [reqs EXCEPT ![r] = x]
    BY <1>3, Zenon DEF HandOut
  <2>2. x.at = now
    OBVIOUS
  <2> HIDE DEF x
  <2> QED
    BY <1>2, <2>1, <2>2
<1> QED
  BY <1>3 DEF Barriers, StartedBefore

\* Pick keeps the barriers: it changes no record, and what it hands out starts
\* now.
LEMMA PickBarred ==
    ASSUME Consistent, Consistent', Barriers, NEW r \in Requests, Pick(r)
    PROVE  Barriers'
<1>1. ASSUME NEW listed, NEW oc, PickFirst(r, listed, oc) PROVE Barriers'
  <2>1. /\ now' = now /\ keys' = keys /\ SaveLocked(fault, oc)
        /\ \E fp : HandOut(r, fp) \/ UNCHANGED reqs
    BY <1>1, Zenon DEF PickFirst
  <2> QED
    BY <2>1, HandOutStarted, SaveBarred, SaveLockedWrites DEF Barriers
<1>2. ASSUME NEW listed, PickCurrent(r) \/ PickFailover(r, listed)
      PROVE  Barriers'
  <2>1. /\ now' = now /\ keys' = keys /\ disk' = disk
        /\ \E fp : HandOut(r, fp) \/ UNCHANGED reqs
    BY <1>2, Zenon DEF PickCurrent, PickFailover, poolVars
  <2> QED
    BY <2>1, HandOutStarted DEF Barriers
<1> QED
  BY <1>1, <1>2 DEF Pick

\* Observe keeps the barriers.
LEMMA ObserveBarred ==
    ASSUME Consistent, Consistent', Barriers, NEW r \in Requests, Observe(r)
    PROVE  Barriers'
<1>1. CASE ObserveDropped(r)
  BY <1>1, ReportedStarted DEF ObserveDropped, Barriers
<1>2. ASSUME NEW oc, Counted(r, oc) PROVE Barriers'
  BY <1>2, ReportedStarted, SaveBarred, SaveLockedWrites DEF Counted, Barriers
<1>3. ASSUME NEW ras \in Nat, NEW lat \in Nat, NEW oc, NEW k, NEW moves,
             CountedFailure(r, ras, lat, k, moves, oc)
      PROVE  Barriers'
  <2>1. Reported(r) /\ SaveLocked(fault, oc)
    BY <1>3 DEF CountedFailure, Failure
  <2> QED
    BY <1>3, <2>1, FailureBarred, ReportedStarted, SaveBarred, SaveLockedWrites
<1> QED
  BY <1>1, <1>2, <1>3, ObserveCases

\* What Resume leaves of a record: nothing but the barrier and the time of the
\* last failure.
LEMMA ResumeEffect ==
    ASSUME Consistent, NEW fp \in Fingerprints, NEW oc, Resume(fp, oc)
    PROVE  /\ fp \in DOMAIN keys /\ DOMAIN keys' = DOMAIN keys
           /\ Barred(keys'[fp]) /\ keys'[fp].ExhaustedUntil = 0
           /\ keys'[fp].IgnoreBefore = now
           /\ \A e \in DOMAIN keys : e # fp => keys'[e] = keys[e]
<1>1. fp \in DOMAIN keys /\ now \in Nat
  BY ConsistentParts DEF Resume
<1>2. keys' = [keys EXCEPT ![fp] = [FreshKey EXCEPT
                  !.IgnoreBefore = now,
                  !.LastFailureAt = keys[fp].LastFailureAt]]
  BY Zenon DEF Resume
<1> DEFINE k == [FreshKey EXCEPT !.IgnoreBefore = now,
                                 !.LastFailureAt = keys[fp].LastFailureAt]
<1>3. k.ExhaustedUntil = 0 /\ k.IgnoreBefore = now
  BY DEF FreshKey
<1>4. Barred(k)
  BY <1>1, <1>3 DEF Barred
<1>5. keys' = [keys EXCEPT ![fp] = k] /\ keys \in [DOMAIN keys -> KeyState]
  BY <1>2, ConsistentParts
<1> HIDE DEF k
<1> QED
  BY <1>1, <1>3, <1>4, <1>5

\* Resume keeps the barriers and the start of every request.
LEMMA ResumeBarred ==
    ASSUME Consistent, Consistent', Barriers, NEW fp \in Fingerprints, NEW oc,
           Resume(fp, oc)
    PROVE  Barriers'
<1>1. BarredKeys(keys')
  BY ResumeEffect DEF Barriers, BarredKeys
<1>2. \A r \in Requests : reqs'[r].at = reqs[r].at
  <2> TAKE r \in Requests
  <2>1. \/ reqs'[r] = reqs[r]
        \/ reqs[r] # Idle /\ reqs'[r] = [reqs[r] EXCEPT !.resumed = cfg.StateDir]
    BY Zenon DEF Resume
  <2>2. reqs[r] \in Flights
    BY ConsistentParts
  <2>3. CASE reqs[r] \in [auth : AuthIDs, at : Nat \ {0},
                          resumed : StateDirs \cup {""}]
    BY <2>1, <2>3
  <2> QED
    BY <2>1, <2>2, <2>3 DEF Flights
<1>3. now' = now /\ SaveLocked(fault, oc)
  BY DEF Resume
<1>4. StartedBefore(now)'
  BY <1>2, <1>3 DEF Barriers, StartedBefore
<1> QED
  BY <1>1, <1>3, <1>4, SaveBarred, SaveLockedWrites

\* No step of a clock that runs forward breaks a barrier.
LEMMA NextBarred ==
    ASSUME "clock" \notin Hazards, Consistent, Barriers, [Next]_vars
    PROVE  Barriers'
<1>1. Consistent'
  BY NextConsistent
<1>2. now \in Nat /\ \A r \in Requests : reqs[r].at \in Nat
  <2>1. \A r \in Requests : reqs[r].at \in RequestTimes(r)
    BY DEF RequestTimes
  <2> QED
    BY <2>1, RequestTimesType, ConsistentParts
<1>3. ASSUME UNCHANGED <<now, reqs>>, BarredKeys(keys'),
             \/ disk' = disk
             \/ \E oc : disk' = Written(cfg'.StateDir, State', oc)
      PROVE  Barriers'
  BY <1>1, <1>3, SaveBarred DEF Barriers, StartedBefore
<1>4. ASSUME NEW c \in Configs, NEW n, NEW oc,
             \/ NewPool(c) \/ RegisterUnavailable(c) \/ RegisterInvalid(c, n)
             \/ ReconfigureInvalid \/ ReconfigureRefused(c)
             \/ Reconfigure(c, oc)
      PROVE  Barriers'
  <2>1. CASE NewPool(c)
    <3>1. c.StateDir \in StateDirs
      BY ConfigsAssumption, AccountsType
    <3>2. /\ keys' = Install(c, disk[c.StateDir].Keys)
          /\ UNCHANGED <<now, reqs, disk>>
      BY <2>1 DEF NewPool, Restore
    <3> QED
      BY <1>3, <3>1, <3>2, InstallBarred DEF Barriers
  <2>2. ASSUME NEW e, NEW reason, FaultedPool(e, reason) PROVE Barriers'
    BY <1>3, <2>2, InstallBarred, FreshBarred DEF FaultedPool
  <2>3. CASE RegisterUnavailable(c) \/ RegisterInvalid(c, n)
    BY <2>2, <2>3 DEF RegisterUnavailable, RegisterInvalid
  <2>4. CASE ReconfigureInvalid \/ ReconfigureRefused(c)
    BY <1>3, <2>4 DEF ReconfigureInvalid, ReconfigureRefused, Barriers
  <2>5. CASE Reconfigure(c, oc)
    <3>1. /\ keys' = Install(c, keys) /\ UNCHANGED <<now, reqs>>
          /\ disk' = Written(cfg'.StateDir, State', oc)
      BY <2>5 DEF Reconfigure
    <3> QED
      BY <1>3, <3>1, InstallBarred DEF Barriers
  <2> QED
    BY <1>4, <2>1, <2>3, <2>4, <2>5
<1>5. CASE Configure
  BY <1>4, <1>5 DEF Configure
<1>6. ASSUME NEW r \in Requests, Pick(r) \/ Observe(r) PROVE Barriers'
  BY <1>1, <1>6, PickBarred, ObserveBarred
<1>7. ASSUME NEW fp \in Fingerprints, NEW oc, Resume(fp, oc) PROVE Barriers'
  BY <1>1, <1>7, ResumeBarred
<1>8. CASE Guard \/ FailClosed \/ UNCHANGED vars
  BY <1>3, <1>8 DEF Guard, FailClosed, Barriers, vars, poolVars
<1>9. ASSUME NEW oc, Shutdown(oc) PROVE Barriers'
  <2>1. keys' = NoKeys /\ UNCHANGED <<now, reqs>>
    BY <1>9 DEF Shutdown, NoPool
  <2>2. IsPersistedState(State) /\ cfg \in Configuration /\ FilesTypeOK
    BY DEF Consistent, TypeOK, PoolTypeOK
  <2>3. cfg.StateDir \in StateDirs /\ State.Keys = keys
    BY <2>2, AccountsType DEF State
  <2>4. disk' = disk \/ disk' = Written(cfg.StateDir, State, oc)
    BY <1>9 DEF Shutdown
  <2>5. ASSUME NEW d \in StateDirs PROVE BarredKeys(disk'[d].Keys)
    <3>1. disk'[d] = disk[d] \/ disk'[d] = State
      BY <2>2, <2>3, <2>4 DEF Written, FilesTypeOK
    <3> QED
      BY <2>3, <3>1 DEF Barriers
  <2> QED
    BY <2>1, <2>5, FreshBarred DEF Barriers, StartedBefore
<1>10. ASSUME UNCHANGED <<keys, disk>> \/ (keys' = NoKeys /\ disk' = disk),
              now' = now, \A r \in Requests : reqs'[r] \in {reqs[r], Idle}
       PROVE  Barriers'
  <2>1. Idle.at = 0
    BY DEF Idle
  <2>2. StartedBefore(now)'
    BY <1>2, <1>10, <2>1 DEF Barriers, StartedBefore
  <2> QED
    BY <1>10, <2>2, FreshBarred DEF Barriers
<1>11. CASE Crash
  BY <1>10, <1>11 DEF Crash, NoPool
<1>12. ASSUME NEW r \in Requests, LoseResult(r) PROVE Barriers'
  <2>1. reqs \in [Requests -> Flights]
    BY ConsistentParts
  <2> QED
    BY <1>10, <1>12, <2>1 DEF LoseResult, poolVars
<1>13. CASE Tick
  <2>1. now' = now + 1 /\ UNCHANGED <<keys, disk, reqs>>
    BY <1>13 DEF Tick, poolVars
  <2>2. StartedBefore(now)'
    BY <1>2, <2>1 DEF Barriers, StartedBefore
  <2> QED
    BY <2>1, <2>2 DEF Barriers
<1>14. ~StepBack
  BY DEF StepBack
<1> QED
  BY <1>5, <1>6, <1>7, <1>8, <1>9, <1>11, <1>12, <1>13, <1>14 DEF Next

\* There are no records and no requests before plugin.register.
LEMMA InitBarred == Init => Barriers
<1> SUFFICES ASSUME Init PROVE Barriers
  OBVIOUS
<1>1. /\ keys = NoKeys /\ now = 1 /\ disk = [d \in StateDirs |-> EmptyState]
      /\ reqs = [r \in Requests |-> Idle]
  BY Zenon DEF Init
<1>2. EmptyState.Keys = NoKeys /\ Idle.at = 0
  BY DEF EmptyState, Idle
<1> QED
  BY <1>1, <1>2, FreshBarred DEF Barriers, StartedBefore

\* A failure that counts belongs to an account whose exhaustion has ended: an
\* earlier one is turned away by the barrier.
LEMMA CountedIsPast ==
    ASSUME Consistent, Barriers, NEW r \in Requests,
           NEW ras \in RequestTimes(r) \cap Nat, NEW lat \in Nat, NEW oc,
           NEW k, NEW moves, CountedFailure(r, ras, lat, k, moves, oc)
    PROVE  keys[Owner(r)].ExhaustedUntil <= now
<1> DEFINE j == keys[Owner(r)]
<1>1. Owner(r) \in DOMAIN keys
  BY FailureEffect, ConsistentParts
<1>2. j \in KeyState /\ Barred(j) /\ now \in Nat
  BY <1>1, ConsistentParts DEF Barriers, BarredKeys
<1>3. ~Stale(j, ras, Observed(ras, lat))
  BY DEF CountedFailure, Failure
<1>4. ras = 0 \/ ras <= now
  BY DEF RequestTimes, Barriers, StartedBefore
<1>5. j.IgnoreBefore = 0 \/ (ras # 0 /\ ~(ras < j.IgnoreBefore))
  BY <1>3 DEF Stale
<1>6. j.ExhaustedUntil \in Nat /\ j.IgnoreBefore \in Nat
  BY <1>2 DEF KeyState
<1> HIDE DEF j
<1>7. j.ExhaustedUntil <= now
  BY <1>2, <1>4, <1>5, <1>6 DEF Barred
<1> QED
  BY <1>7 DEF j

\* What a step can do to a record in the memory of a pool that keeps running:
\* nothing, Resume, or a failure that counts, after the exhaustion has ended
\* and with a later one if any.  The barrier moves back to now at most.
LEMMA RecordSteps ==
    ASSUME Consistent, Barriers, [Next]_vars, up, up', NEW fp \in DOMAIN keys
    PROVE  /\ fp \in DOMAIN keys'
           /\ \/ keys'[fp] = keys[fp]
              \/ /\ keys'[fp].ExhaustedUntil = 0
                 /\ \E oc \in SaveOutcomes : Resume(fp, oc)
              \/ /\ keys[fp].ExhaustedUntil <= now
                 /\ keys[fp].ExhaustedUntil <= keys'[fp].ExhaustedUntil
           /\ \/ keys'[fp].IgnoreBefore = keys[fp].IgnoreBefore
              \/ keys'[fp].IgnoreBefore >= now
<1> DEFINE Kept == fp \in DOMAIN keys' /\ keys'[fp] = keys[fp]
           Bar == \/ keys'[fp].IgnoreBefore = keys[fp].IgnoreBefore
                  \/ keys'[fp].IgnoreBefore >= now
           Later == /\ fp \in DOMAIN keys' /\ keys[fp].ExhaustedUntil <= now
                    /\ keys[fp].ExhaustedUntil <= keys'[fp].ExhaustedUntil
                    /\ Bar
<1>1. DOMAIN keys \subseteq Fingerprints /\ keys \in [DOMAIN keys -> KeyState]
      /\ now \in Nat
  BY ConsistentParts
<1>2. ASSUME Configure PROVE Kept
  <2>1. ASSUME NEW c \in Configs, NEW oc, Reconfigure(c, oc) PROVE Kept
    <3>1. keys' = Install(c, keys)
      BY <2>1 DEF Reconfigure
    <3> QED
      BY <3>1 DEF Install
  <2>2. ASSUME ReconfigureInvalid \/ \E c \in Configs : ReconfigureRefused(c)
        PROVE  Kept
    BY <2>2 DEF ReconfigureInvalid, ReconfigureRefused
  <2> QED
    BY <1>2, <2>1, <2>2
    DEF Configure, NewPool, RegisterUnavailable, RegisterInvalid, FaultedPool
<1>3. ASSUME NEW r \in Requests, Pick(r) \/ LoseResult(r) PROVE Kept
  BY <1>3 DEF Pick, PickFirst, PickCurrent, PickFailover, LoseResult, poolVars
<1>4. ASSUME NEW r \in Requests, Observe(r)
      PROVE  Kept \/ Later
  <2>1. ASSUME ObserveDropped(r) \/ \E oc : Counted(r, oc) PROVE Kept
    BY <2>1 DEF ObserveDropped, Counted
  <2>2. ASSUME NEW ras \in RequestTimes(r) \cap Nat, NEW lat \in Nat, NEW oc,
               NEW k, NEW moves, CountedFailure(r, ras, lat, k, moves, oc)
        PROVE  Kept \/ Later
    <3>1. /\ keys' = [keys EXCEPT ![Owner(r)] = Stamped(k, ras, lat)]
          /\ k \in KeyState
      BY <2>2, FailureEffect
    <3>2. CASE fp # Owner(r)
      BY <3>1, <3>2
    <3>3. CASE fp = Owner(r)
      <4>1. keys[fp].ExhaustedUntil <= now
        BY <2>2, <3>3, CountedIsPast
      <4>2. \/ /\ k.ExhaustedUntil = keys[fp].ExhaustedUntil
               /\ k.IgnoreBefore = keys[fp].IgnoreBefore
            \/ k.ExhaustedUntil = k.IgnoreBefore /\ k.ExhaustedUntil > now
        BY <2>2, <3>3, Zenon DEF CountedFailure
      <4>3. keys[fp].ExhaustedUntil \in Nat /\ k.ExhaustedUntil \in Nat
        BY <1>1, <3>1 DEF KeyState
      <4>4. /\ fp \in DOMAIN keys' /\ keys'[fp].ExhaustedUntil = k.ExhaustedUntil
            /\ keys'[fp].IgnoreBefore = k.IgnoreBefore
        BY <1>1, <3>1, <3>3 DEF Stamped, KeyState
      <4> QED
        BY <1>1, <4>1, <4>2, <4>3, <4>4
    <3> QED
      BY <3>2, <3>3
  <2> QED
    BY <1>4, <2>1, <2>2, ObserveCases
<1>5. ASSUME NEW e \in Fingerprints, NEW oc \in SaveOutcomes, Resume(e, oc)
      PROVE  \/ Kept
             \/ /\ fp \in DOMAIN keys' /\ keys'[fp].ExhaustedUntil = 0
                /\ Resume(fp, oc) /\ Bar
  BY <1>1, <1>5, ResumeEffect
<1>6. ASSUME Guard \/ FailClosed \/ Tick \/ StepBack \/ UNCHANGED vars
      PROVE  Kept
  BY <1>6 DEF Guard, FailClosed, Tick, StepBack, vars, poolVars
<1>7. ~Crash /\ \A oc : ~Shutdown(oc)
  BY DEF Crash, Shutdown, NoPool
<1> HIDE DEF Kept, Later, Bar
<1>8. \/ Kept \/ Later
      \/ /\ fp \in DOMAIN keys' /\ keys'[fp].ExhaustedUntil = 0
         /\ (\E oc \in SaveOutcomes : Resume(fp, oc)) /\ Bar
  BY <1>2, <1>3, <1>4, <1>5, <1>6, <1>7 DEF Next
<1> QED
  BY <1>8 DEF Kept, Later, Bar

\* For any number of accounts, requests, reloads and restarts, while the clock
\* runs forward: until its reset the record of an exhausted account is changed
\* by nothing but Resume.
THEOREM GenerationClosed ==
    ASSUME "clock" \notin Hazards
    PROVE  Spec => ExhaustedGenerationIsClosed
<1>1. Consistent /\ Barriers /\ [Next]_vars => Consistent' /\ Barriers'
  BY NextConsistent, NextBarred
<1>2. ASSUME Consistent, Barriers, [Next]_vars, up, up', NEW fp \in DOMAIN keys,
             now < keys[fp].ExhaustedUntil
      PROVE  keys'[fp] = keys[fp] \/ keys'[fp].ExhaustedUntil = 0
  <2>1. now \in Nat /\ keys[fp].ExhaustedUntil \in Nat
    BY <1>2, ConsistentParts DEF KeyState
  <2>2. ~(keys[fp].ExhaustedUntil <= now)
    BY <1>2, <2>1
  <2> QED
    BY <1>2, <2>2, RecordSteps
<1>3. Consistent /\ Barriers /\ [Next]_vars
        => [\A fp \in DOMAIN keys :
              up /\ up' /\ now < keys[fp].ExhaustedUntil
                => \/ keys'[fp] = keys[fp]
                   \/ keys'[fp].ExhaustedUntil = 0]_vars
  BY <1>2
<1> QED
  BY <1>1, <1>3, InitConsistent, InitBarred, PTL
  DEF Spec, ExhaustedGenerationIsClosed

-----------------------------------------------------------------------------
(***************************************************************************)
(* Durable cooldowns.  A step leaves the file alone, or the pool that runs *)
(* on it writes its records; and such a pool has a record of every account *)
(* in the file, because newPool reads them all and keys are never removed. *)
(***************************************************************************)
FilesKnown == \A d \in StateDirs : RunsOn(d) => DOMAIN disk[d].Keys \subseteq DOMAIN keys

\* What a step does to the file in d.
FileStep(d) == \/ disk'[d] = disk[d]
               \/ RunsOn(d) /\ RunsOn(d)' /\ disk'[d].Keys = keys'
               \/ RunsOn(d) /\ ~up' /\ disk'[d].Keys = keys

\* A pool on d was there before the step, or has just read the file.
PoolStep(d) ==
    RunsOn(d)' => \/ up /\ RunsOn(d)
                  \/ /\ disk'[d] = disk[d]
                     /\ \A fp \in DOMAIN disk[d].Keys :
                           /\ fp \in DOMAIN keys'
                           /\ keys'[fp] = disk[d].Keys[fp]

\* saveLocked writes only the file of the running pool.
LEMMA SaveSteps ==
    ASSUME Consistent, Consistent', up, up', store' = store,
           cfg'.StateDir = cfg.StateDir,
           \/ disk' = disk
           \/ store' /\ \E oc : disk' = Written(cfg'.StateDir, State', oc),
           NEW d \in StateDirs
    PROVE  FileStep(d) /\ PoolStep(d)
<1>1. PoolStep(d)
  BY DEF PoolStep, RunsOn
<1>2. State'.Keys = keys' /\ FilesTypeOK
  BY ConsistentParts DEF State
<1>3. \/ disk'[d] = disk[d]
      \/ store' /\ d = cfg'.StateDir /\ disk'[d] = State'
  BY <1>2 DEF Written, FilesTypeOK
<1> QED
  BY <1>1, <1>2, <1>3 DEF FileStep, RunsOn

\* saveLocked writes only when there is a store.
LEMMA SaveLockedStored ==
    ASSUME NEW f, NEW oc, SaveLocked(f, oc)
    PROVE  \/ disk' = disk
           \/ store' /\ \E o : disk' = Written(cfg'.StateDir, State', o)
  BY DEF SaveLocked

\* Every step is one of these.
LEMMA FileSteps ==
    ASSUME Consistent, [Next]_vars, NEW d \in StateDirs
    PROVE  FileStep(d) /\ PoolStep(d)
<1>1. Consistent'
  BY NextConsistent
<1>2. ASSUME UNCHANGED <<up, store, disk, cfg>> PROVE FileStep(d) /\ PoolStep(d)
  BY <1>2 DEF FileStep, PoolStep, RunsOn
<1>3. ASSUME up, UNCHANGED <<up, store, cfg>>, NEW oc, SaveLocked(fault, oc)
      PROVE  FileStep(d) /\ PoolStep(d)
  BY <1>1, <1>3, SaveSteps, SaveLockedStored
<1>4. ASSUME NEW c \in Configs, NEW n, NEW oc,
             \/ NewPool(c) \/ RegisterUnavailable(c) \/ RegisterInvalid(c, n)
             \/ ReconfigureInvalid \/ ReconfigureRefused(c)
             \/ Reconfigure(c, oc)
      PROVE  FileStep(d) /\ PoolStep(d)
  <2>1. CASE NewPool(c)
    <3>1. /\ disk' = disk /\ cfg' = c
          /\ keys' = Install(c, disk[c.StateDir].Keys)
      BY <2>1 DEF NewPool, Restore
    <3>2. FileStep(d)
      BY <3>1 DEF FileStep
    <3>3. PoolStep(d)
      BY <3>1 DEF PoolStep, RunsOn, Install
    <3> QED
      BY <3>2, <3>3
  <2>2. ASSUME NEW e, NEW reason, FaultedPool(e, reason)
        PROVE  FileStep(d) /\ PoolStep(d)
    BY <2>2 DEF FaultedPool, FileStep, PoolStep, RunsOn
  <2>3. CASE RegisterUnavailable(c) \/ RegisterInvalid(c, n)
    BY <2>2, <2>3 DEF RegisterUnavailable, RegisterInvalid
  <2>4. CASE ReconfigureInvalid \/ ReconfigureRefused(c)
    BY <1>2, <2>4 DEF ReconfigureInvalid, ReconfigureRefused
  <2>5. CASE Reconfigure(c, oc)
    <3>1. /\ up /\ up' = up /\ store /\ store' = store /\ cfg' = c
          /\ c.StateDir = cfg.StateDir
          /\ disk' = Written(cfg'.StateDir, State', oc)
      BY <2>5 DEF Reconfigure
    <3> QED
      BY <1>1, <3>1, SaveSteps
  <2> QED
    BY <1>4, <2>1, <2>3, <2>4, <2>5
<1>5. CASE Configure
  BY <1>4, <1>5 DEF Configure
<1>6. ASSUME NEW r \in Requests, Pick(r) PROVE FileStep(d) /\ PoolStep(d)
  <2>1. ASSUME NEW listed, NEW oc, PickFirst(r, listed, oc)
        PROVE  FileStep(d) /\ PoolStep(d)
    BY <1>3, <2>1 DEF PickFirst, Serving
  <2>2. ASSUME NEW listed, PickCurrent(r) \/ PickFailover(r, listed)
        PROVE  FileStep(d) /\ PoolStep(d)
    BY <1>2, <2>2 DEF PickCurrent, PickFailover, poolVars
  <2> QED
    BY <1>6, <2>1, <2>2 DEF Pick
<1>7. ASSUME NEW r \in Requests, Observe(r) PROVE FileStep(d) /\ PoolStep(d)
  <2>1. ASSUME ObserveDropped(r) PROVE FileStep(d) /\ PoolStep(d)
    BY <1>2, <2>1 DEF ObserveDropped, Reported
  <2>2. ASSUME Reported(r), NEW oc, SaveLocked(fault, oc)
        PROVE  FileStep(d) /\ PoolStep(d)
    BY <1>3, <2>2 DEF Reported
  <2>3. ASSUME NEW oc, Counted(r, oc) PROVE FileStep(d) /\ PoolStep(d)
    BY <2>2, <2>3 DEF Counted
  <2>4. ASSUME NEW ras, NEW lat, NEW oc, NEW k, NEW moves,
               CountedFailure(r, ras, lat, k, moves, oc)
        PROVE  FileStep(d) /\ PoolStep(d)
    BY <2>2, <2>4 DEF CountedFailure, Failure
  <2> QED
    BY <1>7, <2>1, <2>3, <2>4, ObserveCases
<1>8. ASSUME NEW fp, NEW oc, Resume(fp, oc) PROVE FileStep(d) /\ PoolStep(d)
  BY <1>3, <1>8 DEF Resume
<1>9. CASE Guard \/ FailClosed \/ Tick \/ StepBack \/ UNCHANGED vars
           \/ \E r \in Requests : LoseResult(r)
  BY <1>2, <1>9 DEF Guard, FailClosed, Tick, StepBack, LoseResult, vars,
                    poolVars
<1>10. CASE Crash
  BY <1>10 DEF Crash, NoPool, FileStep, PoolStep, RunsOn
<1>11. ASSUME NEW oc, Shutdown(oc) PROVE FileStep(d) /\ PoolStep(d)
  <2>1. up /\ ~up' /\ disk' \in {disk, Written(cfg.StateDir, State, oc)}
        /\ (disk' = disk \/ store)
    BY <1>11 DEF Shutdown, NoPool
  <2>2. State.Keys = keys /\ FilesTypeOK
    BY ConsistentParts DEF State
  <2>3. \/ disk'[d] = disk[d]
        \/ store /\ d = cfg.StateDir /\ disk'[d] = State
    BY <2>1, <2>2 DEF Written, FilesTypeOK
  <2> QED
    BY <2>1, <2>2, <2>3 DEF FileStep, PoolStep, RunsOn
<1> QED
  BY <1>5, <1>6, <1>7, <1>8, <1>9, <1>10, <1>11 DEF Next

\* A running pool keeps a record of every account in its file.
LEMMA NextFilesKnown ==
    ASSUME Consistent, Barriers, FilesKnown, [Next]_vars
    PROVE  FilesKnown'
<1> SUFFICES ASSUME NEW d \in StateDirs, RunsOn(d)'
             PROVE  DOMAIN disk'[d].Keys \subseteq DOMAIN keys'
  BY DEF FilesKnown
<1>1. FileStep(d) /\ PoolStep(d) /\ up'
  BY FileSteps DEF RunsOn
<1>2. CASE up /\ RunsOn(d)
  <2>1. DOMAIN keys \subseteq DOMAIN keys'
    BY <1>1, <1>2, RecordSteps
  <2> QED
    BY <1>1, <1>2, <2>1 DEF FileStep, FilesKnown
<1>3. CASE ~(up /\ RunsOn(d))
  BY <1>1, <1>3 DEF PoolStep
<1> QED
  BY <1>2, <1>3

\* No step but Resume shortens what the file and the pool on it know.
LEMMA RecordsKept ==
    ASSUME Consistent, Barriers, FilesKnown, [Next]_vars,
           NEW d \in StateDirs, NEW fp \in DOMAIN disk[d].Keys
    PROVE  /\ fp \in DOMAIN disk'[d].Keys
           /\ RunsOn(d)' => fp \in DOMAIN keys'
           /\ \/ /\ cfg.StateDir = d
                 /\ \E oc \in SaveOutcomes : Resume(fp, oc)
              \/ \A new \in Records(d, fp)' : \E old \in Records(d, fp) :
                    new.ExhaustedUntil >= old.ExhaustedUntil
<1> DEFINE f == disk[d].Keys[fp]
<1>1. FileStep(d) /\ PoolStep(d) /\ FilesKnown'
  BY FileSteps, NextFilesKnown
<1>2. f \in KeyState /\ f.ExhaustedUntil \in Nat
      /\ \A e \in DOMAIN keys : keys[e].ExhaustedUntil \in Nat
  BY ConsistentParts DEF FilesTypeOK, IsPersistedState, KeyState
<1>3. Consistent'
  BY NextConsistent
<1>4. f \in Records(d, fp) /\ (RunsOn(d) => keys[fp] \in Records(d, fp))
  BY DEF Records
<1>5. \A new \in Records(d, fp)' : \/ new = disk'[d].Keys[fp]
                                   \/ RunsOn(d)' /\ new = keys'[fp]
  BY DEF Records
<1>6. CASE ~RunsOn(d)
  <2>1. disk'[d] = disk[d]
    BY <1>1, <1>6 DEF FileStep
  <2>2. RunsOn(d)' => fp \in DOMAIN keys' /\ keys'[fp] = f
    BY <1>1, <1>6 DEF PoolStep
  <2>3. \A new \in Records(d, fp)' : new = f
    BY <1>5, <2>1, <2>2
  <2> QED
    BY <1>2, <1>4, <2>1, <2>2, <2>3
<1>7. CASE RunsOn(d) /\ ~up'
  <2>1. ~RunsOn(d)' /\ fp \in DOMAIN keys
    BY <1>7 DEF RunsOn, FilesKnown
  <2>2. disk'[d].Keys = disk[d].Keys \/ disk'[d].Keys = keys
    BY <1>1, <2>1 DEF FileStep
  <2>3. \A new \in Records(d, fp)' : new = f \/ new = keys[fp]
    BY <1>5, <2>1, <2>2
  <2> QED
    BY <1>2, <1>4, <1>7, <2>1, <2>2, <2>3
<1>8. CASE RunsOn(d) /\ up'
  <2>1. fp \in DOMAIN keys /\ up /\ cfg.StateDir = d
    BY <1>8 DEF RunsOn, FilesKnown
  <2>2. /\ fp \in DOMAIN keys'
        /\ \/ keys'[fp] = keys[fp]
           \/ \E oc \in SaveOutcomes : Resume(fp, oc)
           \/ keys[fp].ExhaustedUntil <= keys'[fp].ExhaustedUntil
    BY <1>8, <2>1, RecordSteps
  <2>3. disk'[d].Keys = disk[d].Keys \/ disk'[d].Keys = keys'
    BY <1>1, <1>8 DEF FileStep
  <2>4. fp \in DOMAIN disk'[d].Keys
    BY <2>2, <2>3
  <2>5. keys'[fp].ExhaustedUntil \in Nat
    BY <1>3, <2>2 DEF Consistent, TypeOK, PoolTypeOK, IsPersistedState, State,
                      KeyState
  <2>6. \A new \in Records(d, fp)' : new = f \/ new = keys'[fp]
    BY <1>5, <2>3
  <2>7. CASE keys[fp].ExhaustedUntil <= keys'[fp].ExhaustedUntil
    <3>1. \A new \in Records(d, fp)' : \E old \in Records(d, fp) :
             new.ExhaustedUntil >= old.ExhaustedUntil
      BY <1>2, <1>4, <1>8, <2>1, <2>5, <2>6, <2>7
    <3> QED
      BY <2>2, <2>4, <3>1
  <2>8. keys'[fp] = keys[fp]
          => keys[fp].ExhaustedUntil <= keys'[fp].ExhaustedUntil
    BY <1>2, <2>1
  <2> QED
    BY <2>1, <2>2, <2>4, <2>7, <2>8
<1> QED
  BY <1>6, <1>7, <1>8

\* For any number of accounts, requests and directories, with storage errors,
\* crashes, reloads and repeated outcomes, while the clock runs forward: a
\* cooldown that has reached the file is never lost or shortened but by Resume.
THEOREM CooldownsLast ==
    ASSUME "clock" \notin Hazards
    PROVE  Spec => DurableCooldown
<1> DEFINE I == Consistent /\ Barriers /\ FilesKnown
<1>1. Init => I
  BY InitConsistent, InitBarred DEF Init, FilesKnown, RunsOn
<1>2. I /\ [Next]_vars => I'
  BY NextConsistent, NextBarred, NextFilesKnown
<1>3. I /\ [Next]_vars
        => [\A d \in StateDirs : \A fp \in DOMAIN disk[d].Keys :
              /\ fp \in DOMAIN disk'[d].Keys
              /\ RunsOn(d)' => fp \in DOMAIN keys'
              /\ \/ /\ cfg.StateDir = d
                    /\ \E oc \in SaveOutcomes : Resume(fp, oc)
                 \/ \A new \in Records(d, fp)' : \E old \in Records(d, fp) :
                       new.ExhaustedUntil >= old.ExhaustedUntil]_vars
  BY RecordsKept
<1> HIDE DEF I
<1> QED
  BY <1>1, <1>2, <1>3, PTL DEF Spec, DurableCooldown

-----------------------------------------------------------------------------
(***************************************************************************)
(* Attribution.  byAuthID leads every auth ID of the configuration to its  *)
(* own account, and none to a key that it was not derived from; neither    *)
(* depends on the clock.                                                   *)
(***************************************************************************)
Derives(c) == \A i \in 1..Len(c.Accounts) :
                 DerivedFrom(c.Accounts[i].AuthID, c.Accounts[i].Fingerprint)

Follows(c, routes) ==
    \A i \in 1..Len(c.Accounts) :
        c.Accounts[i].AuthID # ""
          => routes[c.Accounts[i].AuthID] = c.Accounts[i].Fingerprint

Derived(routes) == \A a \in AuthIDs : routes[a] # "" => DerivedFrom(a, routes[a])

Attributed == Derived(byAuthID) /\ (up => Follows(cfg, byAuthID))

\* A configuration that is handed over derives its auth IDs, also as far as
\* an unreadable one was read.
LEMMA ConfigsDerive ==
    ASSUME NEW c \in Configs
    PROVE  /\ Derives(c)
           /\ \A n \in 0..Len(c.Accounts) :
                 Derives([c EXCEPT !.Accounts = [i \in 1..n |-> c.Accounts[i]]])
<1>1. c \in Configuration /\ Len(c.Accounts) \in Nat
  BY ConfigsAssumption, AccountsType
<1>2. Derives(c)
  BY DEF Derives, DerivedFrom
<1>3. ASSUME NEW n \in 0..Len(c.Accounts)
      PROVE  Derives([c EXCEPT !.Accounts = [i \in 1..n |-> c.Accounts[i]]])
  <2> DEFINE acc == [i \in 1..n |-> c.Accounts[i]]
             t == [c EXCEPT !.Accounts = acc]
  <2>1. n \in Nat /\ n <= Len(c.Accounts)
    BY <1>1
  <2>2. \A i \in 1..n : i \in 1..Len(c.Accounts) /\ acc[i] = c.Accounts[i]
    BY <1>1, <2>1
  <2>3. \A i \in 1..Len(c.Accounts) : c.Accounts[i] \in Account
    BY <1>1, AccountsType
  <2>4. Len(acc) = n
    BY <2>1, <2>2, <2>3
  <2>5. t.Accounts = acc
    BY <1>1 DEF Configuration
  <2> HIDE DEF acc, t
  <2>6. Derives(t)
    BY <1>2, <2>2, <2>4, <2>5 DEF Derives
  <2> QED
    BY <2>6 DEF t, acc
<1> QED
  BY <1>2, <1>3

\* installAccountsLocked leads every auth ID of the configuration to its key,
\* and the others where they led before.
LEMMA RoutesAttributed ==
    ASSUME NEW c \in Configuration, Derives(c), NEW old, Derived(old)
    PROVE  Follows(c, Routes(c, old)) /\ Derived(Routes(c, old))
<1> DEFINE acc == c.Accounts
           new == Routes(c, old)
<1>1. \A i \in 1..Len(acc) : acc[i] \in Account
  BY AccountsType
<1>2. \A i, j \in 1..Len(acc) :
         acc[i].AuthID # "" /\ acc[i].AuthID = acc[j].AuthID => i = j
  BY Zenon DEF Configuration
<1>3. ASSUME NEW i \in 1..Len(acc), acc[i].AuthID # ""
      PROVE  new[acc[i].AuthID] = acc[i].Fingerprint
  <2> DEFINE a == acc[i].AuthID
             k == CHOOSE j \in 1..Len(acc) : acc[j].AuthID = a
  <2>1. a \in AuthIDs
    BY <1>1, <1>3 DEF Account
  <2>2. k \in 1..Len(acc) /\ acc[k].AuthID = a
    OBVIOUS
  <2>3. new[a] = acc[k].Fingerprint
    BY <2>1 DEF Routes
  <2> HIDE DEF k
  <2>4. i = k
    BY <1>2, <1>3, <2>2
  <2> QED
    BY <2>3, <2>4
<1>4. ASSUME NEW a \in AuthIDs, new[a] # "" PROVE DerivedFrom(a, new[a])
  <2>1. CASE \E i \in 1..Len(acc) : acc[i].AuthID = a
    <3>1. PICK i \in 1..Len(acc) : acc[i].AuthID = a
      BY <2>1
    <3>2. a # ""
      BY ConstantsAssumption
    <3>3. new[a] = acc[i].Fingerprint
      BY <1>3, <3>1, <3>2
    <3> QED
      BY <3>1, <3>3 DEF Derives
  <2>2. CASE ~ \E i \in 1..Len(acc) : acc[i].AuthID = a
    <3>1. new[a] = old[a]
      BY <1>4, <2>2, Zenon DEF Routes
    <3> QED
      BY <1>4, <3>1 DEF Derived
  <2> QED
    BY <2>1, <2>2
<1> QED
  BY <1>3, <1>4 DEF Follows, Derived

\* Every outcome comes from a request in flight.
LEMMA ObserveReports ==
    ASSUME Consistent, NEW r \in Requests, Observe(r)
    PROVE  Reported(r)
  BY ObserveCases DEF ObserveDropped, Counted, CountedFailure, Failure

\* No step misleads an auth ID.
LEMMA NextAttributed ==
    ASSUME Consistent, Attributed, [Next]_vars
    PROVE  Attributed'
<1>1. Derived(NoRoutes)
  BY DEF Derived, NoRoutes
<1>2. ASSUME NEW c \in Configuration, Derives(c), NEW old, Derived(old),
             cfg' = c, byAuthID' = Routes(c, old)
      PROVE  Attributed'
  BY <1>2, RoutesAttributed DEF Attributed
<1>3. ASSUME UNCHANGED <<up, cfg, byAuthID>> PROVE Attributed'
  BY <1>3 DEF Attributed
<1>4. ASSUME NEW c \in Configs, NEW n \in 0..Len(c.Accounts), NEW oc,
             \/ NewPool(c) \/ RegisterUnavailable(c) \/ RegisterInvalid(c, n)
             \/ ReconfigureInvalid \/ ReconfigureRefused(c)
             \/ Reconfigure(c, oc)
      PROVE  Attributed'
  <2> DEFINE t == [c EXCEPT !.Accounts = [i \in 1..n |-> c.Accounts[i]]]
  <2>1. c \in Configuration /\ t \in Configuration /\ Derives(c) /\ Derives(t)
    BY ConfigsAssumption, TruncatedType, ConfigsDerive
  <2> HIDE DEF t
  <2>2. CASE NewPool(c) \/ RegisterUnavailable(c)
    BY <1>1, <1>2, <2>1, <2>2 DEF NewPool, RegisterUnavailable, FaultedPool
  <2>3. CASE RegisterInvalid(c, n)
    <3>1. cfg' = t /\ byAuthID' = Routes(t, NoRoutes)
      BY <2>3 DEF RegisterInvalid, FaultedPool, t
    <3> QED
      BY <1>1, <1>2, <2>1, <3>1
  <2>4. CASE ReconfigureInvalid \/ ReconfigureRefused(c)
    BY <1>3, <2>4 DEF ReconfigureInvalid, ReconfigureRefused
  <2>5. CASE Reconfigure(c, oc)
    BY <1>2, <2>1, <2>5 DEF Reconfigure, Attributed
  <2> QED
    BY <1>4, <2>2, <2>3, <2>4, <2>5
<1>5. CASE Configure
  <2>1. \A c \in Configs : 0 \in 0..Len(c.Accounts)
    BY ConfigsAssumption, AccountsType
  <2> QED
    BY <1>4, <1>5, <2>1 DEF Configure
<1>6. ASSUME NEW r \in Requests, Pick(r) \/ LoseResult(r) PROVE Attributed'
  BY <1>3, <1>6 DEF Pick, PickFirst, PickCurrent, PickFailover, LoseResult,
                    poolVars
<1>7. ASSUME NEW r \in Requests, Observe(r) PROVE Attributed'
  BY <1>3, <1>7, ObserveReports DEF Reported
<1>8. ASSUME NEW fp, NEW oc, Resume(fp, oc) PROVE Attributed'
  BY <1>3, <1>8 DEF Resume
<1>9. CASE Guard \/ FailClosed \/ Tick \/ StepBack \/ UNCHANGED vars
  BY <1>3, <1>9 DEF Guard, FailClosed, Tick, StepBack, vars, poolVars
<1>10. CASE Crash \/ \E oc \in SaveOutcomes : Shutdown(oc)
  BY <1>1, <1>10 DEF Crash, Shutdown, NoPool, Attributed
<1> QED
  BY <1>5, <1>6, <1>7, <1>8, <1>9, <1>10 DEF Next

\* There are no routes before plugin.register.
LEMMA InitAttributed == Init => Attributed
  BY DEF Init, Attributed, Derived, NoRoutes

\* The auth ID Pick returns for an account leads back to it.
LEMMA HandOutLeadsBack ==
    ASSUME Consistent, Attributed, up, NEW r \in Requests,
           NEW fp \in Enabled(cfg), HandOut(r, fp)
    PROVE  /\ byAuthID[reqs'[r].auth] = fp
           /\ \A q \in Requests : q # r => reqs'[q] = reqs[q]
<1> DEFINE acc == cfg.Accounts
           i == CHOOSE j \in 1..Len(acc) : acc[j].Fingerprint = fp
           x == [auth |-> acc[i].AuthID, at |-> now, resumed |-> ""]
<1>1. cfg \in Configuration /\ reqs \in [Requests -> Flights]
  BY ConsistentParts
<1>2. PICK j \in 1..Len(acc) : ~acc[j].Disabled /\ acc[j].Fingerprint = fp
  BY DEF Enabled
<1>3. i \in 1..Len(acc) /\ acc[i].Fingerprint = fp
  BY <1>2
<1>4. reqs' = [reqs EXCEPT ![r] = x] /\ x.auth = acc[i].AuthID
  BY DEF HandOut, AccountLocked
<1> HIDE DEF i, x
<1>5. \A k \in 1..Len(acc) :
          /\ acc[k].AuthID = "" => acc[k].Disabled
          /\ \/ k = j
             \/ acc[k].Fingerprint # acc[j].Fingerprint
  BY <1>1, Zenon DEF Configuration
<1>6. acc[i].AuthID # ""
  BY <1>2, <1>3, <1>5, Zenon
<1>7. byAuthID[acc[i].AuthID] = fp
  BY <1>3, <1>6 DEF Attributed, Follows
<1> QED
  BY <1>1, <1>4, <1>7

\* Only Pick puts a request in flight.
LEMMA OnlyPickHandsOut ==
    ASSUME Consistent, [Next]_vars, NEW r \in Requests,
           reqs[r] = Idle, reqs'[r] # Idle
    PROVE  \E q \in Requests : Pick(q)
<1>1. reqs \in [Requests -> Flights]
  BY ConsistentParts
<1>2. ~Configure
  BY DEF Configure, NewPool, RegisterUnavailable, RegisterInvalid, FaultedPool,
         ReconfigureInvalid, ReconfigureRefused, Reconfigure
<1>3. ASSUME NEW q \in Requests PROVE ~Reported(q) /\ ~LoseResult(q)
  BY <1>1 DEF Reported, LoseResult
<1>4. ASSUME NEW fp, NEW oc PROVE ~Resume(fp, oc)
  <2>1. Resume(fp, oc) => reqs'[r] = reqs[r]
    BY Zenon DEF Resume
  <2> QED
    BY <2>1
<1>5. ~Guard /\ ~FailClosed /\ ~Tick /\ ~StepBack /\ ~UNCHANGED vars
  BY DEF Guard, FailClosed, Tick, StepBack, vars
<1>6. ~Crash /\ \A oc : ~Shutdown(oc)
  BY DEF Crash, Shutdown
<1> QED
  BY <1>2, <1>3, <1>4, <1>5, <1>6, ObserveReports DEF Next

\* Whatever Pick hands out may serve, is current and leads back.
LEMMA PickAccountable ==
    ASSUME Consistent, Attributed, NEW q \in Requests, Pick(q),
           NEW r \in Requests, reqs[r] = Idle, reqs'[r] # Idle
    PROVE  /\ current' # ""
           /\ BlockedLocked(cfg, keys, current', now) = ""
           /\ byAuthID[reqs'[r].auth] = current'
<1>1. cfg \in Configuration /\ Enabled(cfg) \subseteq Fingerprints
      /\ "" \notin Fingerprints
  BY ConsistentParts, ConstantsAssumption
<1>2. ASSUME HandOut(q, current'), up,
             BlockedLocked(cfg, keys, current', now) = ""
      PROVE  /\ current' # "" /\ byAuthID[reqs'[r].auth] = current'
             /\ BlockedLocked(cfg, keys, current', now) = ""
  <2>1. current' \in Enabled(cfg)
    BY <1>2 DEF BlockedLocked
  <2>2. /\ byAuthID[reqs'[q].auth] = current'
        /\ \A p \in Requests : p # q => reqs'[p] = reqs[p]
    BY <1>2, <2>1, HandOutLeadsBack
  <2>3. r = q
    BY <2>2
  <2> QED
    BY <1>1, <1>2, <2>1, <2>2, <2>3
<1>3. ASSUME NEW listed, NEW oc, PickFirst(q, listed, oc)
      PROVE  HandOut(q, current') /\ up
             /\ BlockedLocked(cfg, keys, current', now) = ""
  <2>1. /\ current' = ChooseLocked(cfg, keys, cursor, now) /\ current' # ""
        /\ HandOut(q, current') \/ UNCHANGED reqs
        /\ up
    BY <1>3, Zenon DEF PickFirst, Serving
  <2> QED
    BY <1>1, <2>1, ChooseIsEligible
<1>4. ASSUME PickCurrent(q)
      PROVE  HandOut(q, current') /\ up
             /\ BlockedLocked(cfg, keys, current', now) = ""
  BY <1>4 DEF PickCurrent, Serving, poolVars
<1>5. ASSUME NEW listed, PickFailover(q, listed)
      PROVE  HandOut(q, current') /\ up
             /\ BlockedLocked(cfg, keys, current', now) = ""
  <2>1. /\ current' = ChooseLocked(cfg, keys, current, now)
        /\ up /\ HandOut(q, current') /\ current' # ""
    BY <1>5, Zenon DEF PickFailover, FailoverUnsaved, Serving
  <2> QED
    BY <1>1, <2>1, ChooseIsEligible
<1> QED
  BY <1>2, <1>3, <1>4, <1>5 DEF Pick

\* Whatever the clock, the storage, the operator and the host do, and for any
\* configurations: Pick hands out the current account, which may serve, and
\* under an auth ID whose outcome Observe will attribute to that account.
THEOREM HandoutsAccountable == Spec => HandoutIsAccountable
<1>1. Consistent /\ Attributed /\ [Next]_vars => Consistent' /\ Attributed'
  BY NextConsistent, NextAttributed
<1>2. Consistent /\ Attributed /\ [Next]_vars
        => [\A r \in Requests :
              reqs[r] = Idle /\ reqs'[r] # Idle
                => /\ current' # ""
                   /\ BlockedLocked(cfg, keys, current', now) = ""
                   /\ byAuthID[reqs'[r].auth] = current']_vars
  BY OnlyPickHandsOut, PickAccountable
<1> QED
  BY <1>1, <1>2, InitConsistent, InitAttributed, PTL
  DEF Spec, HandoutIsAccountable

\* An auth ID that leads to a key leads to it for as long as the key stays
\* configured.
LEMMA RoutesKept ==
    ASSUME Consistent, Attributed, [Next]_vars, up, up', NEW a \in AuthIDs,
           byAuthID[a] \in Configured(cfg')
    PROVE  byAuthID'[a] = byAuthID[a]
<1>1. ASSUME NEW c \in Configs, NEW oc, Reconfigure(c, oc)
      PROVE  byAuthID'[a] = byAuthID[a]
  <2> DEFINE fp == byAuthID[a]
             new == Routes(c, byAuthID)
  <2>1. c \in Configuration /\ Configured(c) \subseteq Fingerprints /\ a # ""
        /\ "" \notin Fingerprints
    BY ConfigsAssumption, AccountsType, ConstantsAssumption
  <2>2. fp \in Configured(c) /\ fp \in Fingerprints /\ fp # "" /\ byAuthID' = new
    BY <1>1, <2>1 DEF Reconfigure
  <2>3. DerivedFrom(a, fp)
    BY <2>2 DEF Attributed, Derived
  <2>4. Derived(new) /\ new \in [AuthIDs -> Configured(c) \cup {""}]
    BY <2>1, RoutesAttributed, RoutesType, ConfigsDerive DEF Attributed
  <2>5. new[a] # ""
    <3>1. CASE \E i \in 1..Len(c.Accounts) : c.Accounts[i].AuthID = a
      <4>1. PICK i \in 1..Len(c.Accounts) : c.Accounts[i].AuthID = a
        BY <3>1
      <4>2. Follows(c, new)
        BY <2>1, RoutesAttributed, ConfigsDerive DEF Attributed
      <4>3. new[a] = c.Accounts[i].Fingerprint
        BY <2>1, <4>1, <4>2 DEF Follows
      <4>4. c.Accounts[i].Fingerprint \in Configured(c)
        BY DEF Configured
      <4> QED
        BY <2>1, <4>3, <4>4
    <3>2. CASE ~ \E i \in 1..Len(c.Accounts) : c.Accounts[i].AuthID = a
      <4>1. new[a] = fp
        BY <2>2, <3>2, Zenon DEF Routes
      <4> QED
        BY <2>2, <4>1
    <3> QED
      BY <3>1, <3>2
  <2>6. new[a] \in Fingerprints /\ DerivedFrom(a, new[a])
    BY <2>1, <2>4, <2>5 DEF Derived
  <2> HIDE DEF new, fp
  <2>7. new[a] = fp
    BY <2>2, <2>3, <2>6, AuthIDsAssumption
  <2> QED
    BY <2>2, <2>7 DEF fp
<1>2. ASSUME Configure PROVE byAuthID'[a] = byAuthID[a]
  BY <1>1, <1>2 DEF Configure, NewPool, RegisterUnavailable, RegisterInvalid,
     FaultedPool, ReconfigureInvalid, ReconfigureRefused
<1>3. ASSUME NEW r \in Requests, Pick(r) \/ Observe(r) \/ LoseResult(r)
      PROVE  byAuthID' = byAuthID
  BY <1>3, ObserveReports DEF Pick, PickFirst, PickCurrent, PickFailover,
     LoseResult, Reported, poolVars
<1>4. ASSUME NEW fp, NEW oc, Resume(fp, oc) PROVE byAuthID' = byAuthID
  BY <1>4 DEF Resume
<1>5. ASSUME Guard \/ FailClosed \/ Tick \/ StepBack \/ UNCHANGED vars
      PROVE  byAuthID' = byAuthID
  BY <1>5 DEF Guard, FailClosed, Tick, StepBack, vars, poolVars
<1>6. ~Crash /\ \A oc : ~Shutdown(oc)
  BY DEF Crash, Shutdown, NoPool
<1> QED
  BY <1>2, <1>3, <1>4, <1>5, <1>6 DEF Next

\* For any sequence of reloads: the requests in flight of a key that stays
\* configured are attributed to it, behind whatever proxy it was.
THEOREM ReloadsKeepAttribution == Spec => AttributionSurvivesReload
<1>1. Consistent /\ Attributed /\ [Next]_vars => Consistent' /\ Attributed'
  BY NextConsistent, NextAttributed
<1>2. Consistent /\ Attributed /\ [Next]_vars
        => [\A a \in AuthIDs :
              up /\ up' /\ byAuthID[a] \in Configured(cfg')
                => byAuthID'[a] = byAuthID[a]]_vars
  BY RoutesKept
<1> QED
  BY <1>1, <1>2, InitConsistent, InitAttributed, PTL
  DEF Spec, AttributionSurvivesReload

-----------------------------------------------------------------------------
(***************************************************************************)
(* Resume sticks.  The barrier that an acknowledged Resume leaves in the   *)
(* file and in the pool on it is later than the start of every request it  *)
(* was noted on, and moves back to a later Resume at most.                 *)
(***************************************************************************)
RecordBars(ks, fp, t) == fp \in DOMAIN ks /\ ks[fp].IgnoreBefore > t

NotedIn(d, a, t) ==
    /\ t < now
    /\ \A fp \in Fingerprints :
          DerivedFrom(a, fp) => /\ RecordBars(disk[d].Keys, fp, t)
                                /\ RunsOn(d) => RecordBars(keys, fp, t)

\* What an acknowledged Resume in directory d noted still holds there.
NotesHold == \A r \in Requests : \A d \in StateDirs :
                reqs[r].resumed = d => NotedIn(d, reqs[r].auth, reqs[r].at)

\* A barrier that is past t and moves back to now at most stays past t.
LEMMA BarrierPasses ==
    \A i, j, n, t \in Nat : i > t /\ t < n /\ (j = i \/ j >= n) => j > t
  OBVIOUS

\* A note survives every step of a clock that runs forward.
LEMMA NoteKept ==
    ASSUME "clock" \notin Hazards, Consistent, Barriers, [Next]_vars,
           NEW d \in StateDirs, NEW a, NEW t \in Nat, NotedIn(d, a, t)
    PROVE  NotedIn(d, a, t)'
<1>1. Consistent'
  BY NextConsistent
<1>2. now \in Nat /\ now' \in Nat /\ now <= now'
  <2>1. now \in Nat /\ now' \in Nat
    BY <1>1 DEF Consistent, TypeOK
  <2>2. now' = now \/ Tick
    <3>1. ASSUME NEW r \in Requests, Pick(r) \/ Observe(r) \/ LoseResult(r)
          PROVE  now' = now
      BY <3>1, ObserveReports DEF Pick, PickFirst, PickCurrent, PickFailover,
         LoseResult, Reported
    <3>2. Configure => now' = now
      BY DEF Configure, NewPool, RegisterUnavailable, RegisterInvalid,
         FaultedPool, ReconfigureInvalid, ReconfigureRefused, Reconfigure
    <3>3. \A fp, oc : Resume(fp, oc) \/ Shutdown(oc) => now' = now
      BY DEF Resume, Shutdown
    <3>4. Guard \/ FailClosed \/ Crash \/ UNCHANGED vars => now' = now
      BY DEF Guard, FailClosed, Crash, vars
    <3>5. ~StepBack
      BY DEF StepBack
    <3> QED
      BY <3>1, <3>2, <3>3, <3>4, <3>5 DEF Next
  <2> QED
    BY <2>1, <2>2 DEF Tick
<1>3. t < now /\ t < now'
  BY <1>2 DEF NotedIn
<1>4. ASSUME NEW fp \in Fingerprints, DerivedFrom(a, fp)
      PROVE  /\ RecordBars(disk'[d].Keys, fp, t)
             /\ RunsOn(d)' => RecordBars(keys', fp, t)
  <2>1. /\ RecordBars(disk[d].Keys, fp, t)
        /\ RunsOn(d) => RecordBars(keys, fp, t)
    BY <1>4 DEF NotedIn
  <2>2. FileStep(d) /\ PoolStep(d)
    BY FileSteps
  <2>3. ASSUME up, up', RunsOn(d) PROVE RecordBars(keys', fp, t)
    <3>1. fp \in DOMAIN keys /\ keys[fp].IgnoreBefore > t
      BY <2>1, <2>3 DEF RecordBars
    <3>2. /\ fp \in DOMAIN keys'
          /\ \/ keys'[fp].IgnoreBefore = keys[fp].IgnoreBefore
             \/ keys'[fp].IgnoreBefore >= now
      BY <2>3, <3>1, RecordSteps
    <3>3. keys[fp].IgnoreBefore \in Nat
      BY <3>1, ConsistentParts DEF KeyState
    <3>4. keys'[fp].IgnoreBefore \in Nat
      BY <1>1, <3>2 DEF Consistent, TypeOK, PoolTypeOK, IsPersistedState, State,
                        KeyState
    <3> QED
      BY <1>2, <1>3, <3>1, <3>2, <3>3, <3>4, BarrierPasses DEF RecordBars
  <2>4. RecordBars(disk'[d].Keys, fp, t)
    BY <2>1, <2>2, <2>3 DEF FileStep, RunsOn
  <2>5. RunsOn(d)' => RecordBars(keys', fp, t)
    BY <2>1, <2>2, <2>3 DEF PoolStep, RecordBars, RunsOn
  <2> QED
    BY <2>4, <2>5
<1> QED
  BY <1>3, <1>4 DEF NotedIn

\* What a step does to a request: nothing, a new life, or a note of Resume.
LEMMA FlightSteps ==
    ASSUME Consistent, [Next]_vars, NEW r \in Requests
    PROVE  \/ reqs'[r] = reqs[r]
           \/ reqs'[r].resumed = ""
           \/ \E fp \in Fingerprints, oc \in SaveOutcomes :
                 /\ Resume(fp, oc) /\ store /\ oc = "ok" /\ reqs[r] # Idle
                 /\ reqs[r].at < now /\ Owner(r) = fp
                 /\ reqs'[r] = [reqs[r] EXCEPT !.resumed = cfg.StateDir]
<1>1. reqs \in [Requests -> Flights] /\ Idle.resumed = ""
  BY ConsistentParts DEF Idle
<1>2. ASSUME UNCHANGED reqs PROVE reqs'[r] = reqs[r]
  BY <1>2
<1>3. ASSUME NEW q \in Requests, reqs' = [reqs EXCEPT ![q] = Idle]
      PROVE  reqs'[r] = reqs[r] \/ reqs'[r].resumed = ""
  BY <1>1, <1>3
<1>4. ASSUME NEW q \in Requests, NEW fp, HandOut(q, fp)
      PROVE  reqs'[r] = reqs[r] \/ reqs'[r].resumed = ""
  <2> DEFINE x == [auth |-> AccountLocked(cfg, fp).AuthID, at |-> now,
                   resumed |-> ""]
  <2>1. reqs' = [reqs EXCEPT ![q] = x] /\ x.resumed = ""
    BY <1>4, Zenon DEF HandOut
  <2> HIDE DEF x
  <2> QED
    BY <1>1, <2>1
<1>5. ASSUME NEW q \in Requests, Pick(q)
      PROVE  reqs'[r] = reqs[r] \/ reqs'[r].resumed = ""
  <2>1. UNCHANGED reqs \/ \E fp : HandOut(q, fp)
    BY <1>5, Zenon DEF Pick, PickFirst, PickCurrent, PickFailover
  <2> QED
    BY <1>2, <1>4, <2>1
<1>6. ASSUME NEW q \in Requests, Observe(q) \/ LoseResult(q)
      PROVE  reqs'[r] = reqs[r] \/ reqs'[r].resumed = ""
  BY <1>2, <1>3, <1>6, ObserveReports DEF Reported, LoseResult
<1>7. ASSUME NEW fp \in Fingerprints, NEW oc \in SaveOutcomes, Resume(fp, oc)
      PROVE  \/ reqs'[r] = reqs[r]
             \/ /\ store /\ oc = "ok" /\ reqs[r] # Idle
                /\ reqs[r].at < now /\ Owner(r) = fp
                /\ reqs'[r] = [reqs[r] EXCEPT !.resumed = cfg.StateDir]
  BY <1>7, Zenon DEF Resume
<1>8. Crash => reqs'[r].resumed = ""
  BY <1>1 DEF Crash
<1>9. Configure \/ Guard \/ FailClosed \/ Tick \/ StepBack \/ UNCHANGED vars
      \/ (\E oc \in SaveOutcomes : Shutdown(oc)) => UNCHANGED reqs
  BY DEF Configure, NewPool, RegisterUnavailable, RegisterInvalid, FaultedPool,
     ReconfigureInvalid, ReconfigureRefused, Reconfigure, Guard, FailClosed,
     Tick, StepBack, Shutdown, vars
<1> QED
  BY <1>2, <1>5, <1>6, <1>7, <1>8, <1>9 DEF Next

\* An acknowledged Resume bars what it notes, in the file too.
LEMMA NoteMade ==
    ASSUME Consistent, Consistent', Attributed, NEW r \in Requests,
           NEW fp \in Fingerprints, Resume(fp, "ok"), store, reqs[r] # Idle,
           NEW a, a = reqs[r].auth, NEW t, t = reqs[r].at, t < now,
           Owner(r) = fp, NEW d, d = cfg.StateDir
    PROVE  NotedIn(d, a, t)'
<1>1. a \in AuthIDs /\ DerivedFrom(a, fp)
  <2>1. a \in AuthIDs
    BY ConsistentParts DEF Flights
  <2>2. byAuthID[a] = fp /\ fp # ""
    BY ConstantsAssumption DEF Owner
  <2> QED
    BY <2>1, <2>2 DEF Attributed, Derived
<1>2. /\ fp \in DOMAIN keys' /\ keys'[fp].IgnoreBefore = now
  BY ResumeEffect
<1>3. /\ cfg' = cfg /\ store' = store /\ now' = now
      /\ disk' = Written(d, State', "ok")
  BY DEF Resume, SaveLocked
<1>4. d \in StateDirs /\ FilesTypeOK /\ State'.Keys = keys'
  BY ConsistentParts, AccountsType DEF State
<1>5. disk'[d].Keys = keys'
  BY <1>3, <1>4 DEF Written, FilesTypeOK
<1>6. t \in Nat /\ now \in Nat
  BY ConsistentParts DEF Flights
<1>7. RecordBars(keys', fp, t)
  BY <1>2, <1>6 DEF RecordBars
<1>8. \A e \in Fingerprints : DerivedFrom(a, e) => e = fp
  BY <1>1, AuthIDsAssumption
<1> QED
  BY <1>3, <1>5, <1>7, <1>8 DEF NotedIn

\* No step invalidates a note.
LEMMA NextNotesHold ==
    ASSUME "clock" \notin Hazards, Consistent, Barriers, Attributed, NotesHold,
           [Next]_vars
    PROVE  NotesHold'
<1> SUFFICES ASSUME NEW r \in Requests, NEW d \in StateDirs,
                    reqs'[r].resumed = d
             PROVE  NotedIn(d, reqs[r].auth, reqs[r].at)'
  BY DEF NotesHold
<1>1. Consistent' /\ d # ""
  BY NextConsistent, ConstantsAssumption
<1>2. PICK a : a = reqs'[r].auth
  OBVIOUS
<1>3. PICK t : t = reqs'[r].at
  OBVIOUS
<1>4. CASE reqs'[r] = reqs[r]
  <2>1. NotedIn(d, a, t)
    BY <1>2, <1>3, <1>4 DEF NotesHold
  <2>2. t \in Nat
    <3>1. reqs[r].at \in RequestTimes(r)
      BY DEF RequestTimes
    <3> QED
      BY <1>3, <1>4, <3>1, RequestTimesType
  <2>3. NotedIn(d, a, t)'
    BY <2>1, <2>2, NoteKept
  <2> QED
    BY <1>2, <1>3, <2>3 DEF NotedIn
<1>5. ASSUME NEW fp \in Fingerprints, Resume(fp, "ok"), store, reqs[r] # Idle,
             reqs[r].at < now, Owner(r) = fp,
             reqs'[r] = [reqs[r] EXCEPT !.resumed = cfg.StateDir]
      PROVE  NotedIn(d, reqs[r].auth, reqs[r].at)'
  <2>1. reqs[r] \in [auth : AuthIDs, at : Nat \ {0},
                     resumed : StateDirs \cup {""}]
    BY <1>5, ConsistentParts DEF Flights
  <2>2. a = reqs[r].auth /\ t = reqs[r].at /\ d = cfg.StateDir
    BY <1>2, <1>3, <1>5, <2>1
  <2>3. NotedIn(d, a, t)'
    BY <1>1, <1>5, <2>2, NoteMade
  <2> QED
    BY <1>2, <1>3, <2>3 DEF NotedIn
<1>6. \/ reqs'[r] = reqs[r]
      \/ reqs'[r].resumed = ""
      \/ \E fp \in Fingerprints, oc \in SaveOutcomes :
            /\ Resume(fp, oc) /\ store /\ oc = "ok" /\ reqs[r] # Idle
            /\ reqs[r].at < now /\ Owner(r) = fp
            /\ reqs'[r] = [reqs[r] EXCEPT !.resumed = cfg.StateDir]
  BY FlightSteps
<1> QED
  BY <1>1, <1>4, <1>5, <1>6, Zenon

\* An outcome of a request that Resume noted in this directory is dropped or
\* stale.
LEMMA NotedIsIgnored ==
    ASSUME Consistent, Barriers, Attributed, NotesHold, NEW r \in Requests,
           Observe(r), reqs[r].resumed = cfg.StateDir
    PROVE  UNCHANGED <<current, cursor, keys>>
<1>1. ASSUME NEW ras \in RequestTimes(r) \cap Nat, NEW lat \in Nat, NEW oc,
             NEW k, NEW moves, CountedFailure(r, ras, lat, k, moves, oc)
      PROVE  FALSE
  <2> DEFINE fp == Owner(r)
             d == cfg.StateDir
  <2>1. /\ fp \in Configured(cfg) /\ up /\ store
    BY <1>1, FailureEffect
  <2>2. d \in StateDirs /\ fp \in Fingerprints /\ fp # ""
    BY <2>1, ConsistentParts, AccountsType, ConstantsAssumption
  <2>3. reqs[r].auth \in AuthIDs /\ reqs[r].at \in Nat
    <3>1. reqs[r] # Idle /\ reqs[r] \in Flights
      BY ObserveReports, ConsistentParts DEF Reported
    <3> QED
      BY <3>1 DEF Flights
  <2>4. DerivedFrom(reqs[r].auth, fp)
    BY <2>2, <2>3 DEF Attributed, Derived, Owner
  <2>5. fp \in DOMAIN keys /\ keys[fp].IgnoreBefore > reqs[r].at
    BY <2>1, <2>2, <2>4 DEF NotesHold, NotedIn, RunsOn, RecordBars
  <2>6. ~Stale(keys[fp], ras, Observed(ras, lat))
    BY <1>1 DEF CountedFailure, Failure
  <2>7. ras = 0 \/ ras = reqs[r].at
    BY DEF RequestTimes
  <2>8. keys[fp].IgnoreBefore \in Nat
    BY <2>5, ConsistentParts DEF KeyState
  <2> HIDE DEF fp
  <2> QED
    BY <2>3, <2>5, <2>6, <2>7, <2>8 DEF Stale
<1> QED
  BY <1>1, ObserveCases DEF ObserveDropped, Counted

\* For any number of requests and accounts, with restarts, reloads, storage
\* errors and repeated outcomes, while the clock runs forward: what was started
\* before an acknowledged Resume cannot undo it.
THEOREM ResumesStick ==
    ASSUME "clock" \notin Hazards
    PROVE  Spec => ResumeSticks
<1> DEFINE I == Consistent /\ Barriers /\ Attributed /\ NotesHold
<1>1. Init => I
  <2>1. Init => NotesHold
    <3>1. Init => \A r \in Requests : reqs[r].resumed = ""
      <4>1. Idle.resumed = ""
        BY DEF Idle
      <4>2. Init => reqs = [r \in Requests |-> Idle]
        BY Zenon DEF Init
      <4> QED
        BY <4>1, <4>2, Zenon
    <3>2. \A d \in StateDirs : d # ""
      BY ConstantsAssumption
    <3> QED
      BY <3>1, <3>2, Zenon DEF NotesHold
  <2> QED
    BY <2>1, InitConsistent, InitBarred, InitAttributed
<1>2. I /\ [Next]_vars => I'
  BY NextConsistent, NextBarred, NextAttributed, NextNotesHold
<1>3. I /\ [Next]_vars
        => [\A r \in Requests :
              Observe(r) /\ reqs[r].resumed = cfg.StateDir
                => UNCHANGED <<current, cursor, keys>>]_vars
  BY NotedIsIgnored
<1> HIDE DEF I
<1> QED
  BY <1>1, <1>2, <1>3, PTL DEF Spec, ResumeSticks

-----------------------------------------------------------------------------
(***************************************************************************)
(* The retry time of a refusal.                                            *)
(***************************************************************************)

\* unavailableLocked's time is no later than any end that lies ahead.
LEMMA RetryIsFirst ==
    ASSUME Consistent, up, NEW fp \in Configured(cfg),
           NEW u \in {keys[fp].ExhaustedUntil, keys[fp].SuspendedUntil,
                      keys[fp].RateLimitedUntil},
           now < u
    PROVE  RetryAt(cfg, keys, now) \in Nat /\ now < RetryAt(cfg, keys, now)
           /\ RetryAt(cfg, keys, now) <= u
<1> DEFINE ends(e) == {keys[e].ExhaustedUntil, keys[e].SuspendedUntil,
                       keys[e].RateLimitedUntil}
           future == {v \in UNION {ends(e) : e \in Configured(cfg)} : v > now}
<1>1. now \in Nat /\ \A e \in Configured(cfg) : ends(e) \subseteq Nat
  BY ConsistentParts DEF KeyState
<1>2. u \in Nat /\ u > now /\ u \in ends(fp)
  BY <1>1
<1>3. u \in future
  BY <1>2
<1>4. future \in SUBSET Nat
  BY <1>1
<1>5. RetryAt(cfg, keys, now) = Min(future)
  BY <1>3 DEF RetryAt
<1>6. \A v \in future : v > now
  OBVIOUS
<1> HIDE DEF future
<1>7. Min(future) \in future /\ Min(future) <= u
  BY <1>3, <1>4, MinIsLeast
<1> QED
  BY <1>1, <1>4, <1>5, <1>6, <1>7

\* The arithmetic of the theorem below.
LEMMA Ends ==
    \A n, m, h, u, v \in Nat : \A t \in n..(m + h) :
        ~(t < u) /\ n < v /\ v <= u => v \in (n + 1)..t
  OBVIOUS

\* For any number of accounts and whatever happens to them: a client that waits
\* for the retry time of a refusal does not sleep past the recovery of an
\* account whose cooldown it is.
THEOREM RetryInTime == Spec => []RetryNeverLate
<1>1. Consistent => RetryNeverLate
  <2> SUFFICES ASSUME Consistent, up, NEW fp \in Enabled(cfg),
                      NEW t \in now..(MaxTime + MaxReset),
                      \/ now < keys[fp].ExhaustedUntil
                      \/ now < keys[fp].SuspendedUntil
                      \/ now < keys[fp].RateLimitedUntil,
                      BlockedLocked(cfg, keys, fp, t) = ""
               PROVE  RetryAt(cfg, keys, now) \in (now + 1)..t
    BY DEF RetryNeverLate
  <2>1. fp \in Configured(cfg) /\ now \in Nat /\ keys[fp] \in KeyState
    BY ConsistentParts
  <2>2. /\ ~(t < keys[fp].ExhaustedUntil) /\ ~(t < keys[fp].SuspendedUntil)
        /\ ~(t < keys[fp].RateLimitedUntil)
    BY DEF BlockedLocked
  <2>3. PICK u \in {keys[fp].ExhaustedUntil, keys[fp].SuspendedUntil,
                    keys[fp].RateLimitedUntil} : now < u
    OBVIOUS
  <2>4. ~(t < u)
    BY <2>2, <2>3, Zenon
  <2>5. u \in Nat /\ MaxTime \in Nat /\ MaxReset \in Nat
    BY <2>1, <2>3, ConstantsAssumption DEF KeyState
  <2>6. RetryAt(cfg, keys, now) \in Nat /\ now < RetryAt(cfg, keys, now)
        /\ RetryAt(cfg, keys, now) <= u
    BY <2>1, <2>3, RetryIsFirst
  <2> QED
    BY <2>1, <2>4, <2>5, <2>6, Ends, Zenon
<1> QED
  BY <1>1, InitConsistent, NextConsistent, PTL DEF Spec
=============================================================================
