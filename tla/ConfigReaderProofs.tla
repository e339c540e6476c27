------------------------- MODULE ConfigReaderProofs -------------------------
(***************************************************************************)
(* Theorems about ConfigReader, for all files with any number of providers *)
(* and entries, and any digest.                                            *)
(***************************************************************************)
EXTENDS ConfigReader, FiniteSetTheorems, SequenceTheorems, TLAPS

-----------------------------------------------------------------------------
(***************************************************************************)
(* The IDs that the host issues, in the order of the reader's loops.       *)
(***************************************************************************)

\* What is in these sets.
LEMMA EarlierMembers ==
    ASSUME NEW i
    PROVE  /\ \A x : x \in Before(i) <=>
                      \E k \in 1..(i - 1) : \E m \in Issues(k) : x = <<k, m>>
           /\ \A j, x : x \in Earlier(i, j) <=>
                 x \in Before(i) \/ \E m \in Issues(i) : m < j /\ x = <<i, m>>
<1>1. \A k, S, x : x \in {k} \X S <=> \E m \in S : x = <<k, m>>
  OBVIOUS
<1>2. \A x : x \in Before(i) <=> \E k \in 1..(i - 1) : x \in {k} \X Issues(k)
  BY DEF Before
<1>3. \A j, x : x \in Earlier(i, j) <=>
                  x \in Before(i) \/ x \in {i} \X {m \in Issues(i) : m < j}
  BY DEF Earlier
<1> QED
  BY <1>1, <1>2, <1>3

\* Entries are numbered from 1.
LEMMA IssuesShape ==
    ASSUME NEW i \in 1..Len(providers), providers \in Seq(Provider)
    PROVE  /\ providers[i].entries \in Seq(Entry)
           /\ Len(providers[i].entries) \in Nat
           /\ providers[i].off \in BOOLEAN
           /\ \A m \in Issues(i) : m \in Nat /\ m > 0
<1>1. providers[i] \in Provider
  OBVIOUS
<1> QED
  BY <1>1 DEF Provider, Issues

\* Nothing is issued before the first entry.
LEMMA EarlierFirst ==
    ASSUME NEW i \in 1..Len(providers), providers \in Seq(Provider)
    PROVE  Earlier(i, 1) = Before(i)
<1>1. {m \in Issues(i) : m < 1} = {}
  BY IssuesShape
<1> QED
  BY <1>1 DEF Earlier

\* One entry more.
LEMMA EarlierStep ==
    ASSUME NEW i \in 1..Len(providers), providers \in Seq(Provider),
           NEW m \in Issues(i)
    PROVE  /\ Earlier(i, m + 1) = Earlier(i, m) \cup {<<i, m>>}
           /\ <<i, m>> \notin Earlier(i, m)
<1>1. m \in Nat /\ \A l \in Issues(i) : l \in Nat
  BY IssuesShape
<1>2. \A l \in Issues(i) : l < m + 1 <=> l < m \/ l = m
  BY <1>1
<1>3. \A x : x \in Earlier(i, m + 1) <=> x \in Earlier(i, m) \/ x = <<i, m>>
  BY <1>2, EarlierMembers
<1>4. <<i, m>> \notin Before(i)
  BY EarlierMembers
<1>5. <<i, m>> \notin Earlier(i, m)
  BY <1>1, <1>4, EarlierMembers
<1> QED
  BY <1>3, <1>5

\* The end of a provider.
LEMMA EarlierLast ==
    ASSUME NEW i \in 1..Len(providers), providers \in Seq(Provider), NEW j,
           \A m \in Issues(i) : m < j
    PROVE  Earlier(i, j) = Before(i + 1)
<1>1. \A k : k \in 1..((i + 1) - 1) <=> k \in 1..(i - 1) \/ k = i
  OBVIOUS
<1>2. \A x : x \in Before(i + 1) <=>
               x \in Before(i) \/ \E m \in Issues(i) : x = <<i, m>>
  BY <1>1, EarlierMembers
<1>3. \A x : x \in Earlier(i, j) <=> x \in Before(i + 1)
  BY <1>2, EarlierMembers
<1> QED
  BY <1>3

\* A provider that is off has no IDs.
LEMMA EarlierOff ==
    ASSUME NEW i \in 1..Len(providers), providers[i].off, NEW j
    PROVE  Earlier(i, j) = Before(i)
<1>1. Issues(i) = {}
  BY DEF Issues
<1> QED
  BY <1>1 DEF Earlier

\* Those of F with the same ID.
Sharing(F, id) == {e \in F : HostID(e[1], e[2]) = id}

\* Counting with one element more.
LEMMA CountAddOne ==
    ASSUME NEW F, IsFiniteSet(F), NEW x, x \notin F, NEW id
    PROVE  Cardinality(Sharing(F \cup {x}, id))
             = Cardinality(Sharing(F, id)) + IF HostID(x[1], x[2]) = id THEN 1 ELSE 0
<1> DEFINE G == Sharing(F, id)
           H == Sharing(F \cup {x}, id)
<1>1. IsFiniteSet(G) /\ Cardinality(G) \in Nat
  BY FS_Subset, FS_CardinalityType DEF Sharing
<1>2. CASE HostID(x[1], x[2]) = id
  <2>1. H = G \cup {x} /\ x \notin G
    BY <1>2 DEF Sharing
  <2> QED
    BY <1>1, <1>2, <2>1, FS_AddElement
<1>3. CASE HostID(x[1], x[2]) # id
  <2>1. H = G
    BY <1>3 DEF Sharing
  <2> QED
    BY <1>1, <1>3, <2>1
<1> QED
  BY <1>2, <1>3

-----------------------------------------------------------------------------
(***************************************************************************)
(* The inductive invariant.                                                *)
(***************************************************************************)
Typed ==
    /\ providers \in Seq(Provider)
    /\ at \in 0..(Len(providers) + 1)
    /\ entry \in IF at \in 1..Len(providers)
                 THEN 0..(Len(providers[at].entries) + 1) ELSE {0}
    /\ \A id \in DOMAIN counts : counts[id] \in Nat
    /\ result = "ok" => at = Len(providers) + 1

\* What the host has issued by now: a provider without entries is done at
\* once.
Passed ==
    IF at = 0 THEN {}
    ELSE IF at > Len(providers) \/ entry = 0 THEN Before(at)
    ELSE IF providers[at].entries = <<>> THEN Before(at + 1)
    ELSE Earlier(at, entry)

\* counts agrees with the host.
Counted ==
    /\ IsFiniteSet(Passed)
    /\ \A id : Count(id) = Cardinality(Sharing(Passed, id))

Begun(k) == k < at \/ (k = at /\ entry > 0)
Managing(k) == k \in 1..Len(providers) /\ IsManaged(providers[k]) /\ Begun(k)

\* The auth ID and the account that entry j of provider k should get.
IDOf(k, j) == IF providers[k].off THEN NoID
              ELSE [kind |-> HostID(k, j)[1], digest |-> HostID(k, j)[2],
                    n |-> HostNumber(k, j)]
AccountOf(k, j) == NewAccount(providers[k], providers[k].entries[j], IDOf(k, j))

\* The accounts are those of the entries read of the only managed provider.
Collected ==
    /\ \E S : accounts \in Seq(S)
    /\ \A k : Managing(k) =>
          /\ matches = 1
          /\ Len(accounts) = IF k < at THEN Len(providers[k].entries) ELSE entry - 1
          /\ \A j \in 1..Len(accounts) : accounts[j] = AccountOf(k, j)
          /\ \A i : Managing(i) => i = k
    /\ (\A k : ~Managing(k)) => accounts = <<>> /\ matches = 0

\* Every auth ID that was given away has been counted.
Numbered ==
    \A i \in 1..Len(accounts) :
        LET id == accounts[i].AuthID
        IN  \/ id = NoID
            \/ id.n \in Nat /\ id.n < Count(<<id.kind, id.digest>>)

Inv == Typed /\ Counted /\ Collected /\ Numbered /\ AccountsAreDistinct

LEMMA CountType ==
    ASSUME Typed
    PROVE  \A id : Count(id) \in Nat
  BY DEF Typed, Count

LEMMA InitInv == Init => Inv
<1> SUFFICES ASSUME Init PROVE Inv
  OBVIOUS
<1>1. /\ at = 0 /\ entry = 0 /\ matches = 0 /\ accounts = <<>>
      /\ result # "ok" /\ DOMAIN counts = {}
  <2>1. at = 0 /\ entry = 0 /\ matches = 0 /\ accounts = <<>> /\ counts = <<>>
    BY DEF Init
  <2>2. result # "ok"
    BY DEF Init
  <2> QED
    BY <2>1, <2>2
<1>2. providers \in Seq(Provider) /\ Len(providers) \in Nat
  <2>1. PICK i \in Inputs : providers \in i.providers
    BY DEF Init
  <2> QED
    BY <2>1, InputsAssumption
<1>3. Typed
  BY <1>1, <1>2 DEF Typed
<1>4. Counted
  <2>1. Passed = {} /\ \A id : Count(id) = 0
    BY <1>1 DEF Passed, Count
  <2>2. \A id : Sharing(Passed, id) = {}
    BY <2>1 DEF Sharing
  <2> QED
    BY <2>1, <2>2, FS_EmptySet DEF Counted
<1>5. Len(accounts) = 0 /\ accounts \in Seq({})
  BY <1>1
<1>6. Collected
  BY <1>1, <1>5 DEF Collected, Managing, Begun
<1>7. Numbered /\ AccountsAreDistinct
  BY <1>5 DEF Numbered, AccountsAreDistinct
<1> QED
  BY <1>3, <1>4, <1>6, <1>7 DEF Inv

\* A step that leaves the loops where they are.
LEMMA SameInv ==
    ASSUME Inv, UNCHANGED <<providers, disabled, at, entry, counts, matches, accounts>>,
           result' = "ok" => at = Len(providers) + 1
    PROVE  Inv'
<1>1. /\ Passed' = Passed /\ \A id : Count(id)' = Count(id)
      /\ \A i, j : HostID(i, j)' = HostID(i, j)
  BY DEF Passed, Count, HostID, Before, Earlier, Issues
<1>2. \A i, j : AccountOf(i, j)' = AccountOf(i, j)
  BY DEF AccountOf, NewAccount, IDOf, HostNumber, HostID, Earlier, Before, Issues
<1>3. \A k : Managing(k)' <=> Managing(k)
  BY DEF Managing, Begun
<1>4. Typed'
  BY DEF Inv, Typed
<1>5. Counted'
  BY <1>1 DEF Inv, Counted, Sharing
<1>6. Collected'
  BY <1>2, <1>3 DEF Inv, Collected
<1>7. Numbered' /\ AccountsAreDistinct'
  BY <1>1 DEF Inv, Numbered, AccountsAreDistinct
<1> QED
  BY <1>4, <1>5, <1>6, <1>7 DEF Inv

-----------------------------------------------------------------------------
(***************************************************************************)
(* The steps of the reader.                                                *)
(***************************************************************************)

\* The host does not depend on where the reader is.
LEMMA SameHost ==
    ASSUME UNCHANGED <<providers, disabled>>
    PROVE  /\ \A i, j : HostID(i, j)' = HostID(i, j)
           /\ \A i, j : AccountOf(i, j)' = AccountOf(i, j)
           /\ \A i : Before(i)' = Before(i)
           /\ \A i, j : Earlier(i, j)' = Earlier(i, j)
<1>1. /\ \A i, j : HostID(i, j)' = HostID(i, j)
      /\ \A i : Before(i)' = Before(i)
      /\ \A i, j : Earlier(i, j)' = Earlier(i, j)
  BY DEF HostID, Before, Earlier, Issues
<1>2. \A i, j : AccountOf(i, j)' = AccountOf(i, j)
  BY DEF AccountOf, NewAccount, IDOf, HostNumber, HostID, Earlier, Before, Issues
<1> QED
  BY <1>1, <1>2

\* Nothing new is issued.
LEMMA CountedStays ==
    ASSUME Counted, UNCHANGED <<providers, disabled, counts>>, Passed' = Passed
    PROVE  Counted' /\ \A id : Count(id)' = Count(id)
<1>1. \A id : Count(id)' = Count(id)
  BY DEF Count
<1> QED
  BY <1>1, SameHost DEF Counted, Sharing

\* nextAuthID issues one ID more.
LEMMA CountedGrows ==
    ASSUME Typed, Counted, UNCHANGED <<providers, disabled>>, NEW i, NEW m,
           <<i, m>> \notin Passed, Passed' = Passed \cup {<<i, m>>},
           NEW kind, NEW digest, HostID(i, m) = <<kind, digest>>,
           counts' = Issue(kind, digest)
    PROVE  /\ Counted'
           /\ \A id : Count(id)' = Count(id) + IF id = <<kind, digest>> THEN 1 ELSE 0
           /\ \A id \in DOMAIN counts' : counts'[id] \in Nat
<1> DEFINE one(id) == IF id = <<kind, digest>> THEN 1 ELSE 0
<1>1. \A id : Count(id) \in Nat
  BY CountType
<1>2. counts' = [id \in DOMAIN counts \cup {<<kind, digest>>} |-> Count(id) + one(id)]
  BY DEF Issue
<1>3. \A id \in DOMAIN counts' : counts'[id] \in Nat
  BY <1>1, <1>2
<1>4. ASSUME NEW id PROVE Count(id)' = Count(id) + one(id)
  <2>1. CASE id \in DOMAIN counts \cup {<<kind, digest>>}
    BY <1>2, <2>1 DEF Count
  <2>2. CASE id \notin DOMAIN counts \cup {<<kind, digest>>}
    BY <1>2, <2>2 DEF Count
  <2> QED
    BY <2>1, <2>2
<1>5. IsFiniteSet(Passed')
  BY FS_AddElement DEF Counted
<1>6. \A id : Cardinality(Sharing(Passed', id)) = Count(id) + one(id)
  <2> SUFFICES ASSUME NEW id
               PROVE  Cardinality(Sharing(Passed', id)) = Count(id) + one(id)
    OBVIOUS
  <2>1. PICK x : x = <<i, m>>
    OBVIOUS
  <2>2. IsFiniteSet(Passed) /\ x \notin Passed
    BY <2>1 DEF Counted
  <2>3. Cardinality(Sharing(Passed \cup {x}, id))
          = Cardinality(Sharing(Passed, id)) + IF HostID(x[1], x[2]) = id THEN 1 ELSE 0
    BY <2>2, CountAddOne
  <2>4. x[1] = i /\ x[2] = m
    BY <2>1
  <2> QED
    BY <2>1, <2>3, <2>4 DEF Counted
<1>7. Counted'
  BY <1>4, <1>5, <1>6, SameHost DEF Counted, Sharing
<1> QED
  BY <1>3, <1>4, <1>7

\* Where the reader goes next.
LEMMA PassedNext ==
    ASSUME UNCHANGED <<providers, disabled>>, NEW i, NEW j, at' = i, entry' = j
    PROVE  Passed' = IF i = 0 THEN {}
                     ELSE IF i > Len(providers) \/ j = 0 THEN Before(i)
                     ELSE IF providers[i].entries = <<>> THEN Before(i + 1)
                     ELSE Earlier(i, j)
  BY DEF Passed, Before, Earlier, Issues

\* More counted keeps the IDs distinct.
LEMMA NumberedStays ==
    ASSUME Typed, Numbered, AccountsAreDistinct, accounts' = accounts,
           \A id : Count(id)' \in Nat /\ Count(id)' >= Count(id)
    PROVE  Numbered' /\ AccountsAreDistinct'
<1>1. \A id : Count(id) \in Nat
  BY CountType
<1>2. Numbered'
  <2> DEFINE c(f, id) == IF id \in DOMAIN f THEN f[id] ELSE 0
  <2>1. \A id : /\ c(counts, id) \in Nat /\ c(counts', id) \in Nat
                /\ c(counts', id) >= c(counts, id)
    BY <1>1 DEF Count
  <2>2. ASSUME NEW i \in 1..Len(accounts), accounts[i].AuthID # NoID
        PROVE  /\ accounts[i].AuthID.n \in Nat
               /\ accounts[i].AuthID.n
                    < c(counts, <<accounts[i].AuthID.kind, accounts[i].AuthID.digest>>)
    BY <2>2 DEF Numbered, Count
  <2>3. ASSUME NEW i \in 1..Len(accounts), accounts[i].AuthID # NoID
        PROVE  accounts[i].AuthID.n
                 < c(counts', <<accounts[i].AuthID.kind, accounts[i].AuthID.digest>>)
    <3> HIDE DEF c
    <3> QED
      BY <2>1, <2>2, <2>3
  <2> QED
    BY <2>2, <2>3 DEF Numbered, Count, NoID
<1>3. AccountsAreDistinct'
  BY DEF AccountsAreDistinct, NoID
<1> QED
  BY <1>2, <1>3

\* What Inv says of the loops.
LEMMA Shape ==
    ASSUME Inv
    PROVE  /\ providers \in Seq(Provider) /\ Len(providers) \in Nat
           /\ at \in Nat /\ at <= Len(providers) + 1 /\ entry \in Nat
           /\ at \in 1..Len(providers) => /\ providers[at].entries \in Seq(Entry)
                                         /\ Len(providers[at].entries) \in Nat
                                         /\ providers[at].off \in BOOLEAN
                                         /\ entry <= Len(providers[at].entries) + 1
           /\ at \notin 1..Len(providers) => entry = 0
<1>1. providers \in Seq(Provider) /\ Len(providers) \in Nat
  BY DEF Inv, Typed
<1>2. at \in Nat /\ at <= Len(providers) + 1
  BY <1>1 DEF Inv, Typed
<1>3. CASE at \in 1..Len(providers)
  <2>1. /\ providers[at].entries \in Seq(Entry) /\ Len(providers[at].entries) \in Nat
        /\ providers[at].off \in BOOLEAN
    BY <1>1, <1>3, IssuesShape
  <2>2. entry \in 0..(Len(providers[at].entries) + 1)
    BY <1>3 DEF Inv, Typed
  <2> QED
    BY <1>1, <1>2, <1>3, <2>1, <2>2
<1>4. CASE at \notin 1..Len(providers)
  <2>1. entry = 0
    BY <1>4 DEF Inv, Typed
  <2> QED
    BY <1>1, <1>2, <1>4, <2>1
<1> QED
  BY <1>3, <1>4

LEMMA ReadFileInv == ASSUME Inv, ReadFile PROVE Inv'
<1>1. CASE Fail
  BY <1>1, SameInv DEF ReadFile, Fail, inputs
<1>2. CASE ~Fail
  <2>1. /\ at = 0 /\ at' = 1
        /\ UNCHANGED <<providers, disabled, entry, counts, matches, accounts>>
    BY <1>2 DEF ReadFile, inputs
  <2>2. providers \in Seq(Provider) /\ Len(providers) \in Nat /\ entry = 0
    BY <2>1, Shape
  <2>3. Typed'
    <3>1. 1 \in 1..Len(providers) => Len(providers[1].entries) \in Nat
      BY <2>2, IssuesShape
    <3>2. result' # "ok"
      BY <1>2 DEF ReadFile
    <3>3. at' \in 0..(Len(providers) + 1)
      BY <2>1, <2>2
    <3>4. entry' \in IF at' \in 1..Len(providers)
                    THEN 0..(Len(providers[at'].entries) + 1) ELSE {0}
      BY <2>1, <2>2, <3>1
    <3> QED
      BY <2>1, <2>2, <3>2, <3>3, <3>4 DEF Inv, Typed
  <2>4. Passed' = Passed
    <3>1. Passed = {}
      BY <2>1 DEF Passed
    <3>2. Passed' = Before(1)
      <4> DEFINE i == 1
      <4>1. entry' = 0 /\ at' = i
        BY <2>1, <2>2
      <4>2. Passed' = IF i = 0 THEN {} ELSE Before(i)
        <5> HIDE DEF i
        <5> QED
          BY <2>1, <4>1, PassedNext
      <4> QED
        BY <4>2
    <3>3. \A x : x \notin Before(1)
      BY EarlierMembers
    <3> QED
      BY <3>1, <3>2, <3>3
  <2>5. \A k : ~Managing(k) /\ ~Managing(k)'
    <3>1. \A k \in 1..Len(providers) : ~(k < 0) /\ ~(k < 1) /\ k # 0
      BY <2>2
    <3> QED
      BY <2>1, <2>2, <3>1 DEF Managing, Begun
  <2>6. Collected'
    BY <2>1, <2>5 DEF Inv, Collected
  <2>7. Counted' /\ \A id : Count(id)' = Count(id)
    BY <2>1, <2>4, CountedStays DEF Inv
  <2>8. \A id : Count(id)' \in Nat /\ Count(id)' >= Count(id)
    BY <2>7, CountType DEF Inv
  <2>9. Numbered' /\ AccountsAreDistinct'
    BY <2>1, <2>8, NumberedStays DEF Inv
  <2> QED
    BY <2>3, <2>6, <2>7, <2>9 DEF Inv
<1> QED
  BY <1>1, <1>2

LEMMA BeginProviderInv == ASSUME Inv, BeginProvider PROVE Inv'
<1> DEFINE p == providers[at]
<1>1. CASE Fail
  BY <1>1, SameInv DEF BeginProvider, Fail, inputs
<1>2. CASE ~Fail
  <2>1. /\ at \in 1..Len(providers) /\ entry = 0 /\ entry' = 1
        /\ UNCHANGED <<providers, disabled, at, accounts>>
        /\ matches' = matches + IF IsManaged(p) THEN 1 ELSE 0
        /\ counts' = IF p.entries = <<>> /\ ~p.off
                     THEN Issue(ProviderName(p), EmptyDigest) ELSE counts
    BY <1>2 DEF BeginProvider, inputs
  <2>2. IsManaged(p) => ~(matches > 0)
    BY <1>2 DEF BeginProvider
  <2>3. /\ providers \in Seq(Provider) /\ Len(providers) \in Nat
        /\ p.entries \in Seq(Entry) /\ Len(p.entries) \in Nat
        /\ p.off \in BOOLEAN
    BY <2>1, Shape
  <2>r. result' # "ok"
    BY <1>2 DEF BeginProvider
  <2>a. at # 0 /\ ~(at > Len(providers)) /\ at \in Nat
    BY <2>1, <2>3
  <2>4. Passed = Before(at)
    BY <2>1, <2>a DEF Passed
  <2>b. Passed' = IF p.entries = <<>> THEN Before(at + 1) ELSE Earlier(at, 1)
    <3>1. PICK one : one = 1
      OBVIOUS
    <3>2. Passed' = IF one = 0 THEN Before(at)
                    ELSE IF p.entries = <<>> THEN Before(at + 1) ELSE Earlier(at, one)
      BY <2>1, <2>a, <3>1, PassedNext
    <3> QED
      BY <3>1, <3>2
  <2>5. /\ Counted' /\ \A id : Count(id)' \in Nat /\ Count(id)' >= Count(id)
        /\ \A id \in DOMAIN counts' : counts'[id] \in Nat
    <3>1. CASE p.entries = <<>> /\ ~p.off
      <4>1. Issues(at) = {1} /\ HostID(at, 1) = <<ProviderName(p), EmptyDigest>>
        BY <2>1, <3>1 DEF Issues, HostID
      <4>2. Passed = Earlier(at, 1)
        BY <2>1, <2>3, <2>4, EarlierFirst
      <4>3. Passed' = Before(at + 1)
        BY <2>b, <3>1
      <4>4. Before(at + 1) = Earlier(at, 1 + 1)
        BY <2>1, <2>3, <4>1, EarlierLast
      <4>5. Passed' = Passed \cup {<<at, 1>>} /\ <<at, 1>> \notin Passed
        BY <2>1, <2>3, <4>1, <4>2, <4>3, <4>4, EarlierStep
      <4>6. counts' = Issue(ProviderName(p), EmptyDigest)
        BY <2>1, <3>1
      <4> QED
        BY <2>1, <4>1, <4>5, <4>6, CountedGrows, CountType DEF Inv
    <3>2. CASE p.entries = <<>> /\ p.off
      <4>1. Passed' = Before(at + 1)
        BY <2>b, <3>2
      <4>2. Issues(at) = {}
        BY <3>2 DEF Issues
      <4>3. Before(at + 1) = Earlier(at, 1)
        BY <2>1, <2>3, <4>2, EarlierLast
      <4>4. Passed' = Passed /\ counts' = counts
        BY <2>1, <2>3, <2>4, <3>2, <4>1, <4>3, EarlierFirst
      <4> QED
        BY <2>1, <4>4, CountedStays, CountType DEF Inv, Typed
    <3>3. CASE p.entries # <<>>
      <4>1. Passed' = Earlier(at, 1)
        BY <2>b, <3>3
      <4>2. Passed' = Passed /\ counts' = counts
        BY <2>1, <2>3, <2>4, <3>3, <4>1, EarlierFirst
      <4> QED
        BY <2>1, <4>2, CountedStays, CountType DEF Inv, Typed
    <3> QED
      BY <2>3, <3>1, <3>2, <3>3
  <2>6. Typed'
    BY <2>1, <2>3, <2>5, <2>r DEF Inv, Typed
  <2>7. Collected'
    <3>1. \A k : Managing(k)' <=> Managing(k) \/ (k = at /\ IsManaged(p))
      BY <2>1, <2>3 DEF Managing, Begun
    <3>2. ~Managing(at)
      BY <2>1 DEF Managing, Begun
    <3>3. CASE IsManaged(p)
      <4>1. \A k : ~Managing(k)
        BY <2>2, <3>3 DEF Inv, Collected
      <4>2. accounts = <<>> /\ matches = 0
        BY <4>1 DEF Inv, Collected
      <4>3. Len(accounts) = 0
        BY <4>2
      <4>4. \A k : Managing(k)' <=> k = at
        BY <3>1, <3>3, <4>1
      <4> QED
        BY <2>1, <3>3, <4>2, <4>3, <4>4 DEF Inv, Collected
    <3>4. CASE ~IsManaged(p)
      <4>1. \A k : Managing(k)' <=> Managing(k)
        BY <3>1, <3>4
      <4>2. \A k : Managing(k) => k < at
        BY <2>1, <3>2 DEF Managing, Begun
      <4> QED
        BY <2>1, <3>4, <4>1, <4>2, SameHost DEF Inv, Collected, Typed
    <3> QED
      BY <3>3, <3>4
  <2>8. Numbered' /\ AccountsAreDistinct'
    BY <2>1, <2>5, NumberedStays DEF Inv
  <2> QED
    BY <2>5, <2>6, <2>7, <2>8 DEF Inv
<1> QED
  BY <1>1, <1>2

LEMMA EndProviderInv == ASSUME Inv, EndProvider PROVE Inv'
<1> DEFINE p == providers[at]
<1>1. /\ at \in 1..Len(providers) /\ entry = Len(p.entries) + 1
      /\ at' = at + 1 /\ entry' = 0
      /\ UNCHANGED <<providers, disabled, counts, matches, accounts>>
  BY DEF EndProvider, inputs
<1>2. result' # "ok"
  BY DEF EndProvider
<1>3. /\ providers \in Seq(Provider) /\ Len(providers) \in Nat /\ at \in Nat
      /\ p.entries \in Seq(Entry) /\ Len(p.entries) \in Nat
      /\ at # 0 /\ at + 1 # 0 /\ ~(at > Len(providers)) /\ entry # 0
  BY <1>1, Shape
<1>4. Typed'
  <2>1. at + 1 \in 0..(Len(providers) + 1)
    BY <1>1, <1>3
  <2>2. at + 1 \in 1..Len(providers) => Len(providers[at + 1].entries) \in Nat
    BY <1>3, IssuesShape
  <2>3. entry' \in IF at' \in 1..Len(providers)
                  THEN 0..(Len(providers[at'].entries) + 1) ELSE {0}
    BY <1>1, <2>2
  <2> QED
    BY <1>1, <1>2, <2>1, <2>3 DEF Inv, Typed
<1>5. Passed' = Passed
  <2>1. Passed = IF p.entries = <<>> THEN Before(at + 1) ELSE Earlier(at, entry)
    BY <1>3 DEF Passed
  <2>2. p.entries # <<>> => Earlier(at, entry) = Before(at + 1)
    <3> SUFFICES ASSUME p.entries # <<>> PROVE Earlier(at, entry) = Before(at + 1)
      OBVIOUS
    <3>1. \A m \in Issues(at) : m \in 1..Len(p.entries)
      BY DEF Issues
    <3>2. \A m \in Issues(at) : m < entry
      BY <1>1, <1>3, <3>1
    <3> QED
      BY <1>1, <1>3, <3>2, EarlierLast
  <2>3. PICK i : i = at + 1
    OBVIOUS
  <2>4. Passed' = Before(i)
    <3>1. at' = i /\ entry' = 0 /\ i # 0
      BY <1>1, <1>3, <2>3
    <3> QED
      BY <1>1, <3>1, PassedNext
  <2> QED
    BY <2>1, <2>2, <2>3, <2>4
<1>6. Counted' /\ \A id : Count(id)' = Count(id)
  BY <1>1, <1>5, CountedStays DEF Inv
<1>7. Collected'
  <2>1. \A k \in 1..Len(providers) : k < at + 1 <=> k < at \/ k = at
    BY <1>3
  <2>2. entry > 0
    BY <1>1, <1>3
  <2>3. \A k : Managing(k)' <=> Managing(k)
    BY <1>1, <2>1, <2>2 DEF Managing, Begun
  <2>4. \A k : Managing(k) => k \in 1..Len(providers) /\ (k < at \/ k = at)
    BY <2>1 DEF Managing, Begun
  <2>5. entry - 1 = Len(p.entries) /\ ~(at < at)
    BY <1>1, <1>3
  <2>6. \A k : Managing(k) => Len(accounts) = Len(providers[k].entries)
    BY <2>4, <2>5 DEF Inv, Collected
  <2>7. \A k : Managing(k) => k < at'
    BY <1>1, <2>1, <2>4
  <2> QED
    BY <1>1, <2>3, <2>6, <2>7, SameHost DEF Inv, Collected
<1>8. \A id : Count(id)' \in Nat /\ Count(id)' >= Count(id)
  BY <1>6, CountType DEF Inv
<1>9. Numbered' /\ AccountsAreDistinct'
  BY <1>1, <1>8, NumberedStays DEF Inv
<1> QED
  BY <1>4, <1>6, <1>7, <1>9 DEF Inv

LEMMA ReturnInv == ASSUME Inv, Return PROVE Inv'
<1>1. at = Len(providers) + 1
  BY DEF Return
<1>2. UNCHANGED <<providers, disabled, at, entry, counts, matches, accounts>>
  BY DEF Return, inputs
<1> QED
  BY <1>1, <1>2, SameInv

\* One account more.
LEMMA Appended ==
    ASSUME NEW s, \E S : s \in Seq(S), NEW a, NEW t, t = Append(s, a)
    PROVE  /\ \E S : t \in Seq(S)
           /\ Len(s) \in Nat /\ Len(t) = Len(s) + 1
           /\ \A i \in 1..Len(s) : t[i] = s[i]
           /\ t[Len(s) + 1] = a
<1>1. PICK S : s \in Seq(S)
  OBVIOUS
<1>2. PICK T : T = S \cup {a}
  OBVIOUS
<1>3. s \in Seq(T) /\ a \in T
  <2>1. \A i \in 1..Len(s) : s[i] \in T
    BY <1>1, <1>2
  <2> QED
    BY <1>1, <1>2, <2>1
<1> QED
  BY <1>3, AppendProperties

\* A new account keeps them distinct, if its key is new and its ID has the
\* number that the counter has reached.
LEMMA NumberedGrows ==
    ASSUME Typed, Numbered, AccountsAreDistinct, \E S : accounts \in Seq(S),
           NEW a, accounts' = Append(accounts, a),
           \A i \in 1..Len(accounts) : accounts[i].Fingerprint # a.Fingerprint,
           a.AuthID = NoID => a.Disabled,
           NEW base, base = <<a.AuthID.kind, a.AuthID.digest>>,
           a.AuthID # NoID => a.AuthID.n = Count(base) /\ Count(base)' = Count(base) + 1,
           \A id : Count(id)' \in Nat /\ Count(id)' >= Count(id)
    PROVE  Numbered' /\ AccountsAreDistinct'
<1> DEFINE c(f, id) == IF id \in DOMAIN f THEN f[id] ELSE 0
           n == Len(accounts)
           Good(b, f) == b.AuthID = NoID \/
              /\ b.AuthID.n \in Nat
              /\ b.AuthID.n < c(f, <<b.AuthID.kind, b.AuthID.digest>>)
<1>1. /\ n \in Nat /\ Len(accounts') = n + 1 /\ accounts'[n + 1] = a
      /\ \A i \in 1..n : accounts'[i] = accounts[i]
  BY Appended
<1>2. \A i \in 1..Len(accounts') : i \in 1..n \/ i = n + 1
  BY <1>1
<1>3. \A id : /\ c(counts, id) \in Nat /\ c(counts', id) \in Nat
              /\ c(counts', id) >= c(counts, id)
  BY CountType DEF Count
<1>4. \A i \in 1..n : Good(accounts[i], counts)
  BY DEF Numbered, Count
<1>5. a.AuthID # NoID => /\ a.AuthID.n = c(counts, base)
                         /\ c(counts', base) = c(counts, base) + 1
  BY DEF Count
<1>6. ASSUME NEW i \in 1..n PROVE Good(accounts[i], counts')
  <2> HIDE DEF c
  <2>1. PICK k : k = <<accounts[i].AuthID.kind, accounts[i].AuthID.digest>>
    OBVIOUS
  <2>2. \/ accounts[i].AuthID = NoID
        \/ accounts[i].AuthID.n \in Nat /\ accounts[i].AuthID.n < c(counts, k)
    BY <1>4, <2>1
  <2>3. /\ c(counts, k) \in Nat /\ c(counts', k) \in Nat
        /\ c(counts', k) >= c(counts, k)
    BY <1>3
  <2>4. \/ accounts[i].AuthID = NoID
        \/ accounts[i].AuthID.n \in Nat /\ accounts[i].AuthID.n < c(counts', k)
    BY <2>2, <2>3
  <2> QED
    BY <2>1, <2>4
<1>7. Good(a, counts')
  <2> HIDE DEF c
  <2> QED
    BY <1>3, <1>5
<1>8. Numbered'
  <2>1. \A i \in 1..Len(accounts') : Good(accounts'[i], counts')
    <3> HIDE DEF Good
    <3> QED
      BY <1>1, <1>2, <1>6, <1>7
  <2> QED
    BY <2>1 DEF Numbered, Count, NoID
<1>9. ASSUME NEW i \in 1..n, a.AuthID # NoID PROVE accounts[i].AuthID # a.AuthID
  <2> HIDE DEF c
  <2> SUFFICES ASSUME accounts[i].AuthID = a.AuthID PROVE FALSE
    OBVIOUS
  <2>1. a.AuthID.n \in Nat /\ a.AuthID.n < c(counts, base)
    BY <1>4, <1>9
  <2> QED
    BY <1>5, <1>9, <2>1
<1>10. AccountsAreDistinct'
  <2> SUFFICES ASSUME NEW i \in 1..Len(accounts'), NEW j \in 1..Len(accounts')
               PROVE  /\ accounts'[i].AuthID = NoID => accounts'[i].Disabled
                      /\ i # j => /\ accounts'[i].Fingerprint # accounts'[j].Fingerprint
                                  /\ \/ accounts'[i].AuthID # accounts'[j].AuthID
                                     \/ accounts'[i].AuthID = NoID
    BY DEF AccountsAreDistinct, NoID
  <2>1. CASE i \in 1..n /\ j \in 1..n
    BY <1>1, <2>1 DEF AccountsAreDistinct
  <2>2. CASE i \in 1..n /\ j = n + 1
    <3>1. accounts[i].AuthID = NoID => accounts[i].Disabled
      BY <2>2 DEF AccountsAreDistinct
    <3> QED
      BY <1>1, <1>9, <2>2, <3>1
  <2>3. CASE i = n + 1 /\ j \in 1..n
    BY <1>1, <1>9, <2>3
  <2>4. CASE i = n + 1 /\ j = n + 1
    BY <1>1, <2>4
  <2> QED
    BY <1>2, <2>1, <2>2, <2>3, <2>4
<1> QED
  BY <1>8, <1>10

LEMMA ReadEntryInv == ASSUME Inv, ReadEntry PROVE Inv'
<1> DEFINE p == providers[at]
           e == p.entries[entry]
           d == Digest(e.key, e.proxy)
           id == IF p.off THEN NoID ELSE AuthID(ProviderName(p), d)
<1>1. CASE Fail
  BY <1>1, SameInv DEF ReadEntry, Fail, inputs
<1>2. CASE ~Fail
  <2>1. /\ at \in 1..Len(providers) /\ entry \in 1..Len(p.entries)
        /\ UNCHANGED <<providers, disabled, at, matches>>
        /\ entry' = entry + 1
        /\ counts' = IF p.off THEN counts ELSE Issue(ProviderName(p), d)
        /\ accounts' = IF IsManaged(p)
                       THEN Append(accounts, NewAccount(p, e, id)) ELSE accounts
    BY <1>2 DEF ReadEntry, inputs
  <2>2. IsManaged(p) => ~Seen(e.key)
    BY <1>2 DEF ReadEntry, Unusable
  <2>3. result' # "ok"
    BY <1>2 DEF ReadEntry
  <2>4. /\ providers \in Seq(Provider) /\ Len(providers) \in Nat /\ at \in Nat
        /\ p.entries \in Seq(Entry) /\ Len(p.entries) \in Nat /\ p.off \in BOOLEAN
        /\ entry \in Nat /\ entry # 0 /\ entry + 1 # 0
        /\ at # 0 /\ ~(at > Len(providers))
    BY <2>1, Shape
  <2>5. p.entries # <<>>
    BY <2>1, <2>4
  <2>6. Passed = Earlier(at, entry)
    BY <2>4, <2>5 DEF Passed
  <2>7. Passed' = Earlier(at, entry + 1)
    <3>1. PICK j : j = entry + 1
      OBVIOUS
    <3>2. at' = at /\ entry' = j /\ j # 0
      BY <2>1, <2>4, <3>1
    <3>3. Passed' = Earlier(at, j)
      BY <2>1, <2>4, <2>5, <3>2, PassedNext
    <3> QED
      BY <3>1, <3>3
  <2>8. HostID(at, entry) = <<ProviderName(p), d>>
    BY <2>5 DEF HostID
  <2>b. PICK base : base = <<ProviderName(p), d>>
    OBVIOUS
  <2>9. /\ Counted' /\ \A i : Count(i)' \in Nat /\ Count(i)' >= Count(i)
        /\ \A i \in DOMAIN counts' : counts'[i] \in Nat
        /\ ~p.off => Count(base)' = Count(base) + 1
    <3>1. CASE p.off
      <4>1. Passed' = Passed /\ counts' = counts
        BY <2>1, <2>6, <2>7, <3>1, EarlierOff
      <4> QED
        BY <2>1, <3>1, <4>1, CountedStays, CountType DEF Inv, Typed
    <3>2. CASE ~p.off
      <4>1. entry \in Issues(at)
        BY <2>1, <2>5, <3>2 DEF Issues
      <4>2. Passed' = Passed \cup {<<at, entry>>} /\ <<at, entry>> \notin Passed
        BY <2>1, <2>4, <2>6, <2>7, <4>1, EarlierStep
      <4>3. PICK kind, digest : kind = ProviderName(p) /\ digest = d
        OBVIOUS
      <4>4. counts' = Issue(kind, digest) /\ HostID(at, entry) = <<kind, digest>>
        BY <2>1, <2>8, <3>2, <4>3
      <4>5. /\ Counted'
            /\ \A i : Count(i)' = Count(i) + IF i = <<kind, digest>> THEN 1 ELSE 0
            /\ \A i \in DOMAIN counts' : counts'[i] \in Nat
        BY <2>1, <4>2, <4>4, CountedGrows DEF Inv
      <4>6. \A i : Count(i) \in Nat
        BY CountType DEF Inv
      <4>7. \A i : Count(i)' \in Nat /\ Count(i)' >= Count(i)
        BY <4>5, <4>6
      <4>8. Count(base)' = Count(base) + 1
        BY <2>b, <4>3, <4>5
      <4> QED
        BY <4>5, <4>7, <4>8
    <3> QED
      BY <2>4, <3>1, <3>2
  <2>10. Typed'
    <3>1. entry + 1 \in 0..(Len(p.entries) + 1)
      BY <2>1, <2>4
    <3> QED
      BY <2>1, <2>3, <2>9, <3>1 DEF Inv, Typed
  <2>11. id = IDOf(at, entry)
    <3>1. CASE p.off
      BY <3>1 DEF IDOf
    <3>2. CASE ~p.off
      <4>1. Count(<<ProviderName(p), d>>) = HostNumber(at, entry)
        BY <2>6, <2>8 DEF Inv, Counted, Sharing, HostNumber
      <4>2. HostID(at, entry)[1] = ProviderName(p) /\ HostID(at, entry)[2] = d
        BY <2>8
      <4> QED
        BY <3>2, <4>1, <4>2 DEF IDOf, AuthID
    <3> QED
      BY <3>1, <3>2
  <2>12. \A k : Managing(k)' <=> Managing(k)
    <3>1. entry > 0 /\ entry' > 0
      BY <2>1, <2>4
    <3> QED
      BY <2>1, <3>1 DEF Managing, Begun
  <2>13. CASE IsManaged(p)
    <3>1. PICK a : a = NewAccount(p, e, id)
      OBVIOUS
    <3>2. accounts' = Append(accounts, a) /\ a = AccountOf(at, entry)
      BY <2>1, <2>11, <2>13, <3>1 DEF AccountOf
    <3>3. Managing(at)
      BY <2>1, <2>4, <2>13 DEF Managing, Begun
    <3>4. \E S : accounts \in Seq(S)
      BY DEF Inv, Collected
    <3>5. /\ Len(accounts) \in Nat /\ Len(accounts') = Len(accounts) + 1
          /\ accounts'[Len(accounts) + 1] = a
          /\ \A i \in 1..Len(accounts) : accounts'[i] = accounts[i]
          /\ \E S : accounts' \in Seq(S)
      BY <3>2, <3>4, Appended
    <3>6. ~(at < at)
      BY <2>4
    <3>7. Len(accounts) = entry - 1 /\ matches = 1 /\ (\A i : Managing(i) => i = at)
          /\ \A j \in 1..Len(accounts) : accounts[j] = AccountOf(at, j)
      BY <3>3, <3>6 DEF Inv, Collected
    <3>8. Collected'
      <4>1. Len(accounts') = entry /\ Len(accounts') = entry' - 1
        BY <2>1, <2>4, <3>5, <3>7
      <4>2. \A j \in 1..Len(accounts') : j \in 1..Len(accounts) \/ j = entry
        BY <2>4, <3>7, <4>1
      <4>3. Len(accounts) + 1 = entry
        BY <2>4, <3>7
      <4>4. \A j \in 1..Len(accounts') : accounts'[j] = AccountOf(at, j)
        BY <3>2, <3>5, <3>7, <4>2, <4>3
      <4>5. \A k : Managing(k)' <=> k = at
        BY <2>12, <3>3, <3>7
      <4>6. ASSUME NEW k, Managing(k)'
            PROVE  /\ matches' = 1
                   /\ Len(accounts') = IF k < at' THEN Len(providers'[k].entries)
                                       ELSE entry' - 1
                   /\ \A j \in 1..Len(accounts') : accounts'[j] = AccountOf(k, j)'
                   /\ \A i : Managing(i)' => i = k
        <5>1. k = at
          BY <4>5, <4>6
        <5>2. matches' = 1 /\ ~(k < at')
          BY <2>1, <3>6, <3>7, <5>1
        <5>3. \A j : AccountOf(k, j)' = AccountOf(k, j)
          BY <2>1, SameHost
        <5>4. \A j \in 1..Len(accounts') : accounts'[j] = AccountOf(k, j)'
          BY <4>4, <5>1, <5>3
        <5>5. \A i : Managing(i)' => i = k
          BY <4>5, <5>1
        <5> QED
          BY <4>1, <5>2, <5>4, <5>5
      <4>7. \E k : Managing(k)'
        BY <4>5
      <4> QED
        BY <3>5, <4>6, <4>7 DEF Collected
    <3>9. Numbered' /\ AccountsAreDistinct'
      <4>1. /\ a.Fingerprint = Fingerprint(e.key) /\ a.AuthID = id
            /\ p.off => a.Disabled
        BY <3>1 DEF NewAccount
      <4>2. \A i \in 1..Len(accounts) : accounts[i].Fingerprint # a.Fingerprint
        BY <2>2, <2>13, <4>1 DEF Seen
      <4>3. NoID.kind # ProviderName(p)
        <5>1. PICK z : z = "" /\ NoID = [kind |-> z, digest |-> z, n |-> 0]
          BY Zenon DEF NoID
        <5>2. ProviderName(p) # z
          BY <5>1, Zenon DEF ProviderName
        <5>3. NoID.kind = z
          BY <5>1, Zenon
        <5> QED
          BY <5>2, <5>3
      <4>4. CASE p.off
        <5>1. a.AuthID = NoID /\ a.Disabled
          BY <4>1, <4>4
        <5>2. PICK b : b = <<a.AuthID.kind, a.AuthID.digest>>
          OBVIOUS
        <5> QED
          BY <2>9, <3>2, <3>4, <4>2, <5>1, <5>2, NumberedGrows DEF Inv
      <4>5. CASE ~p.off
        <5>1. /\ a.AuthID.kind = ProviderName(p) /\ a.AuthID.digest = d
              /\ a.AuthID.n = Count(<<ProviderName(p), d>>)
          BY <4>1, <4>5 DEF AuthID
        <5>2. a.AuthID # NoID
          BY <4>3, <5>1
        <5>3. base = <<a.AuthID.kind, a.AuthID.digest>>
          BY <2>b, <5>1
        <5>4. a.AuthID.n = Count(base) /\ Count(base)' = Count(base) + 1
          BY <2>9, <2>b, <4>5, <5>1
        <5> QED
          BY <2>9, <3>2, <3>4, <4>2, <5>2, <5>3, <5>4, NumberedGrows DEF Inv
      <4> QED
        BY <2>4, <4>4, <4>5
    <3> QED
      BY <2>9, <2>10, <3>8, <3>9 DEF Inv
  <2>14. CASE ~IsManaged(p)
    <3>1. accounts' = accounts
      BY <2>1, <2>14
    <3>2. \A k : Managing(k) => k < at
      BY <2>1, <2>14 DEF Managing, Begun
    <3>3. Collected'
      BY <2>1, <2>12, <3>1, <3>2, SameHost DEF Inv, Collected
    <3>4. Numbered' /\ AccountsAreDistinct'
      BY <2>9, <3>1, NumberedStays DEF Inv
    <3> QED
      BY <2>9, <2>10, <3>3, <3>4 DEF Inv
  <2> QED
    BY <2>13, <2>14
<1> QED
  BY <1>1, <1>2

-----------------------------------------------------------------------------
(***************************************************************************)
(* Theorems.                                                               *)
(***************************************************************************)

LEMMA InvHolds == Spec => []Inv
<1>1. Inv /\ [Next]_vars => Inv'
  <2>1. CASE Next
    BY <2>1, ReadFileInv, BeginProviderInv, ReadEntryInv, EndProviderInv,
       ReturnInv DEF Next
  <2>2. ASSUME Inv, UNCHANGED vars PROVE Inv'
    <3>1. result' = "ok" => at = Len(providers) + 1
      BY <2>2 DEF vars, Inv, Typed
    <3>2. UNCHANGED <<providers, disabled, at, entry, counts, matches, accounts>>
      BY <2>2 DEF vars, inputs
    <3> QED
      BY <2>2, <3>1, <3>2, SameInv
  <2> QED
    BY <2>1, <2>2
<1> QED
  BY <1>1, InitInv, PTL DEF Spec

\* Whatever readConfiguration has collected, also when it gives up: no two
\* accounts have the same key or the same auth ID, and one without an auth ID
\* is disabled.  This holds for every file, also where digests collide.
THEOREM DistinctAccounts == Spec => []AccountsAreDistinct
<1>1. Inv => AccountsAreDistinct
  BY DEF Inv
<1> QED
  BY <1>1, InvHolds, PTL

\* nextAuthID gives an account the ID that the host gives to its entry, with
\* the number of the entries before it, of any provider, that share the ID.
THEOREM HostAgrees == Spec => []AuthIDsMatchHost
<1>1. Inv => AuthIDsMatchHost
  <2> SUFFICES ASSUME Inv, NEW i \in 1..Len(providers), IsManaged(providers[i]),
                      ~providers[i].off,
                      \A k \in 1..(i - 1) : ~IsManaged(providers[k]),
                      NEW j \in 1..Len(accounts)
               PROVE  accounts[j].AuthID = [kind |-> HostID(i, j)[1],
                                            digest |-> HostID(i, j)[2],
                                            n |-> HostNumber(i, j)]
    BY DEF AuthIDsMatchHost
  <2>1. PICK k : Managing(k)
    <3>1. accounts # <<>>
      OBVIOUS
    <3> QED
      BY <3>1 DEF Inv, Collected
  <2>2. Len(providers) \in Nat /\ at \in Nat /\ entry \in Nat
    BY Shape
  <2>3. k = i
    <3>1. /\ k \in 1..Len(providers) /\ IsManaged(providers[k])
          /\ (k < at \/ (k = at /\ entry > 0))
      BY <2>1 DEF Managing, Begun
    <3>2. ~(k < i)
      BY <2>2, <3>1
    <3>3. i < k => Managing(i)
      BY <2>2, <3>1 DEF Managing, Begun
    <3>4. Managing(i) => i = k
      BY <2>1 DEF Inv, Collected
    <3> QED
      BY <2>2, <3>1, <3>2, <3>3, <3>4
  <2>4. accounts[j] = AccountOf(i, j)
    BY <2>1, <2>3 DEF Inv, Collected
  <2> QED
    BY <2>4 DEF AccountOf, NewAccount, IDOf
<1> QED
  BY <1>1, InvHolds, PTL

\* A configuration that is accepted has exactly the keys of the one managed
\* provider, in order, and disables those of a disabled provider and those
\* that disabled-accounts names, and no others.
THEOREM WholeProvider == Spec => []AcceptsWholeProvider
<1>1. Inv => AcceptsWholeProvider
  <2> SUFFICES ASSUME Inv, result = "ok" PROVE AcceptsWholeProvider
    BY DEF AcceptsWholeProvider
  <2> DEFINE zens == {i \in 1..Len(providers) : IsManaged(providers[i])}
  <2>1. at = Len(providers) + 1 /\ Len(providers) \in Nat
    <3>1. at = Len(providers) + 1
      BY DEF Inv, Typed
    <3> QED
      BY <3>1, Shape
  <2>2. \A k \in 1..Len(providers) : k < at
    BY <2>1
  <2>3. \A k : Managing(k) <=> k \in zens
    BY <2>2 DEF Managing, Begun
  <2>4. zens = {} => accounts = <<>>
    BY <2>3 DEF Inv, Collected
  <2>5. ASSUME NEW i \in zens
        PROVE  /\ zens = {i} /\ Len(accounts) = Len(providers[i].entries)
               /\ \A j \in 1..Len(accounts) : accounts[j] = AccountOf(i, j)
    <3>1. Managing(i) /\ i < at
      BY <2>2, <2>3
    <3>2. \A k \in zens : k = i
      BY <2>3, <3>1 DEF Inv, Collected
    <3> QED
      BY <3>1, <3>2 DEF Inv, Collected
  <2>6. ASSUME NEW i \in zens, NEW j \in 1..Len(accounts)
        PROVE  LET q == providers[i]
               IN  /\ accounts[j].Fingerprint = Fingerprint(q.entries[j].key)
                   /\ accounts[j].Disabled <=>
                        q.off \/ Fingerprint(q.entries[j].key) \in disabled
    <3> DEFINE q == providers[i]
               e == q.entries[j]
    <3>1. accounts[j] = NewAccount(q, e, IDOf(i, j))
      BY <2>5, <2>6 DEF AccountOf
    <3>2. /\ accounts[j].Fingerprint = Fingerprint(e.key)
          /\ accounts[j].Disabled = (q.off \/ Fingerprint(e.key) \in disabled)
      BY <3>1 DEF NewAccount
    <3> QED
      BY <3>2, Zenon
  <2> QED
    BY <2>4, <2>5, <2>6 DEF AcceptsWholeProvider
<1> QED
  BY <1>1, InvHolds, PTL
=============================================================================
