---------------------------- MODULE ConfigReader ----------------------------
(***************************************************************************)
(* readConfiguration (config.go): the loop over the providers of the       *)
(* host's configuration and over their API keys, from which the accounts   *)
(* of the pool come, with every place where it gives up.  What it has      *)
(* collected by then is returned with the error, and faultedPool uses it.  *)
(*                                                                         *)
(* The file is given twice: as the nodes that yamlMap expands, of which    *)
(* only the verdict matters here, and as the providers found in the map.   *)
(* ConfigFile puts YAMLDecoder in for yamlMap.                             *)
(* Texts are trimmed and folded to lower case where the code does that.    *)
(***************************************************************************)
EXTENDS Integers, Sequences, FiniteSets

CONSTANTS
    Managed,       \* provider-name
    MaxAccounts,   \* the most accounts (1024)
    Digest(_, _),  \* 12 hex digits of a hash of key and proxy: may collide
    EmptyDigest,   \* the digest of a provider without entries
    Parse(_),      \* yamlMap
    Inputs         \* documents, lists of providers and values of
                   \* disabled-accounts that come in any combination

Entry == [key : STRING, proxy : STRING, malformed : BOOLEAN]
Provider == [name : STRING, base : STRING, off : BOOLEAN, entries : Seq(Entry),
             malformed : {"no", "head", "managed"}]

ASSUME InputsAssumption == \A i \in Inputs : i.providers \subseteq Seq(Provider)

VARIABLES
    document,   \* the nodes of the file
    providers,  \* openai-compatibility
    disabled,   \* disabled-accounts
    decoded,    \* what yamlMap returned
    at, entry,  \* the loops: provider, and entry, 0 before the first
    counts,     \* how often nextAuthID has given each ID
    matches,    \* managed providers so far
    accounts,   \* cfg.Accounts
    result      \* "", then "ok" or "error"

inputs == <<document, providers, disabled>>
vars == <<inputs, decoded, at, entry, counts, matches, accounts, result>>

\* fingerprint: a hash without collisions.
Fingerprint(key) == <<"sha256", key>>

\* Keys and proxies are literal, and safeProxy accepts the proxy.
Placeholders == {"${key}"}
BadProxies == {"${proxy}", "ftp://proxy"}

\* The name of a provider that has none.
ProviderName(p) == IF p.name = "" THEN "openai-compatibility" ELSE p.name
IsManaged(p) == ProviderName(p) = Managed

NoID == [kind |-> "", digest |-> "", n |-> 0]

\* count[base] of a Go map: 0 where nothing is stored.
Count(id) == IF id \in DOMAIN counts THEN counts[id] ELSE 0

\* Mutant: the first ID is numbered too.
AuthIDNumbered(kind, digest) ==
    [kind |-> kind, digest |-> digest, n |-> Count(<<kind, digest>>) + 1]

\* nextAuthID; 0 stands for no suffix.
AuthID(kind, digest) ==
    [kind |-> kind, digest |-> digest, n |-> Count(<<kind, digest>>)]

Issue(kind, digest) ==
    [id \in DOMAIN counts \cup {<<kind, digest>>} |->
        Count(id) + IF id = <<kind, digest>> THEN 1 ELSE 0]

Fail == result' = "error" /\ UNCHANGED <<at, entry, counts, matches, accounts>>

-----------------------------------------------------------------------------
Init ==
    /\ \E i \in Inputs : /\ document \in i.documents
                         /\ providers \in i.providers
                         /\ disabled \in i.disabled
    /\ decoded = [ok |-> FALSE] /\ at = 0 /\ entry = 0 /\ counts = <<>>
    /\ matches = 0 /\ accounts = <<>> /\ result = ""

\* The plugin's options and the file: any of them may be unusable.
ReadFile ==
    /\ result = "" /\ at = 0
    /\ decoded' = Parse(document)
    /\ \/ Fail
       \/ decoded'.ok /\ at' = 1
          /\ UNCHANGED <<entry, counts, matches, accounts, result>>
    /\ UNCHANGED inputs

\* The fields of a provider; headers, prefix and models are read for the
\* managed one, which must be the only one and at Zen's URL.
BeginProvider ==
    /\ result = "" /\ at \in 1..Len(providers) /\ entry = 0
    /\ LET p == providers[at]
       IN  IF \/ p.malformed = "head"
              \/ IsManaged(p) /\ (matches > 0 \/ p.base # "zen"
                                  \/ p.malformed = "managed")
           THEN Fail
           ELSE /\ matches' = matches + IF IsManaged(p) THEN 1 ELSE 0
                /\ counts' = IF p.entries = <<>> /\ ~p.off
                             THEN Issue(ProviderName(p), EmptyDigest)
                             ELSE counts
                /\ entry' = 1
                /\ UNCHANGED <<at, accounts, result>>
    /\ UNCHANGED <<inputs, decoded>>

\* seenKeys
Seen(key) == \E i \in 1..Len(accounts) :
                accounts[i].Fingerprint = Fingerprint(key)

\* Mutant: the same key may come twice.
UnusableLax(e) == e.key = "" \/ e.key \in Placeholders \/ e.proxy \in BadProxies

Unusable(e) ==
    \/ e.key = "" \/ e.key \in Placeholders
    \/ Seen(e.key)
    \/ e.proxy \in BadProxies

\* Mutant: disabled-accounts is not looked at.
NewAccountEnabled(p, e, id) ==
    [Fingerprint |-> Fingerprint(e.key), AuthID |-> id, Disabled |-> p.off]

NewAccount(p, e, id) ==
    [Fingerprint |-> Fingerprint(e.key), AuthID |-> id,
     Disabled |-> p.off \/ Fingerprint(e.key) \in disabled]

\* One API key: its ID is counted whoever's it is, and only those of the
\* managed provider become accounts.
ReadEntry ==
    /\ result = "" /\ at \in 1..Len(providers)
    /\ entry \in 1..Len(providers[at].entries)
    /\ LET p == providers[at]
           e == p.entries[entry]
           d == Digest(e.key, e.proxy)
           id == IF p.off THEN NoID ELSE AuthID(ProviderName(p), d)
       IN  IF e.malformed \/ (IsManaged(p) /\ Unusable(e))
           THEN Fail
           ELSE /\ counts' = IF p.off THEN counts ELSE Issue(ProviderName(p), d)
                /\ accounts' = IF IsManaged(p)
                               THEN Append(accounts, NewAccount(p, e, id))
                               ELSE accounts
                /\ entry' = entry + 1
                /\ UNCHANGED <<at, matches, result>>
    /\ UNCHANGED <<inputs, decoded>>

EndProvider ==
    /\ result = "" /\ at \in 1..Len(providers)
    /\ entry = Len(providers[at].entries) + 1
    /\ at' = at + 1 /\ entry' = 0
    /\ UNCHANGED <<inputs, decoded, counts, matches, accounts, result>>

Return ==
    /\ result = "" /\ at = Len(providers) + 1
    /\ result' = IF Len(accounts) > MaxAccounts THEN "error" ELSE "ok"
    /\ UNCHANGED <<inputs, decoded, at, entry, counts, matches, accounts>>

Next == ReadFile \/ BeginProvider \/ ReadEntry \/ EndProvider \/ Return

Spec == Init /\ [][Next]_vars

-----------------------------------------------------------------------------
(***************************************************************************)
(* Properties.                                                             *)
(***************************************************************************)

\* Whatever is returned, also with an error, is what ZenPool expects of a
\* configuration: keys and auth IDs are distinct, and an account without an
\* auth ID, of a disabled provider, is disabled.
AccountsAreDistinct ==
    \A i, j \in 1..Len(accounts) :
        /\ accounts[i].AuthID = NoID => accounts[i].Disabled
        /\ i # j => /\ accounts[i].Fingerprint # accounts[j].Fingerprint
                    /\ \/ accounts[i].AuthID # accounts[j].AuthID
                       \/ accounts[i].AuthID = NoID

\* The entries, or their absence, for which the host issues an ID, and that ID
\* without its number.
Issues(i) ==
    LET p == providers[i]
    IN  IF p.off THEN {} ELSE IF p.entries = <<>> THEN {1} ELSE 1..Len(p.entries)

HostID(i, j) ==
    LET p == providers[i]
    IN  <<ProviderName(p),
          IF p.entries = <<>> THEN EmptyDigest
          ELSE Digest(p.entries[j].key, p.entries[j].proxy)>>

\* What the host has issued before provider i, and before its entry j.
Before(i) == UNION {{k} \X Issues(k) : k \in 1..(i - 1)}
Earlier(i, j) == Before(i) \cup ({i} \X {m \in Issues(i) : m < j})

HostNumber(i, j) ==
    Cardinality({e \in Earlier(i, j) : HostID(e[1], e[2]) = HostID(i, j)})

\* Each account has the auth ID that the host gives to its entry: the same
\* digest, numbered by the entries before it that share it, also when digests
\* collide and with other providers around.
AuthIDsMatchHost ==
    \A i \in 1..Len(providers) :
        /\ IsManaged(providers[i]) /\ ~providers[i].off
        /\ \A k \in 1..(i - 1) : ~IsManaged(providers[k])
        =>
           \A j \in 1..Len(accounts) :
              accounts[j].AuthID = [kind |-> HostID(i, j)[1],
                                    digest |-> HostID(i, j)[2],
                                    n |-> HostNumber(i, j)]

\* A configuration that is accepted has the keys of the one provider with the
\* configured name, all of them and in order, and those of no other; an
\* account is disabled exactly if its provider or its label is.
AcceptsWholeProvider ==
    LET zens == {i \in 1..Len(providers) : IsManaged(providers[i])}
    IN  result = "ok" =>
          /\ zens = {} => accounts = <<>>
          /\ \A i \in zens :
                LET p == providers[i]
                IN  /\ zens = {i} /\ Len(accounts) = Len(p.entries)
                    /\ \A j \in 1..Len(accounts) :
                          /\ accounts[j].Fingerprint = Fingerprint(p.entries[j].key)
                          /\ accounts[j].Disabled <=>
                               \/ p.off
                               \/ Fingerprint(p.entries[j].key) \in disabled
=============================================================================
