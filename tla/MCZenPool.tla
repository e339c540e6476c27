----------------------------- MODULE MCZenPool -----------------------------
(***************************************************************************)
(* Small instances of ZenPool for TLC.                                     *)
(***************************************************************************)
EXTENDS ZenPool, TLC

CONSTANTS r1, r2

Entry(fp, auth, off) == [Fingerprint |-> fp, AuthID |-> auth, Disabled |-> off]

Config(accounts, dir) ==
    [Accounts |-> accounts, StateDir |-> dir,
     AuthSuspension |-> 2, RateFallback |-> 1, TransientFallback |-> 1]

\* Two keys in service, in order.
BothKeys == Config(<<Entry("a", "auth-a", FALSE), Entry("b", "auth-b", FALSE)>>,
                   "dir")

\* Three keys in service, the last behind the first two.
ThreeKeys == Config(<<Entry("a", "auth-a", FALSE), Entry("b", "auth-b", FALSE),
                      Entry("c", "auth-c", FALSE)>>, "dir")

Interchangeable == Permutations(Requests)

\* Key a disabled; key a behind another proxy; key a taken out; another
\* state directory.
ADisabled == Config(<<Entry("a", "auth-a", TRUE), Entry("b", "auth-b", FALSE)>>,
                    "dir")
AProxied == Config(<<Entry("a", "auth-a2", FALSE), Entry("b", "auth-b", FALSE)>>,
                   "dir")
OnlyB == Config(<<Entry("b", "auth-b", FALSE)>>, "dir")
Elsewhere == Config(<<Entry("b", "auth-b", FALSE)>>, "dir2")

CoreConfigs == {BothKeys}
ThreeConfigs == {ThreeKeys}
CrashConfigs == {BothKeys, OnlyB}
ReloadConfigs == {BothKeys, ADisabled, AProxied, Elsewhere}
DisableConfigs == {BothKeys, ADisabled}
=============================================================================
