---------------------------- MODULE DrainSwitch ----------------------------
(***************************************************************************)
(* What the pool promises to those who send requests and know nothing of   *)
(* files, restarts or reloads: one account serves until a failure of its   *)
(* own takes it out of service, and then one that may serve takes over.    *)
(***************************************************************************)
EXTENDS Integers

CONSTANTS
    Accounts,  \* the accounts in service
    None,      \* no account
    Requests   \* requests that may be under way

VARIABLES
    now,      \* the time
    serving,  \* the account that serves, or None
    until,    \* when the cooldown of each account ends
    paused,   \* when its rate limit ends
    out       \* the account each request under way was given, or None

vars == <<now, serving, until, paused, out>>

Available(a) == now >= until[a] /\ now >= paused[a]

\* Who may take over.
Successors == IF \E a \in Accounts : Available(a)
              THEN {a \in Accounts : Available(a)} ELSE {None}

Init ==
    /\ now = 1 /\ serving = None
    /\ until = [a \in Accounts |-> 0] /\ paused = [a \in Accounts |-> 0]
    /\ out = [r \in Requests |-> None]

Tick == now' = now + 1 /\ UNCHANGED <<serving, until, paused, out>>

\* An account takes over where there is none, before a request is given to it
\* or together with that.
Serve(a) ==
    /\ serving = None /\ Available(a)
    /\ serving' = a
    /\ UNCHANGED <<now, until, paused, out>>

HandOut(r, a) ==
    /\ out[r] = None /\ serving \in {a, None} /\ Available(a)
    /\ serving' = a /\ out' = [out EXCEPT ![r] = a]
    /\ UNCHANGED <<now, until, paused>>

\* A success, an outcome that does not count, or none at all.
Return(r) ==
    /\ out[r] # None
    /\ out' = [out EXCEPT ![r] = None]
    /\ UNCHANGED <<now, serving, until, paused>>

Lose == out' = [r \in Requests |-> None] /\ UNCHANGED <<now, serving, until, paused>>

\* A failure, which may be reported again: it never shortens a cooldown, and it
\* moves the pool if and only if it puts the serving account into one, even one
\* that has ended when it is reported.
Fail(r) ==
    LET a == out[r]
    IN  /\ a # None
        /\ until' = [until EXCEPT ![a] = until'[a]] /\ until'[a] >= until[a]
        /\ paused' = [paused EXCEPT ![a] = paused'[a]] /\ paused'[a] >= paused[a]
        /\ \/ serving' = serving /\ (serving = a => until' = until)
           \/ serving = a /\ serving' \in Successors'
        /\ out' \in {out, [out EXCEPT ![r] = None]}
        /\ UNCHANGED now

Resume(a) ==
    /\ until' = [until EXCEPT ![a] = 0] /\ paused' = [paused EXCEPT ![a] = 0]
    /\ UNCHANGED <<now, serving, out>>

Next ==
    \/ Tick \/ Lose
    \/ \E a \in Accounts : Serve(a) \/ Resume(a)
    \/ \E r \in Requests : \/ Return(r) \/ Fail(r)
                           \/ \E a \in Accounts : HandOut(r, a)

Spec == Init /\ [][Next]_vars
=============================================================================
