---------------------------- MODULE AtomicStore ----------------------------
(***************************************************************************)
(* What the pool relies on when it keeps its state in a file: one process  *)
(* at a time owns the file, a save replaces it in one step, and what an    *)
(* acknowledged save wrote is never lost, whoever dies and whatever fails. *)
(*                                                                         *)
(* A state is represented by the set of changes that went into it.         *)
(***************************************************************************)
EXTENDS FiniteSets

CONSTANTS Procs, Changes, NoOwner

VARIABLES
    owner,  \* the process that has the file, or NoOwner
    mem,    \* each process's state in memory
    file,   \* the state a reader of the file finds
    acked   \* what saves that returned without an error have written

vars == <<owner, mem, file, acked>>

Empty == [p \in Procs |-> {}]

Init == owner = NoOwner /\ mem = Empty /\ file = {} /\ acked = {}

Open(p) ==
    /\ owner = NoOwner
    /\ owner' = p /\ mem' = [mem EXCEPT ![p] = file]
    /\ UNCHANGED <<file, acked>>

Change(p, cs) ==
    /\ owner = p
    /\ mem' = [mem EXCEPT ![p] = @ \cup cs]
    /\ UNCHANGED <<owner, file, acked>>

Publish(p) ==
    /\ owner = p
    /\ file' = mem[p]
    /\ UNCHANGED <<owner, mem, acked>>

Acknowledge(p) ==
    /\ owner = p /\ file = mem[p]
    /\ acked' = file
    /\ UNCHANGED <<owner, mem, file>>

Leave(p) ==
    /\ owner = p
    /\ owner' = NoOwner /\ mem' = [mem EXCEPT ![p] = {}]
    /\ UNCHANGED <<file, acked>>

\* Power is lost: what was published and not acknowledged may be gone.
Lose ==
    /\ owner' = NoOwner /\ mem' = Empty
    /\ file' \in SUBSET file /\ acked \subseteq file'
    /\ UNCHANGED acked

Next ==
    \/ \E p \in Procs : \/ Open(p) \/ Publish(p) \/ Acknowledge(p) \/ Leave(p)
                        \/ \E cs \in SUBSET Changes : Change(p, cs)
    \/ Lose

Spec == Init /\ [][Next]_vars
=============================================================================
