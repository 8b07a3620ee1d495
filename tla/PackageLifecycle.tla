---------------------------- MODULE PackageLifecycle ----------------------------
(***************************************************************************)
(* What the package store promises a user: each name has at most one active *)
(* version; an install replaces it in one step by another admissible one;   *)
(* and only a removal the user asked for takes a version away without       *)
(* putting another in its place.  No state shows half a version.            *)
(***************************************************************************)
CONSTANTS Names,       \* package names
          Digests,     \* versions
          Allowed,     \* the versions verification lets in
          None         \* no active version

VARIABLES active,      \* active[n]: the version of n that can run
          removing     \* names under removal

vars == <<active, removing>>

Init ==
    /\ active = [n \in Names |-> None]
    /\ removing = {}

Publish(n, d) ==
    /\ n \notin removing
    /\ d \in Allowed /\ d # active[n]
    /\ active' = [active EXCEPT ![n] = d]
    /\ UNCHANGED removing

BeginRemove(n) ==
    /\ n \notin removing
    /\ removing' = removing \cup {n}
    /\ UNCHANGED active

Withdraw(n) ==
    /\ n \in removing
    /\ active[n] # None
    /\ active' = [active EXCEPT ![n] = None]
    /\ UNCHANGED removing

\* The removal ends: done, or cut short with the version still active.
EndRemove(n) ==
    /\ n \in removing
    /\ removing' = removing \ {n}
    /\ UNCHANGED active

Next ==
    \E n \in Names :
        \/ \E d \in Digests : Publish(n, d)
        \/ BeginRemove(n) \/ Withdraw(n) \/ EndRemove(n)

Spec == Init /\ [][Next]_vars
===============================================================================
