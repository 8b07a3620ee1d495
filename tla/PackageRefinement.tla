--------------------------- MODULE PackageRefinement ---------------------------
(***************************************************************************)
(* PackageStore implements PackageLifecycle: the active version is the one  *)
(* current leads to, when its directory is complete, and a name is being    *)
(* removed while RemoveAll works on it.                                     *)
(***************************************************************************)
EXTENDS PackageStore

activeVersion ==
    [n \in Names |-> IF link[n] # NoLink /\ Complete(n, link[n])
                     THEN link[n] ELSE NoLink]

underRemoval == {job[p].name : p \in {q \in Procs : pc[q] = "wipe"}}

Lifecycle == INSTANCE PackageLifecycle WITH
    active <- activeVersion,
    removing <- underRemoval,
    Allowed <- {d \in Digests : Admissible(d)},
    None <- NoLink

\* One dz process, crashed anywhere, as long as nothing is rolled back and the
\* active digest is not installed again: versions change in one step, and only
\* a removal takes one away.
ImplementsLifecycle == Lifecycle!Spec
===============================================================================
