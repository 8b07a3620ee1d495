---------------------------- MODULE MCPackageStore ----------------------------
(* PackageStore on small instances.                                          *)
EXTENDS PackageRefinement, TLC

CONSTANTS d1, d2, d3,        \* digests
          signed, open,      \* a registry with a policy, one without
          a, b               \* dz processes

\* d1 is signed for the policy registry; d2 and d3 are not.
MCPasses == {<<signed, d1>>}

\* d1 and d2 signed.
MCPassesBoth == {<<signed, d1>>, <<signed, d2>>}

\* Every digest may have another entrypoint or loader.
MCLaunchPath == [d \in Digests |-> d]

MCFetchAll == [p \in Procs |-> Digests]

\* Two processes that install different digests.
MCFetchApart == [p \in Procs |-> IF p = a THEN {d1, d3} ELSE {d2}]
===============================================================================
