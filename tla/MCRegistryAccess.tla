---------------------------- MODULE MCRegistryAccess ----------------------------
(* RegistryAccess on small instances.                                        *)
EXTENDS RegistryAccess, TLC

CONSTANTS p1, p2, alice, n1

\* The Docker hub by both its names, with a repository that may have credentials
\* of its own, and a host that docker login knows.
MCKeys == {HostKey("docker.io"), HostKey("index.docker.io"),
           [host |-> "index.docker.io", path |-> "a"]}
MCResources == {[host |-> "docker.io", path |-> "a"], [host |-> "docker.io", path |-> "b"],
                [host |-> "h1", path |-> "a"]}
MCDockerOf == [h \in Hosts |-> IF h = "h1" THEN alice ELSE NoUser]
MCAccepts == [h \in Hosts |-> IF h = "h1" THEN {alice} ELSE {NoUser, alice}]
MCURLs == {[host |-> "h1", namespace |-> ""], [host |-> "docker.io", namespace |-> "n"]}
Sym == Permutations(Procs)
===============================================================================
