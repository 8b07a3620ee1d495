-------------------------------- MODULE MCShellRC --------------------------------
(* ShellRC on small instances.                                               *)
EXTENDS ShellRC, TLC

CONSTANTS p1, p2, x, y

\* No file, an empty one, and one that ends in the middle of a line.
MCFirstFiles == {Missing, <<>>, <<x>>}
Sym == Permutations(Procs)
===============================================================================
