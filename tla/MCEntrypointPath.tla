--------------------------- MODULE MCEntrypointPath ---------------------------
(* EntrypointPath on small images: /bin and /lib real directories or links   *)
(* to /usr, a tool jq, its loader ld.                                         *)
EXTENDS EntrypointPath, TLC

File(f, a, i) == [kind |-> "file", format |-> f, arch |-> a, interp |-> i]
Link(a, t)    == [kind |-> "link", abs |-> a, to |-> t]
Absent        == [kind |-> "absent"]

Ld == <<"lib", "ld">>

Binaries == {File("elf", "amd64", None), File("elf", "amd64", Ld)}
Unusable == {File("elf", "arm64", None), File("mach-o", "amd64", None), File("script", "amd64", None)}

\* /bin: a directory, or a link to /usr/bin.
BinNodes == {Directory, Link(FALSE, <<"usr", "bin">>), Link(TRUE, <<"usr", "bin">>)}

\* /usr/bin/jq: the binary, or a link: absolute, relative, to itself, through
\* another directory, above the root.
UsrBinJqs == Binaries \cup {Absent, Link(TRUE, <<"usr", "lib", "jq">>), Link(FALSE, <<"..", "lib", "jq">>),
    Link(FALSE, <<"jq">>), Link(TRUE, <<"bin", "jq">>), Link(FALSE, <<"..", "..", "..", "usr", "lib", "jq">>)}

\* /usr/lib/jq: anything, or one link more than MaxHops allows.
UsrLibJqs == Binaries \cup Unusable \cup {Absent, Directory, Link(FALSE, <<"..", "bin", "jq">>), Link(FALSE, <<"ld2">>)}

\* /lib: a directory, absent, or a link to /usr/lib.
LibNodes == {Directory, Link(FALSE, <<"usr", "lib">>), Link(TRUE, <<"usr", "lib">>)}

\* /usr/lib/ld and /lib/ld: the loader or a link to it.
Lds == {Absent, File("elf", "amd64", None), Link(FALSE, <<"ld2">>), Link(TRUE, <<"usr", "lib", "ld2">>)}

Image(bin, ubjq, uljq, lib, ld) ==
    LET all == [p \in {<<>>, <<"usr">>, <<"usr", "bin">>, <<"usr", "lib">>} |-> Directory]
               @@ <<"bin">> :> bin
               @@ (IF bin.kind = "dir" THEN <<"bin", "jq">> :> Link(FALSE, <<"..", "usr", "bin", "jq">>) ELSE <<>>)
               @@ <<"usr", "bin", "jq">> :> ubjq
               @@ <<"usr", "lib", "jq">> :> uljq
               @@ <<"usr", "lib", "ld2">> :> File("elf", "amd64", None)
               @@ <<"lib">> :> lib
               @@ (IF lib.kind = "dir" THEN <<"lib", "ld">> :> ld ELSE <<"usr", "lib", "ld">> :> ld)
    IN [p \in {q \in DOMAIN all : all[q].kind # "absent"} |-> all[p]]

\* Everything an entrypoint can be, with a plain loader; and every loader, for
\* a binary that needs one.
Dynamic  == File("elf", "amd64", Ld)
MCImages == {Image(b, u, l, Directory, File("elf", "amd64", None)) :
                b \in BinNodes, u \in UsrBinJqs, l \in UsrLibJqs}
            \cup {Image(b, Dynamic, Absent, li, ld) : b \in BinNodes, li \in LibNodes, ld \in Lds}

MCEntrypoints == {<<>>, <<"bin", "jq">>, <<"usr", "bin", "jq">>}
MCHostDirs    == {<<>>, <<"tmp">>, <<"home">>, <<"usr">>, <<"usr", "lib">>, <<"usr", "bin">>}
MCHostFiles   == {<<"usr", "lib", "ld2">>, <<"usr", "bin", "jq">>}
MCStaging     == <<"tmp", "staging">>
MCPackage     == <<"home", "package">>
===============================================================================
