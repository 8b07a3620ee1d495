---------------------------- MODULE MCInstallImage ----------------------------
(* InstallImage on small instances.                                          *)
EXTENDS InstallImage

CONSTANTS d1, d2, cg, open, edited   \* edited: a registry with a broken policy

MCPolicyOf == [r \in Registries |->
    IF r = open THEN "none" ELSE IF r = cg THEN "usable" ELSE "broken"]

Sig(f, d, p, g) == [form |-> f, about |-> d, parts |-> p, genuine |-> g]

\* Signatures over d1, attached to it or to the other digest: genuine ones of
\* each format, a forged one before a genuine one, an incomplete one, one that
\* cannot be decoded, one that is no bundle; and a layer without annotation.
MCSidecarLists == {
    <<>>,
    <<Sig("none", d1, FALSE, FALSE), Sig("legacy", d1, TRUE, TRUE)>>,
    <<Sig("legacy", d1, TRUE, FALSE), Sig("modern", d1, FALSE, TRUE)>>,
    <<Sig("legacy", d1, FALSE, TRUE)>>,
    <<Sig("junk", d1, FALSE, FALSE)>>}

MCReferrerLists == {
    <<>>,
    <<Sig("junk", d1, FALSE, FALSE), Sig("modern", d1, FALSE, TRUE)>>,
    <<Sig("legacy", d1, TRUE, TRUE), Sig("modern", d1, FALSE, TRUE)>>}

Item(t, p, to) == [type |-> t, path |-> p, to |-> to]

\* d1: /lib links to /usr/lib, and files come under both names.  d2: a hard
\* link and a device.
MCContentOf == [i \in Images |->
    IF i = d1
    THEN {Item("dir", <<"usr", "lib">>, <<>>), Item("symlink", <<"lib">>, <<"usr", "lib">>),
          Item("file", <<"lib", "y">>, <<>>), Item("file", <<"usr", "lib", "x">>, <<>>)}
    ELSE {Item("file", <<"bin", "a">>, <<>>), Item("hardlink", <<"b">>, <<"bin", "a">>),
          Item("device", <<"dev", "null">>, <<>>)}]

MCDeclaredOf == [i \in Images |-> IF i = d1 THEN "linux/amd64" ELSE "linux/arm64"]

\* An index whose first entries are an attestation and another platform; an
\* image for another host alone; an index of that one, whose configuration does
\* not agree with the entry.
MCTargets == {
    [kind |-> "index", entries |-> <<[platform |-> "unknown/unknown", image |-> d2],
                                     [platform |-> "linux/arm64", image |-> d2],
                                     [platform |-> "linux/amd64", image |-> d1]>>],
    [kind |-> "image", image |-> d2],
    [kind |-> "index", entries |-> <<[platform |-> "linux/amd64", image |-> d2]>>]}

Layer(e, t) == [envelope |-> e, type |-> t, packages |-> 0, graph |-> 0, components |-> 0,
                builder |-> "", build |-> "", run |-> "", results |-> <<>>, flat |-> <<>>,
                finished |-> 0, started |-> 0]

\* A good SBOM before one that does not parse, and a scan with flat results;
\* provenance in an envelope that is junk, and without any field.
MCAttestationLists == {
    <<>>,
    <<[Layer("dsse", "spdx") EXCEPT !.graph = 2], Layer("dsse", "cyclonedx"),
      [Layer("plain", "vuln") EXCEPT !.flat = <<"high", "negligible", "unknown">>]>>,
    <<[Layer("junk", "slsa v1") EXCEPT !.run = "7"], Layer("dsse", "slsa v0.2")>>}
===============================================================================
