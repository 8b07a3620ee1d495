--------------------------- MODULE MCRegistryConfig ---------------------------
(* RegistryConfig on small instances.                                        *)
EXTENDS RegistryConfig, TLC

CONSTANTS cg, corp,           \* registries; cg is chainguard
          gh, cgRegex

MCSeedPolicy == [issuer |-> gh, regex |-> cgRegex]

\* "github" needs a regex, "chainguard" is complete.
MCTemplatePolicy == [t \in Templates |->
    [issuer |-> gh, regex |-> IF t = "chainguard" THEN cgRegex ELSE None]]

Flag(t, i, x) == [template |-> t, issuer |-> i, regex |-> x]

\* No flag; a complete template; one that needs a regex, without it and with
\* it; an issuer alone; a regex that does not compile over a template.
MCFlags == {Flag(None, None, None), Flag("chainguard", None, None),
            Flag("github", None, None), Flag("github", None, cgRegex),
            Flag(None, gh, None), Flag("chainguard", None, BadRegex)}

\* Processes are interchangeable, and no liveness is checked.
MCSymmetry == Permutations(Procs)
===============================================================================
