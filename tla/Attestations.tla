----------------------------- MODULE Attestations -----------------------------
(***************************************************************************)
(* What dz shows of the attestations of an image: the layers of the tag    *)
(* sha256-<hex>.att are DSSE envelopes around in-toto statements, each is  *)
(* summarized by its type, and the summaries of the three kinds that have  *)
(* a place in the metadata are kept.                                       *)
(*                                                                         *)
(* A layer holds what the code reads of it, missing parts being zero,      *)
(* empty or None: a predicate that does not parse has them all missing.    *)
(***************************************************************************)
EXTENDS Integers, SequencesExt

CONSTANT None

Envelopes == {"dsse", "plain", "junk"}  \* payload in base64, bare, or no JSON
Types == {"spdx", "cyclonedx", "slsa v1", "slsa v0.2", "vuln", "other", ""}
Severities == {"critical", "high", "medium", "low", "negligible", "unknown"}

AttestationLayer ==
    [envelope: Envelopes, type: Types,
     packages: Nat, graph: Nat, components: Nat,        \* of the SBOM formats
     builder: STRING, build: STRING, run: STRING,       \* of SLSA provenance
     results: Seq(Severities), flat: Seq(Severities),   \* of a scan
     finished: Nat, started: Nat]                       \* of a scan; 0 if missing
-------------------------------------------------------------------------------
\* What is read of the layers when only those at the given positions can be.
Fetched(layers, readable) ==
    [i \in 1..Len(layers) |-> IF i \in readable THEN layers[i] ELSE None]

\* DecodeDSSE and the test on its result: is the layer a statement?
IsStatement(l) == l # None /\ l.envelope # "junk" /\ l.type # ""

\* summarizeSPDX: version 2 lists packages, version 3 a graph.
summarizeSPDX(l) ==
    LET count == IF l.packages # 0 THEN l.packages ELSE l.graph
    IN IF count = 0 THEN None ELSE [format |-> "spdx", count |-> count]

summarizeCycloneDX(l) ==
    IF l.components = 0 THEN None
    ELSE [format |-> "cyclonedx", count |-> l.components]

\* summarizeProvenance: version 0.2 has no invocation id.
summarizeProvenance(l) ==
    LET p == [builder |-> l.builder, build |-> l.build,
              run |-> IF l.type = "slsa v1" THEN l.run ELSE ""]
    IN IF p = [builder |-> "", build |-> "", run |-> ""] THEN None ELSE p

\* summarizeVuln: nested results, or flat ones, by severity.
summarizeVuln(l) ==
    LET vulns == IF l.results # <<>> THEN l.results ELSE l.flat
        count(S) == Len(SelectSeq(vulns, LAMBDA v : v \in S))
        v == [critical |-> count({"critical"}), high |-> count({"high"}),
              medium |-> count({"medium"}), low |-> count({"low", "negligible"}),
              at |-> IF l.finished # 0 THEN l.finished ELSE l.started]
    IN IF \A f \in DOMAIN v : v[f] = 0 THEN None ELSE v

NoAttestations == [sbom |-> None, provenance |-> None, vuln |-> None]

\* Where the summary of a statement goes, and the summary.
Place(l) ==
    CASE l.type \in {"spdx", "cyclonedx"} -> "sbom"
      [] l.type \in {"slsa v1", "slsa v0.2"} -> "provenance"
      [] l.type = "vuln" -> "vuln"
      [] OTHER -> None

Summary(l) ==
    CASE l.type = "spdx" -> summarizeSPDX(l)
      [] l.type = "cyclonedx" -> summarizeCycloneDX(l)
      [] l.type \in {"slsa v1", "slsa v0.2"} -> summarizeProvenance(l)
      [] l.type = "vuln" -> summarizeVuln(l)
      [] OTHER -> None

\* Mutant: a statement that yields nothing clears what another gave.
AddSummaryOver(out, l) ==
    IF IsStatement(l) /\ Place(l) # None THEN [out EXCEPT ![Place(l)] = Summary(l)] ELSE out

\* One more layer: its summary, if it has one, takes the place of an earlier one.
AddSummary(out, l) ==
    IF IsStatement(l) /\ Summary(l) # None THEN [out EXCEPT ![Place(l)] = Summary(l)] ELSE out

\* SummarizeAttestations of the layers that are statements.
SummarizeAttestations(layers) == FoldLeft(AddSummary, NoAttestations, layers)
===============================================================================
