------------------------------ MODULE InstallImage ------------------------------
(***************************************************************************)
(* InstallPackage up to the store: PullImage, then ImageVerification of the *)
(* digest that was pulled, then the attestations, then the hand-over of the *)
(* staging directory with a record of what it is.  The tag moves and        *)
(* signatures change between any two calls.  PackageStore has the steps of  *)
(* the hand-over.                                                           *)
(*                                                                          *)
(* One dz process installs one image after the other, as dz update does.    *)
(* A staging directory left behind by a kill is never looked at again.      *)
(***************************************************************************)
EXTENDS ImageVerification, PullImage, Attestations

CONSTANTS
    AttestationLists,   \* layers the .att tag of an image may have
    MaxLayers,          \* bound: how many
    MaxUpstream         \* bound: moves and changes together

ASSUME InstallAssumption ==
    /\ Images = Digests
    /\ <<>> \in AttestationLists
    /\ \A l \in AttestationLists : l \in Seq(AttestationLayer) /\ Len(l) <= MaxLayers

VARIABLES
    phase,      \* where InstallPackage is
    job,        \* the registry of the reference
    listed,     \* attestation layers; None for one that could not be read
    installed,  \* what this call of InstallPackage installed; None if nothing
    cut         \* history: it installed nothing because of a kill or a
                \* failure in the store

installVars == <<vars, pullVars, phase, job, listed, installed, cut>>

AnyRegistry == CHOOSE r \in Registries : TRUE

InstallInit ==
    /\ Init /\ PullInit
    /\ phase = "idle" /\ job = AnyRegistry /\ listed = <<>>
    /\ installed = None /\ cut = FALSE
-------------------------------------------------------------------------------
\* InstallPackage with a resolved reference.
StartInstall ==
    /\ phase = "idle" /\ phase' = "pull"
    /\ job' \in Registries
    /\ installed' = None /\ cut' = FALSE
    /\ NextImage /\ StartPull
    /\ UNCHANGED listed

Pull ==
    /\ phase = "pull"
    /\ FetchDescriptor \/ Extract \/ (faults < MaxFaults /\ PullBreaks)
    /\ phase' = CASE step' = "pulled" -> "verify"
                  [] step' = "failed" -> "return"
                  [] OTHER -> "pull"
    /\ UNCHANGED <<vars, job, listed, installed, cut>>

\* Mutant: the signature is looked up for what the tag names now.
BeginVerifyTag ==
    /\ phase = "verify" /\ pc = "idle"
    /\ PolicyOf[job] # "none"
    /\ BeginVerification
    /\ req'.reg = job /\ req'.dig = ForHost(served)
    /\ UNCHANGED <<pullVars, phase, job, listed, installed, cut>>

\* verifyImage, under a policy: the signature of the digest that was pulled.
BeginVerify ==
    /\ phase = "verify" /\ pc = "idle"
    /\ PolicyOf[job] # "none"
    /\ BeginVerification
    /\ req'.reg = job /\ req'.dig = image
    /\ UNCHANGED <<pullVars, phase, job, listed, installed, cut>>

\* verifyImage without one: let through or refused, as --allow-unsigned says.
SkipVerify ==
    /\ phase = "verify" /\ pc = "idle"
    /\ PolicyOf[job] = "none"
    /\ \/ /\ InstallUnsigned
          /\ outcome' = Outcome(job, image, FALSE)
          /\ phase' = "build"
       \/ UNCHANGED vars /\ phase' = "return"
    /\ UNCHANGED <<pullVars, job, listed, installed, cut>>

\* A step of verifyImage; when it returns the image is let through or refused.
VerifyStep ==
    /\ phase = "verify" /\ pc # "idle"
    /\ \/ FetchSidecar \/ ReadPayload \/ FetchReferrers \/ ReadEntry \/ CallFails
       \/ Convert \/ ensureLoaded \/ Verify
    /\ phase' = IF pc' # "idle" THEN "verify"
                ELSE IF outcome' # Refused THEN "attest" ELSE "return"
    /\ UNCHANGED <<pullVars, job, listed, installed, cut>>

\* Mutant: no attestations, no installation.
FetchAttestationsOrReturn ==
    /\ phase = "attest"
    /\ \E layers \in AttestationLists, readable \in SUBSET (1..MaxLayers) :
          LET read == Fetched(layers, readable) IN
          /\ listed' = read
          /\ phase' = IF \E i \in DOMAIN read : IsStatement(read[i]) THEN "build" ELSE "return"
    /\ UNCHANGED <<vars, pullVars, job, installed, cut>>

\* FetchAttestations: a layer that cannot be read is passed over, and any
\* other error, or no tag at all, is no attestation.
FetchAttestations ==
    /\ phase = "attest" /\ phase' = "build"
    /\ \E layers \in AttestationLists, readable \in SUBSET (1..MaxLayers) :
          listed' = Fetched(layers, readable)
    /\ UNCHANGED <<vars, pullVars, job, installed, cut>>

\* shim.Build moves the staging directory, and StoreMetadata records it.
HandOver ==
    /\ phase = "build" /\ phase' = "idle"
    /\ installed' = [reg |-> job, digest |-> image, verified |-> outcome.verified,
                     rootfs |-> staging,
                     attestations |-> SummarizeAttestations(listed)]
    /\ ReturnStaging
    /\ listed' = <<>> /\ job' = AnyRegistry
    /\ UNCHANGED <<vars, cut>>

\* Build or the store fails.
HandOverFails ==
    /\ phase = "build" /\ phase' = "return"
    /\ cut' = TRUE
    /\ UNCHANGED <<vars, pullVars, job, listed, installed>>

\* An error is returned; the process may go on with the next image.
ReturnError ==
    /\ phase = "return" /\ phase' = "idle"
    /\ ReturnStaging
    /\ listed' = <<>> /\ job' = AnyRegistry
    /\ UNCHANGED <<vars, installed, cut>>

\* The process ends, killed or not, and the next one starts.
EndProcess ==
    /\ Restart
    /\ ReturnStaging
    /\ phase' = "idle" /\ listed' = <<>> /\ job' = AnyRegistry
    /\ installed' = None /\ cut' = TRUE

\* The registry.
Upstream ==
    /\ moves + changes < MaxUpstream
    /\ \/ MoveTag /\ UNCHANGED vars
       \/ \E d \in Digests : Publish(d) /\ UNCHANGED pullVars
    /\ UNCHANGED <<phase, job, listed, installed, cut>>

Continue ==
    \/ Pull \/ BeginVerify \/ SkipVerify \/ VerifyStep
    \/ FetchAttestations \/ HandOver \/ HandOverFails \/ ReturnError

InstallNext == StartInstall \/ Continue \/ EndProcess \/ Upstream

InstallSpec == InstallInit /\ [][InstallNext]_installVars /\ WF_installVars(Continue)
-------------------------------------------------------------------------------
\* Properties

\* What is handed over is what was verified: the files of the recorded digest,
\* whole; a digest that the tag named for this host while it was installed;
\* and under a policy one with a convincing signature in the registry
\* meanwhile, however the tag moves between the pull and the verification.
InstalledIsVerified ==
    [][installed' \notin {installed, None} =>
        /\ installed'.rootfs = Tree(installed'.digest)
        /\ installed'.digest \in named
        /\ IF PolicyOf[installed'.reg] = "none" THEN ~installed'.verified
           ELSE installed'.verified /\ installed'.digest \in offered]_installVars

\* The record shows an attestation of a kind exactly when one of that kind
\* could be read and summarized, whatever the others are like, and shows what
\* it says; an image that was not verified has none (SummarizeAttestations:
\* "a malformed SBOM doesn't suppress the provenance summary").
AttestationsReported ==
    [][installed' \notin {installed, None} =>
        \A place \in DOMAIN NoAttestations :
           LET shown == installed'.attestations[place]
               read == {listed[i] : i \in DOMAIN listed} \ {None}
               said == {Summary(l) : l \in {m \in read : /\ m.envelope # "junk"
                                                         /\ Place(m) = place}} \ {None}
           IN IF said = {} \/ ~installed'.verified THEN shown = None
              ELSE shown \in said]_installVars

\* Attestations are best effort: whatever their registry answers, an image that
\* was let through gets installed, unless the process is killed or the store
\* fails (InstallPackage: "Failure here never blocks the install").
AcceptedInstalls == phase = "attest" ~> cut \/ installed # None
===============================================================================
