--------------------------- MODULE ImageVerification ---------------------------
(***************************************************************************)
(* verifyImage: what decides whether an image may be installed.  A dz       *)
(* process looks for a signature in two places of the registry, converts    *)
(* the two formats it may have, loads the Sigstore trusted root once, and   *)
(* verifies.  The registry changes between the calls, and each call may     *)
(* fail.  A process may verify several images (dz update).                  *)
(*                                                                          *)
(* Processes share nothing but the registry, so there is one.  Blobs are    *)
(* addressed by digest: once a manifest or an index is read, what it lists  *)
(* can disappear but not change.                                            *)
(***************************************************************************)
EXTENDS Naturals, Sequences

CONSTANTS
    Digests,        \* platform digests of images
    Registries,     \* their registries
    PolicyOf,       \* "none", "usable", or "broken": incomplete, no regex
    SidecarLists,   \* layer lists a sidecar manifest may have
    ReferrerLists,  \* entry lists the referrers index may have
    MaxChanges,     \* bound: signatures published, replaced or deleted
    MaxFaults       \* bound: failed calls

\* The signature formats, as the code tells them apart: no bundle annotation
\* or another artifact type; not JSON; JSON that is no bundle; a Sigstore
\* bundle; the annotations of a cosign legacy signature.
Forms == {"none", "junk", "unparsable", "modern", "legacy"}

\* about: the digest the signature is over.  parts: a legacy signature has
\* its signature, certificate and payload.  genuine: made by the identity the
\* policies pin and recorded in the transparency log.
Signature == [form: Forms, about: Digests, parts: BOOLEAN, genuine: BOOLEAN]

ASSUME VerificationAssumption ==
    /\ Digests # {} /\ Registries # {}
    /\ PolicyOf \in [Registries -> {"none", "usable", "broken"}]
    /\ SidecarLists \subseteq Seq(Signature)
    /\ ReferrerLists \subseteq Seq(Signature)
    /\ <<>> \in SidecarLists \cap ReferrerLists
    /\ MaxChanges \in Nat /\ MaxFaults \in Nat

VARIABLES
    sidecar,    \* sidecar[d]: layers at tag sha256-<d>.sig; none if no tag
    referrers,  \* referrers[d]: what the referrers API lists for d
    pc,
    req,        \* the image under verification
    rest,       \* referrers still to look at
    found,      \* the SignatureBundle
    root,       \* the trusted root of this process: sync.Once
    outcome,    \* history: the image let through by this process, if the last was
    offered,    \* history: digests with a genuine signature in the registry
                \* at some time since the verification began
    steady,     \* history: no change and no fault since it began
    changes, faults

registry == <<sidecar, referrers>>
vars == <<registry, pc, req, rest, found, root, outcome, offered, steady,
          changes, faults>>

-------------------------------------------------------------------------------
AnyDigest == CHOOSE d \in Digests : TRUE
NoBundle  == [form |-> "none", about |-> AnyDigest, parts |-> FALSE, genuine |-> FALSE]
Requests  == [reg: Registries, dig: Digests]
NoRequest == [reg |-> CHOOSE r \in Registries : TRUE, dig |-> AnyDigest]

Refused   == [verified |-> FALSE]
Outcome(r, d, v) == [reg |-> r, dig |-> d, verified |-> v]

PCs == {"idle", "sidecar", "payload", "referrers", "entries", "convert", "load", "check"}

TypeOK ==
    /\ sidecar \in [Digests -> SidecarLists]
    /\ referrers \in [Digests -> ReferrerLists]
    /\ pc \in PCs
    /\ req \in Requests
    /\ rest \in Seq(Signature)
    /\ found \in Signature
    /\ root \in {"unloaded", "loaded", "failed"}
    /\ outcome \in {Refused} \cup [reg: Registries, dig: Digests, verified: BOOLEAN]
    /\ offered \subseteq Digests
    /\ steady \in BOOLEAN
    /\ changes \in Nat
    /\ faults \in Nat

\* A signature that would convince a reader: whole, genuine, and over d.
Convincing(b, d) ==
    /\ b.genuine /\ b.about = d
    /\ b.form = "modern" \/ (b.form = "legacy" /\ b.parts)

\* The digests with a convincing signature somewhere in the registry.
Signed == {d \in Digests :
    \/ \E i \in 1..Len(sidecar[d]) : Convincing(sidecar[d][i], d)
    \/ \E i \in 1..Len(referrers[d]) : Convincing(referrers[d][i], d)}

\* Positions of the layers with a bundle annotation.
Annotated(layers) == {i \in 1..Len(layers) : layers[i].form # "none"}

Init ==
    /\ sidecar \in [Digests -> SidecarLists]
    /\ referrers \in [Digests -> ReferrerLists]
    /\ pc = "idle" /\ req = NoRequest /\ rest = <<>> /\ found = NoBundle
    /\ root = "unloaded"
    /\ outcome = Refused /\ offered = {} /\ steady = TRUE
    /\ changes = 0 /\ faults = 0

Goto(l) == pc' = l /\ UNCHANGED <<req, root, outcome>>

Return == pc' = "idle" /\ req' = NoRequest /\ rest' = <<>> /\ found' = NoBundle

\* verifyImage returns an error: the image is not installed.
Refuse == Return /\ UNCHANGED <<root, outcome>>

Accept ==
    /\ outcome' = Outcome(req.reg, req.dig, TRUE)
    /\ Return
    /\ UNCHANGED root

NoFault == UNCHANGED <<registry, offered, steady, changes, faults>>
OneFault ==
    /\ faults < MaxFaults /\ faults' = faults + 1
    /\ steady' = FALSE
    /\ UNCHANGED <<registry, offered, changes>>

-------------------------------------------------------------------------------
\* verifyImage and FetchBundle

\* No policy and --allow-unsigned: let through.  Without the flag it is
\* refused and nothing changes.
InstallUnsigned ==
    /\ pc = "idle"
    /\ \E r \in Registries, d \in Digests :
          /\ PolicyOf[r] = "none"
          /\ outcome' = Outcome(r, d, FALSE)
    /\ UNCHANGED <<registry, pc, req, rest, found, root, offered, steady, changes, faults>>

\* A policy: a signature is required, whatever the flag says.
BeginVerification ==
    /\ pc = "idle"
    /\ \E r \in Registries, d \in Digests :
          PolicyOf[r] # "none" /\ req' = [reg |-> r, dig |-> d]
    /\ pc' = "sidecar"
    /\ outcome' = Refused
    /\ offered' = Signed
    /\ steady' = TRUE
    /\ UNCHANGED <<registry, rest, found, root, changes, faults>>

\* Mutant: an image without a sidecar is refused at once.
FetchSidecarOnly ==
    /\ pc = "sidecar"
    /\ \/ Annotated(sidecar[req.dig]) = {} /\ Refuse
       \/ \E i \in Annotated(sidecar[req.dig]) :
            LET b == sidecar[req.dig][i] IN
            /\ \A j \in Annotated(sidecar[req.dig]) : i <= j
            /\ IF b.form = "junk" THEN Refuse
               ELSE /\ Goto(IF b.form = "legacy" THEN "payload" ELSE "convert")
                    /\ found' = b
                    /\ UNCHANGED rest
    /\ NoFault

\* fetchSidecarBundle: the first layer with a bundle annotation decides.  One
\* that cannot be decoded is an error; with none, the referrers are asked.
FetchSidecar ==
    /\ pc = "sidecar"
    /\ \/ /\ Annotated(sidecar[req.dig]) = {}
          /\ Goto("referrers")
          /\ UNCHANGED <<rest, found>>
       \/ \E i \in Annotated(sidecar[req.dig]) :
            LET b == sidecar[req.dig][i] IN
            /\ \A j \in Annotated(sidecar[req.dig]) : i <= j
            /\ IF b.form = "junk" THEN Refuse
               ELSE /\ Goto(IF b.form = "legacy" THEN "payload" ELSE "convert")
                    /\ found' = b
                    /\ UNCHANGED rest
    /\ NoFault

\* fetchSidecarBundle, legacy: the layer blob, and the check for what misses.
ReadPayload ==
    /\ pc = "payload"
    /\ IF found.parts THEN Goto("convert") /\ UNCHANGED <<rest, found>> ELSE Refuse
    /\ NoFault

\* fetchReferrersBundle: the index.
FetchReferrers ==
    /\ pc = "referrers"
    /\ rest' = referrers[req.dig]
    /\ Goto("entries")
    /\ UNCHANGED found
    /\ NoFault

\* fetchReferrersBundle, one entry.  The first whose blob is JSON is taken for
\* a Sigstore bundle; at the end there is no bundle, and the image is refused.
\* An entry that cannot be read is passed over.
ReadEntry ==
    /\ pc = "entries"
    /\ \/ rest = <<>> /\ Refuse /\ NoFault
       \/ /\ rest # <<>> /\ Head(rest).form \in {"none", "junk"}
          /\ rest' = Tail(rest)
          /\ Goto("entries")
          /\ UNCHANGED found
          /\ NoFault
       \/ /\ rest # <<>> /\ Head(rest).form \notin {"none", "junk"}
          /\ found' = IF Head(rest).form = "modern" THEN Head(rest)
                      ELSE [Head(rest) EXCEPT !.form = "unparsable"]
          /\ rest' = <<>>
          /\ Goto("convert")
          /\ NoFault
       \/ /\ rest # <<>>
          /\ rest' = Tail(rest)
          /\ Goto("entries")
          /\ UNCHANGED found
          /\ OneFault

\* A call to the registry fails otherwise: FetchBundle returns the error, and
\* does not go on to the referrers.
CallFails ==
    /\ pc \in {"sidecar", "payload", "referrers"}
    /\ Refuse
    /\ OneFault

-------------------------------------------------------------------------------
\* Verify and VerifyLegacy

\* Mutant: the payload is not compared with the digest.
buildLegacyBundleUnbound(b, d) == b.parts

\* buildLegacyBundle: the parts are there, and the signed payload names d.
buildLegacyBundle(b, d) == b.parts /\ b.about = d

\* Mutant: the parts are dropped when the bundle is built.
ConvertForgetsBundle ==
    /\ pc = "convert"
    /\ IF PolicyOf[req.reg] = "usable"
       THEN Goto("load") /\ found' = [form |-> found.form] /\ UNCHANGED rest
       ELSE Refuse
    /\ NoFault

\* Validate the policy, then parse the bundle, or build one of the parts.
Convert ==
    /\ pc = "convert"
    /\ IF /\ PolicyOf[req.reg] = "usable"
          /\ \/ found.form = "modern"
             \/ found.form = "legacy" /\ buildLegacyBundle(found, req.dig)
       THEN Goto("load") /\ UNCHANGED <<rest, found>>
       ELSE Refuse
    /\ NoFault

\* ensureLoaded, behind sync.Once: a failure stays for the process.
ensureLoaded ==
    /\ pc = "load"
    /\ \/ /\ root \in {"unloaded", "loaded"}
          /\ root' = "loaded" /\ pc' = "check"
          /\ UNCHANGED <<req, rest, found, outcome>>
          /\ NoFault
       \/ /\ root = "unloaded"
          /\ root' = "failed"
          /\ Return /\ UNCHANGED outcome
          /\ OneFault
       \/ root = "failed" /\ Refuse /\ NoFault

\* sigstore-go.  A modern bundle is verified over the image digest, a legacy
\* one over its payload, which Convert has tied to the digest.
Verify ==
    /\ pc = "check"
    /\ IF found.genuine /\ (found.form = "modern" => found.about = req.dig)
       THEN Accept
       ELSE Refuse
    /\ NoFault

\* The command goes on to its next image; the root stays loaded.
NextImage ==
    /\ pc = "idle"
    /\ outcome' = Refused /\ offered' = {} /\ steady' = TRUE
    /\ UNCHANGED <<registry, pc, req, rest, found, root, changes, faults>>

-------------------------------------------------------------------------------
\* The environment

\* Somebody signs, signs again, replaces or deletes a signature of d.
Publish(d) ==
    /\ changes < MaxChanges
    /\ changes' = changes + 1
    /\ \/ \E s \in SidecarLists :
            sidecar' = [sidecar EXCEPT ![d] = s] /\ UNCHANGED referrers
       \/ \E s \in ReferrerLists :
            referrers' = [referrers EXCEPT ![d] = s] /\ UNCHANGED sidecar
    /\ offered' = offered \cup Signed'
    /\ steady' = FALSE
    /\ UNCHANGED <<pc, req, rest, found, root, outcome, faults>>

\* The process ends, killed or not, and the next command starts.
Restart ==
    /\ Return
    /\ root' = "unloaded"
    /\ outcome' = Refused /\ offered' = {} /\ steady' = FALSE
    /\ UNCHANGED <<registry, changes, faults>>

Next ==
    \/ InstallUnsigned \/ BeginVerification
    \/ FetchSidecar \/ ReadPayload \/ FetchReferrers \/ ReadEntry \/ CallFails
    \/ Convert \/ ensureLoaded \/ Verify
    \/ NextImage \/ Restart
    \/ \E d \in Digests : Publish(d)

Spec == Init /\ [][Next]_vars
-------------------------------------------------------------------------------
\* Properties

\* Under a policy an image is let through only with a convincing signature
\* over exactly its digest, which the registry offered at some time while it
\* was verified, whatever formats, changes and failures come together; without
\* one nothing is recorded as verified (verifyImage, buildLegacyBundle).
GateSound ==
    outcome # Refused =>
        IF PolicyOf[outcome.reg] = "none" THEN ~outcome.verified
        ELSE /\ outcome.verified /\ PolicyOf[outcome.reg] = "usable"
             /\ outcome.dig \in offered

\* The signature the code looks at first, given the formats in the registry.
FirstBundle(d) ==
    LET s == Annotated(sidecar[d])
        JSON == {i \in 1..Len(referrers[d]) : referrers[d][i].form \notin {"none", "junk"}}
        first(S) == CHOOSE i \in S : \A j \in S : i <= j
    IN IF s # {} THEN sidecar[d][first(s)]
       ELSE IF JSON # {} THEN
            LET b == referrers[d][first(JSON)] IN
            IF b.form = "modern" THEN b ELSE NoBundle
       ELSE NoBundle

\* A refusal is never spurious: with a usable policy, when the signature looked
\* at first is convincing and neither the registry nor the network interferes,
\* the image is accepted, also after others in the same process (FetchBundle,
\* ensureLoaded).
NoSpuriousRefusal ==
    [][/\ pc # "idle" /\ pc' = "idle" /\ steady' /\ root # "failed"
       /\ PolicyOf[req.reg] = "usable"
       /\ Convincing(FirstBundle(req.dig), req.dig)
       => outcome' = Outcome(req.reg, req.dig, TRUE)]_vars
===============================================================================
