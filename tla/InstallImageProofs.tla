--------------------------- MODULE InstallImageProofs ---------------------------
(***************************************************************************)
(* The gate by itself first (ImageVerification): its type, that it is       *)
(* sound, and what it does not refuse, for every set of digests,            *)
(* registries, policies and signatures and any number of changes and        *)
(* failures.  Then InstallPackage, which goes through the gate and nothing   *)
(* else: every step of an installation is one of its steps or leaves it     *)
(* alone, so whatever is proved of the gate holds of the image that         *)
(* InstallPackage hands over.                                               *)
(***************************************************************************)
EXTENDS InstallImage, WellFoundedInduction, TLAPS

-------------------------------------------------------------------------------
\* The values of an idle process are well typed, and convince nobody.
LEMMA IdleValues ==
    /\ NoBundle \in Signature /\ NoRequest \in Requests
    /\ \A d \in Digests : ~Convincing(NoBundle, d)
BY VerificationAssumption
   DEF NoBundle, Signature, Forms, AnyDigest, NoRequest, Requests, Convincing

\* What the registry lists are signatures.
LEMMA ListedSignatures ==
    ASSUME TypeOK, NEW d \in Digests
    PROVE  /\ sidecar[d] \in Seq(Signature) /\ referrers[d] \in Seq(Signature)
           /\ \A i \in 1..Len(sidecar[d]) : sidecar[d][i] \in Signature
           /\ \A i \in 1..Len(referrers[d]) : referrers[d][i] \in Signature
<1>1. sidecar[d] \in Seq(Signature) /\ referrers[d] \in Seq(Signature)
  BY VerificationAssumption DEF TypeOK
<1>2. QED BY <1>1

\* The head and the tail of a list still to be read.
LEMMA RestSignatures ==
    ASSUME TypeOK, rest # <<>>
    PROVE  /\ Head(rest) \in Signature /\ Head(rest) = rest[1]
           /\ Tail(rest) \in Seq(Signature)
           /\ 1 \in 1..Len(rest)
           /\ \A i \in 1..Len(Tail(rest)) :
                 i + 1 \in 1..Len(rest) /\ Tail(rest)[i] = rest[i + 1]
<1>1. rest \in Seq(Signature) BY DEF TypeOK
<1>2. QED BY <1>1

\* Reading an entry as a Sigstore bundle keeps it a signature.
LEMMA ReadAsModern ==
    ASSUME NEW b \in Signature
    PROVE  [b EXCEPT !.form = "unparsable"] \in Signature
BY DEF Signature, Forms

\* What a failed call leaves behind.
LEMMA FaultValues ==
    ASSUME TypeOK, OneFault
    PROVE  /\ UNCHANGED <<sidecar, referrers, offered, changes>>
           /\ faults' \in Nat /\ steady' \in BOOLEAN
<1>1. faults' \in Nat BY DEF OneFault, TypeOK
<1>2. steady' \in BOOLEAN BY Zenon DEF OneFault
<1>3. UNCHANGED <<sidecar, referrers, offered, changes>> BY DEF OneFault, registry
<1>4. QED BY <1>1, <1>2, <1>3

\* Every step keeps the type.
LEMMA TypeNext == TypeOK /\ [Next]_vars => TypeOK'
<1> SUFFICES ASSUME TypeOK, [Next]_vars PROVE TypeOK'
  OBVIOUS
<1> USE VerificationAssumption
<1>1. CASE InstallUnsigned
  BY <1>1 DEF InstallUnsigned, TypeOK, Outcome, registry
<1>2. CASE BeginVerification
  BY <1>2 DEF BeginVerification, TypeOK, Requests, Signed, PCs, registry
<1>3. CASE FetchSidecar
  <2>0. req.dig \in Digests BY DEF TypeOK, Requests
  <2>1. CASE Annotated(sidecar[req.dig]) = {} /\ Goto("referrers") /\ UNCHANGED <<rest, found>> /\ NoFault
    BY <2>1 DEF Goto, NoFault, TypeOK, PCs, registry
  <2>2. ASSUME NEW i \in Annotated(sidecar[req.dig]),
               \/ Refuse
               \/ /\ \E l \in {"payload", "convert"} : Goto(l)
                  /\ found' = sidecar[req.dig][i]
                  /\ UNCHANGED rest,
               NoFault
        PROVE  TypeOK'
    <3>1. sidecar[req.dig][i] \in Signature
      BY <2>0, <2>2, ListedSignatures DEF Annotated
    <3>2. CASE Refuse
      BY <2>2, <3>2, IdleValues DEF Refuse, Return, NoFault, TypeOK, PCs, registry
    <3>3. CASE /\ \E l \in {"payload", "convert"} : Goto(l)
               /\ found' = sidecar[req.dig][i]
               /\ UNCHANGED rest
      BY <2>2, <3>1, <3>3 DEF Goto, NoFault, TypeOK, PCs, registry
    <3>4. QED BY <2>2, <3>2, <3>3
  <2>3. QED BY <1>3, <2>1, <2>2 DEF FetchSidecar
<1>4. CASE ReadPayload
  BY <1>4, IdleValues DEF ReadPayload, Goto, Refuse, Return, NoFault, TypeOK, PCs, registry
<1>5. CASE FetchReferrers
  <2>1. referrers[req.dig] \in Seq(Signature)
    BY ListedSignatures DEF TypeOK, Requests
  <2>2. QED BY <1>5, <2>1 DEF FetchReferrers, Goto, NoFault, TypeOK, PCs, registry
<1>6. CASE ReadEntry
  <2>1. CASE rest = <<>> /\ Refuse /\ NoFault
    BY <2>1, IdleValues DEF Refuse, Return, NoFault, TypeOK, PCs, registry
  <2>2. CASE /\ rest # <<>> /\ rest' = Tail(rest) /\ Goto("entries")
             /\ UNCHANGED found /\ (NoFault \/ OneFault)
    <3>1. Tail(rest) \in Seq(Signature) BY <2>2, RestSignatures
    <3>2. CASE NoFault BY <2>2, <3>1, <3>2 DEF Goto, NoFault, TypeOK, PCs, registry
    <3>3. CASE OneFault BY <2>2, <3>1, <3>3, FaultValues DEF Goto, TypeOK, PCs
    <3>4. QED BY <2>2, <3>2, <3>3
  <2>3. CASE /\ rest # <<>>
             /\ found' = IF Head(rest).form = "modern" THEN Head(rest)
                         ELSE [Head(rest) EXCEPT !.form = "unparsable"]
             /\ rest' = <<>> /\ Goto("convert") /\ NoFault
    <3>1. found' \in Signature BY <2>3, RestSignatures, ReadAsModern
    <3>2. QED BY <2>3, <3>1 DEF Goto, NoFault, TypeOK, PCs, registry
  <2>4. QED BY <1>6, <2>1, <2>2, <2>3 DEF ReadEntry
<1>7. CASE CallFails
  BY <1>7, IdleValues, FaultValues DEF CallFails, Refuse, Return, TypeOK, PCs
<1>8. CASE Convert
  BY <1>8, IdleValues DEF Convert, Goto, Refuse, Return, NoFault, TypeOK, PCs, registry
<1>9. CASE ensureLoaded
  <2>1. CASE NoFault
    BY <1>9, <2>1, IdleValues
       DEF ensureLoaded, Refuse, Return, NoFault, TypeOK, PCs, registry
  <2>2. CASE OneFault
    BY <1>9, <2>2, IdleValues, FaultValues
       DEF ensureLoaded, Refuse, Return, TypeOK, PCs
  <2>3. QED BY <1>9, <2>1, <2>2 DEF ensureLoaded
<1>10. CASE Verify
  <2>1. Outcome(req.reg, req.dig, TRUE) \in [reg: Registries, dig: Digests, verified: BOOLEAN]
    BY DEF Outcome, TypeOK, Requests
  <2>2. QED
    BY <1>10, <2>1, IdleValues
       DEF Verify, Accept, Refuse, Return, NoFault, TypeOK, PCs, registry
<1>11. CASE Restart
  BY <1>11, IdleValues DEF Restart, Return, TypeOK, PCs, registry
<1>11a. CASE NextImage
  BY <1>11a DEF NextImage, TypeOK, registry
<1>12. ASSUME NEW d \in Digests, Publish(d) PROVE TypeOK'
  <2>1. steady' \in BOOLEAN BY <1>12, Zenon DEF Publish
  <2>2. Signed' \subseteq Digests BY DEF Signed
  <2>3. sidecar' \in [Digests -> SidecarLists] /\ referrers' \in [Digests -> ReferrerLists]
    <3>1. CASE \E l \in SidecarLists :
                  sidecar' = [sidecar EXCEPT ![d] = l] /\ UNCHANGED referrers
      BY <3>1 DEF TypeOK
    <3>2. CASE \E l \in ReferrerLists :
                  referrers' = [referrers EXCEPT ![d] = l] /\ UNCHANGED sidecar
      BY <3>2 DEF TypeOK
    <3>3. QED BY <1>12, <3>1, <3>2 DEF Publish
  <2>4. QED BY <1>12, <2>1, <2>2, <2>3 DEF Publish, TypeOK
<1>13. CASE UNCHANGED vars
  BY <1>13 DEF vars, TypeOK, registry
<1>14. QED
  BY <1>1, <1>2, <1>3, <1>4, <1>5, <1>6, <1>7, <1>8, <1>9, <1>10, <1>11, <1>11a, <1>12, <1>13
     DEF Next

\* Every reachable state is well typed.
THEOREM TypeCorrect == Spec => []TypeOK
<1>1. Init => TypeOK
  <2> SUFFICES ASSUME Init PROVE TypeOK OBVIOUS
  <2>1. <<>> \in Seq(Signature) OBVIOUS
  <2>2. QED BY <2>1, IdleValues DEF Init, TypeOK, PCs
<1>2. QED BY <1>1, TypeNext, PTL DEF Spec
-------------------------------------------------------------------------------
\* The signature gate

\* What makes GateSound inductive: while an image is verified, every signature
\* that would convince and is at hand (in the registry, in the list still to be
\* read, in the bundle found) has been offered; and a bundle past the conversion
\* is one that the signature check ties to the digest.
AtHand ==
    pc # "idle" =>
        /\ Signed \subseteq offered
        /\ PolicyOf[req.reg] # "none"
        /\ Convincing(found, req.dig) => req.dig \in offered
        /\ \A i \in 1..Len(rest) : Convincing(rest[i], req.dig) => req.dig \in offered
Bound ==
    pc \in {"load", "check"} =>
        /\ PolicyOf[req.reg] = "usable"
        /\ \/ found.form = "modern"
           \/ found.form = "legacy" /\ buildLegacyBundle(found, req.dig)
IdleClean == pc = "idle" => found = NoBundle /\ rest = <<>>
IInv == TypeOK /\ IdleClean /\ AtHand /\ Bound /\ GateSound

\* A refusal leaves nothing at hand.
LEMMA ReturnKeeps ==
    ASSUME IInv, Return, UNCHANGED <<outcome, offered>>
    PROVE  IdleClean' /\ AtHand' /\ Bound' /\ GateSound'
BY DEF IInv, Return, IdleClean, AtHand, Bound, GateSound

\* Steps that go on with the same request, the registry and the history as
\* they are, keep the gate as long as they are not the decision.
LEMMA GoOnKeeps ==
    ASSUME IInv, pc # "idle", pc' # "idle", UNCHANGED <<req, outcome>>,
           NoFault \/ OneFault,
           Convincing(found', req.dig) => req.dig \in offered,
           \A i \in 1..Len(rest') : Convincing(rest'[i], req.dig) => req.dig \in offered,
           Bound'
    PROVE  IdleClean' /\ AtHand' /\ Bound' /\ GateSound'
<1>1. UNCHANGED <<sidecar, referrers, offered>> BY DEF NoFault, OneFault, registry
<1>2. Signed' = Signed BY <1>1 DEF Signed
<1>3. AtHand' BY <1>1, <1>2 DEF IInv, AtHand, Convincing
<1>4. GateSound' BY <1>1 DEF IInv, GateSound
<1>5. IdleClean' BY DEF IdleClean
<1>6. QED BY <1>3, <1>4, <1>5

\* Every step keeps the gate.
LEMMA GateNext == IInv /\ [Next]_vars => IInv'
<1> SUFFICES ASSUME IInv, [Next]_vars PROVE IInv'
  OBVIOUS
<1>0. TypeOK /\ TypeOK' BY TypeNext DEF IInv
<1> DEFINE Kept == IdleClean' /\ AtHand' /\ Bound' /\ GateSound'
<1> SUFFICES Kept BY <1>0 DEF IInv
<1>i. req.dig \in Digests /\ req.reg \in Registries BY <1>0 DEF TypeOK, Requests
<1>r. ASSUME Refuse, NoFault \/ OneFault PROVE Kept
  BY <1>r, ReturnKeeps DEF Refuse, NoFault, OneFault
<1>1. CASE InstallUnsigned
  BY <1>1 DEF InstallUnsigned, Outcome, IInv, IdleClean, AtHand, Bound, GateSound
<1>2. CASE BeginVerification
  <2>1. Signed' = Signed BY <1>2 DEF BeginVerification, registry, Signed
  <2>2. rest' = <<>> /\ found' = NoBundle
    BY <1>2 DEF BeginVerification, IInv, IdleClean
  <2>3. ~Convincing(found', req'.dig)
    BY <1>0, <2>2, IdleValues DEF TypeOK, Requests
  <2>4. QED
    BY <1>2, <2>1, <2>2, <2>3
       DEF BeginVerification, IdleClean, AtHand, Bound, GateSound, Convincing
<1>3. CASE FetchSidecar
  <2>1. CASE Annotated(sidecar[req.dig]) = {} /\ Goto("referrers")
             /\ UNCHANGED <<rest, found>> /\ NoFault
    BY <1>3, <2>1, GoOnKeeps
       DEF FetchSidecar, IInv, AtHand, Bound, Goto, PCs, Convincing
  <2>2. ASSUME NEW i \in Annotated(sidecar[req.dig]), NEW l \in {"payload", "convert"},
               Goto(l), found' = sidecar[req.dig][i], UNCHANGED rest, NoFault
        PROVE  Kept
    <3>1. Convincing(found', req.dig) => req.dig \in Signed
      BY <1>i, <2>2 DEF Signed, Annotated
    <3>2. Convincing(found', req.dig) => req.dig \in offered
      BY <1>3, <3>1 DEF FetchSidecar, IInv, AtHand
    <3>3. QED
      BY <1>3, <2>2, <3>2, GoOnKeeps
         DEF FetchSidecar, IInv, AtHand, Bound, Goto, PCs, Convincing
  <2>3. QED BY <1>3, <1>r, <2>1, <2>2 DEF FetchSidecar
<1>4. CASE ReadPayload
  <2>1. CASE Refuse BY <1>4, <1>r, <2>1 DEF ReadPayload
  <2>2. CASE Goto("convert") /\ UNCHANGED <<rest, found>>
    BY <1>4, <2>2, GoOnKeeps
       DEF ReadPayload, IInv, AtHand, Bound, Goto, PCs, Convincing
  <2>3. QED BY <1>4, <2>1, <2>2 DEF ReadPayload
<1>5. CASE FetchReferrers
  <2>1. \A i \in 1..Len(rest') : Convincing(rest'[i], req.dig) => req.dig \in Signed
    BY <1>5, <1>i DEF FetchReferrers, Signed
  <2>2. \A i \in 1..Len(rest') : Convincing(rest'[i], req.dig) => req.dig \in offered
    BY <1>5, <2>1 DEF FetchReferrers, IInv, AtHand
  <2>3. QED
    BY <1>5, <2>2, GoOnKeeps
       DEF FetchReferrers, IInv, AtHand, Bound, Goto, PCs, Convincing
<1>6. CASE ReadEntry
  <2>1. CASE rest = <<>> /\ Refuse /\ NoFault BY <2>1, <1>r
  <2>2. CASE /\ rest # <<>> /\ rest' = Tail(rest) /\ Goto("entries")
             /\ UNCHANGED found /\ (NoFault \/ OneFault)
    <3>1. \A i \in 1..Len(rest') : Convincing(rest'[i], req.dig) => req.dig \in offered
      BY <1>0, <1>6, <2>2, RestSignatures DEF ReadEntry, IInv, AtHand
    <3>2. QED
      BY <1>6, <2>2, <3>1, GoOnKeeps
         DEF ReadEntry, IInv, AtHand, Bound, Goto, PCs, Convincing
  <2>3. CASE /\ rest # <<>>
             /\ found' = IF Head(rest).form = "modern" THEN Head(rest)
                         ELSE [Head(rest) EXCEPT !.form = "unparsable"]
             /\ rest' = <<>> /\ Goto("convert") /\ NoFault
    <3>1. Head(rest) \in Signature /\ Head(rest) = rest[1] /\ 1 \in 1..Len(rest)
      BY <1>0, <2>3, RestSignatures
    <3>2. Convincing(found', req.dig) => req.dig \in offered
      BY <1>6, <2>3, <3>1 DEF ReadEntry, IInv, AtHand, Convincing, Signature
    <3>3. QED
      BY <1>6, <2>3, <3>2, GoOnKeeps
         DEF ReadEntry, IInv, AtHand, Bound, Goto, PCs, Convincing
  <2>4. QED BY <1>6, <2>1, <2>2, <2>3 DEF ReadEntry
<1>7. CASE CallFails
  BY <1>7, <1>r DEF CallFails
<1>8. CASE Convert
  <2>1. CASE Refuse BY <1>8, <1>r, <2>1 DEF Convert
  <2>2. CASE /\ PolicyOf[req.reg] = "usable"
             /\ \/ found.form = "modern"
                \/ found.form = "legacy" /\ buildLegacyBundle(found, req.dig)
             /\ Goto("load") /\ UNCHANGED <<rest, found>>
    BY <1>8, <2>2, GoOnKeeps
       DEF Convert, IInv, AtHand, Bound, Goto, PCs, Convincing, buildLegacyBundle
  <2>3. QED BY <1>8, <2>1, <2>2 DEF Convert
<1>9. CASE ensureLoaded
  <2>1. CASE pc' = "check" /\ UNCHANGED <<req, rest, found, outcome>> /\ NoFault
    <3>1. UNCHANGED <<Signed, offered>> BY <2>1 DEF NoFault, registry, Signed
    <3>2. QED
      BY <1>9, <2>1, <3>1
         DEF ensureLoaded, IInv, IdleClean, AtHand, Bound, GateSound, Convincing,
             buildLegacyBundle
  <2>2. CASE Return /\ UNCHANGED outcome /\ OneFault
    BY <2>2, ReturnKeeps DEF OneFault
  <2>3. QED BY <1>9, <1>r, <2>1, <2>2 DEF ensureLoaded
<1>10. CASE Verify
  <2>1. CASE Refuse BY <1>10, <1>r, <2>1 DEF Verify
  <2>2. CASE /\ found.genuine /\ (found.form = "modern" => found.about = req.dig)
             /\ Accept
    <3>1. Convincing(found, req.dig)
      BY <1>10, <2>2 DEF Verify, IInv, Bound, Convincing, buildLegacyBundle
    <3>2. req.dig \in offered /\ PolicyOf[req.reg] = "usable"
      BY <1>10, <3>1 DEF Verify, IInv, AtHand, Bound
    <3>3. UNCHANGED offered BY <1>10 DEF Verify, NoFault
    <3>4. QED
      BY <1>10, <2>2, <3>2, <3>3
         DEF Accept, Return, Outcome, IdleClean, AtHand, Bound, GateSound
  <2>3. QED BY <1>10, <2>1, <2>2 DEF Verify
<1>11. CASE Restart
  BY <1>11 DEF Restart, Return, IdleClean, AtHand, Bound, GateSound
<1>11a. CASE NextImage
  BY <1>11a DEF NextImage, IInv, IdleClean, AtHand, Bound, GateSound
<1>12. ASSUME NEW d \in Digests, Publish(d) PROVE Kept
  BY <1>12 DEF Publish, IInv, IdleClean, AtHand, Bound, GateSound, Convincing,
               buildLegacyBundle
<1>13. CASE UNCHANGED vars
  <2>1. UNCHANGED Signed BY <1>13 DEF vars, registry, Signed
  <2>2. QED
    BY <1>13, <2>1 DEF vars, IInv, IdleClean, AtHand, Bound, GateSound, Convincing,
                       buildLegacyBundle
<1>14. QED
  BY <1>1, <1>2, <1>3, <1>4, <1>5, <1>6, <1>7, <1>8, <1>9, <1>10, <1>11, <1>11a, <1>12, <1>13
     DEF Next

\* Whatever the registry serves and when, and whichever calls fail, an image
\* from a registry with a policy is let through only on a convincing signature
\* over its digest (verifyImage).
THEOREM GateSoundCorrect == Spec => []GateSound
<1>1. Init => IInv
  <2> SUFFICES ASSUME Init PROVE IInv OBVIOUS
  <2>1. <<>> \in Seq(Signature) OBVIOUS
  <2>2. TypeOK BY <2>1, IdleValues, VerificationAssumption DEF Init, TypeOK, PCs
  <2>3. QED BY <2>2 DEF Init, IInv, IdleClean, AtHand, Bound, GateSound
<1>2. IInv => GateSound BY DEF IInv
<1>3. QED BY <1>1, <1>2, GateNext, PTL DEF Spec

-------------------------------------------------------------------------------
\* No spurious refusal

\* The least member of a set of naturals, as FirstBundle chooses it.
LEMMA Least ==
  ASSUME NEW T \in SUBSET Nat, T # {}
  PROVE  \E x \in T : \A y \in T : x <= y
<1>1. PICK x \in T : \A y \in T : ~(<<y, x>> \in OpToRel(<, Nat))
  BY NatLessThanWellFounded, WFMin
<1>2. \A y \in T : ~(y < x)
  BY <1>1 DEF OpToRel
<1>3. x \in T
  BY <1>1, Zenon
<1> QED BY <1>2, <1>3

LEMMA LeastIs ==
  ASSUME NEW T \in SUBSET Nat, NEW x \in T, \A y \in T : x <= y
  PROVE  (CHOOSE i \in T : \A j \in T : i <= j) = x
<1>1. \A i \in T : (\A j \in T : i <= j) <=> i = x
  OBVIOUS
<1> QED BY <1>1

\* The first JSON entry of a list, a Sigstore bundle.
FirstIs(list, b) ==
    /\ b.form = "modern"
    /\ \E i \in 1..Len(list) :
          /\ list[i] = b
          /\ \A j \in 1..(i - 1) : list[j].form \in {"none", "junk"}

\* What FirstBundle is, by where it comes from.
LEMMA FirstInSidecar ==
    ASSUME NEW d, NEW i \in Annotated(sidecar[d]), \A j \in Annotated(sidecar[d]) : i <= j
    PROVE  FirstBundle(d) = sidecar[d][i]
<1> DEFINE s == Annotated(sidecar[d])
<1>1. s \in SUBSET Nat BY DEF Annotated
<1>2. (CHOOSE k \in s : \A j \in s : k <= j) = i
  <2> HIDE DEF s
  <2>1. i \in s /\ \A j \in s : i <= j BY DEF s
  <2> QED BY <1>1, <2>1, LeastIs
<1>3. s # {} OBVIOUS
<1> HIDE DEF s
<1> QED BY <1>2, <1>3 DEF FirstBundle, s

LEMMA FirstInReferrers ==
    ASSUME TypeOK, NEW d \in Digests, Annotated(sidecar[d]) = {}, Convincing(FirstBundle(d), d)
    PROVE  FirstIs(referrers[d], FirstBundle(d))
<1> DEFINE l == referrers[d]
           JSON == {i \in 1..Len(l) : l[i].form \notin {"none", "junk"}}
           k == CHOOSE i \in JSON : \A j \in JSON : i <= j
<1>1. FirstBundle(d) = IF JSON # {}
                       THEN IF l[k].form = "modern" THEN l[k] ELSE NoBundle
                       ELSE NoBundle
  BY DEF FirstBundle
<1>2. ~Convincing(NoBundle, d) BY IdleValues
<1>3. JSON # {} /\ l[k].form = "modern" /\ FirstBundle(d) = l[k]
  <2> HIDE DEF l, JSON, k
  <2> QED BY <1>1, <1>2
<1>4. l \in Seq(Signature) BY ListedSignatures
<1>5. k \in JSON /\ \A j \in JSON : k <= j
  <2>1. JSON \in SUBSET Nat BY <1>4
  <2>2. \E i \in JSON : \A j \in JSON : i <= j
    <3> HIDE DEF JSON
    <3> QED BY <1>3, <2>1, Least
  <2> HIDE DEF JSON
  <2> QED BY <2>2
<1> HIDE DEF k
<1>6. k \in 1..Len(l) BY <1>5
<1>7. ASSUME NEW j \in 1..(k - 1) PROVE l[j].form \in {"none", "junk"}
  <2>1. Len(l) \in Nat BY <1>4
  <2> HIDE DEF l
  <2>2. j \in 1..Len(l) /\ ~(k <= j) BY <1>6, <2>1
  <2>3. j \notin JSON BY <1>5, <2>2
  <2> QED BY <2>2, <2>3
<1> QED BY <1>3, <1>6, <1>7 DEF FirstIs

\* Reading on past an entry that is passed over.
LEMMA FirstInTail ==
    ASSUME TypeOK, rest # <<>>, NEW b, FirstIs(rest, b), Head(rest).form \in {"none", "junk"}
    PROVE  FirstIs(Tail(rest), b)
<1>1. PICK i \in 1..Len(rest) :
        /\ rest[i] = b
        /\ \A j \in 1..(i - 1) : rest[j].form \in {"none", "junk"}
  BY DEF FirstIs
<1>2. b.form = "modern" BY DEF FirstIs
<1>3. /\ rest \in Seq(Signature) /\ Len(rest) \in Nat /\ Len(Tail(rest)) = Len(rest) - 1
      /\ \A k \in 1..Len(Tail(rest)) : Tail(rest)[k] = rest[k + 1]
      /\ Head(rest) = rest[1]
  BY DEF TypeOK
<1>4. i # 1 BY <1>1, <1>2, <1>3
<1> DEFINE t == Tail(rest)
<1>5. i - 1 \in 1..Len(t) /\ t[i - 1] = b
  <2>1. i - 1 \in 1..Len(t) /\ (i - 1) + 1 = i BY <1>3, <1>4
  <2>2. t[i - 1] = rest[(i - 1) + 1] BY <1>3, <2>1
  <2> QED BY <1>1, <2>1, <2>2
<1>6. ASSUME NEW j \in 1..((i - 1) - 1) PROVE t[j].form \in {"none", "junk"}
  <2>1. j \in 1..Len(t) /\ j + 1 \in 1..(i - 1) BY <1>3, <1>4, <1>5
  <2>2. t[j] = rest[j + 1] BY <1>3, <2>1
  <2> QED BY <1>1, <2>1, <2>2
<1> HIDE DEF t
<1>7. FirstIs(t, b) BY <1>2, <1>5, <1>6 DEF FirstIs
<1> QED BY <1>7 DEF t

\* As long as nothing interferes, what a verification has in its hands is the
\* signature it has to look at first, or still leads to it.
Undisturbed ==
    steady /\ pc # "idle" /\ Convincing(FirstBundle(req.dig), req.dig) =>
        /\ pc \in {"payload", "convert", "load", "check"} => found = FirstBundle(req.dig)
        /\ pc = "payload" => found.form = "legacy"
        /\ pc \in {"referrers", "entries"} => Annotated(sidecar[req.dig]) = {}
        /\ pc = "entries" => FirstIs(rest, FirstBundle(req.dig))

\* A step within a verification that keeps the registry.
LEMMA SameFirst ==
    ASSUME UNCHANGED registry, NEW d
    PROVE  FirstBundle(d)' = FirstBundle(d) /\ Annotated(sidecar[d])' = Annotated(sidecar[d])
BY DEF registry, FirstBundle, Annotated, NoBundle

\* A step that goes on, undisturbed, in the same verification.
LEMMA GoOnUndisturbed ==
    ASSUME NoFault, UNCHANGED req,
           LET b == FirstBundle(req.dig) IN
           steady /\ Convincing(b, req.dig) =>
              /\ pc' \in {"payload", "convert", "load", "check"} => found' = b
              /\ pc' = "payload" => found'.form = "legacy"
              /\ pc' \in {"referrers", "entries"} => Annotated(sidecar[req.dig]) = {}
              /\ pc' = "entries" => FirstIs(rest', b)
    PROVE  Undisturbed'
<1> DEFINE d == req.dig
<1>1. UNCHANGED registry /\ steady' = steady /\ req' = req
  BY DEF NoFault
<1>2. FirstBundle(d)' = FirstBundle(d) /\ Annotated(sidecar[d])' = Annotated(sidecar[d])
  BY <1>1, SameFirst
<1> QED BY <1>1, <1>2 DEF Undisturbed, Convincing, FirstIs

\* After a step that disturbs, or with no verification, nothing is said.
LEMMA Disturbed ==
    ASSUME (~steady') \/ pc' = "idle" \/ pc' = "sidecar"
    PROVE  Undisturbed'
BY DEF Undisturbed

LEMMA UndisturbedNext ==
    ASSUME TypeOK, Undisturbed, [Next]_vars
    PROVE  Undisturbed'
<1> DEFINE d == req.dig  b == FirstBundle(req.dig)
<1>0. d \in Digests BY DEF TypeOK, Requests
<1>1. CASE InstallUnsigned
  BY <1>1, Disturbed DEF InstallUnsigned
<1>2. CASE BeginVerification \/ NextImage \/ Restart
  BY <1>2, Disturbed DEF BeginVerification, NextImage, Restart, Return
<1>3. CASE FetchSidecar
  <2>1. CASE Annotated(sidecar[d]) = {} /\ Goto("referrers") /\ NoFault
    BY <1>3, <2>1, GoOnUndisturbed DEF Goto
  <2>2. ASSUME NEW i \in Annotated(sidecar[d]), \A j \in Annotated(sidecar[d]) : i <= j,
               IF sidecar[d][i].form = "junk" THEN Refuse
               ELSE /\ Goto(IF sidecar[d][i].form = "legacy" THEN "payload" ELSE "convert")
                    /\ found' = sidecar[d][i],
               NoFault
        PROVE  Undisturbed'
    <3>1. b = sidecar[d][i] BY <2>2, FirstInSidecar
    <3>2. CASE Refuse BY <3>2, Disturbed DEF Refuse, Return
    <3>3. CASE /\ Goto(IF sidecar[d][i].form = "legacy" THEN "payload" ELSE "convert")
               /\ found' = sidecar[d][i]
      <4>1. pc' \in {"payload", "convert"} /\ UNCHANGED req BY <3>3 DEF Goto
      <4>2. pc' = "payload" => found'.form = "legacy" BY <3>3 DEF Goto
      <4> QED BY <2>2, <3>1, <3>3, <4>1, <4>2, GoOnUndisturbed
    <3> QED BY <2>2, <3>2, <3>3
  <2> QED BY <1>3, <2>1, <2>2 DEF FetchSidecar
<1>4. CASE ReadPayload
  <2>1. CASE Refuse BY <2>1, Disturbed DEF Refuse, Return
  <2>2. CASE Goto("convert") /\ UNCHANGED <<rest, found>> /\ NoFault
    BY <1>4, <2>2, GoOnUndisturbed DEF Goto, ReadPayload, Undisturbed
  <2> QED BY <1>4, <2>1, <2>2 DEF ReadPayload
<1>5. CASE FetchReferrers
  <2>1. /\ pc' = "entries" /\ rest' = referrers[d] /\ UNCHANGED req /\ NoFault
        /\ pc = "referrers"
    BY <1>5 DEF FetchReferrers, Goto
  <2>2. steady /\ Convincing(b, d) => Annotated(sidecar[d]) = {}
    BY <2>1 DEF Undisturbed
  <2>3. steady /\ Convincing(b, d) => FirstIs(rest', b)
    BY <1>0, <2>1, <2>2, FirstInReferrers
  <2> QED BY <2>1, <2>2, <2>3, GoOnUndisturbed
<1>6. CASE ReadEntry
  <2>1. pc = "entries" BY <1>6 DEF ReadEntry
  <2>2. steady /\ Convincing(b, d) => Annotated(sidecar[d]) = {} /\ FirstIs(rest, b)
    BY <2>1 DEF Undisturbed
  <2>3. CASE Refuse BY <2>3, Disturbed DEF Refuse, Return
  <2>4. CASE OneFault BY <2>4, Disturbed DEF OneFault
  <2>5. CASE /\ rest # <<>> /\ Head(rest).form \in {"none", "junk"}
             /\ rest' = Tail(rest) /\ Goto("entries") /\ NoFault
    <3>1. pc' = "entries" /\ UNCHANGED req BY <2>5 DEF Goto
    <3>2. steady /\ Convincing(b, d) => FirstIs(rest', b)
      BY <2>2, <2>5, FirstInTail
    <3> QED BY <2>2, <2>5, <3>1, <3>2, GoOnUndisturbed
  <2>6. CASE /\ rest # <<>> /\ Head(rest).form \notin {"none", "junk"}
             /\ found' = IF Head(rest).form = "modern" THEN Head(rest)
                         ELSE [Head(rest) EXCEPT !.form = "unparsable"]
             /\ Goto("convert") /\ NoFault
    <3>1. pc' = "convert" /\ UNCHANGED req BY <2>6 DEF Goto
    <3>2. ASSUME steady, Convincing(b, d) PROVE found' = b
      <4>1. PICK i \in 1..Len(rest) :
              /\ rest[i] = b
              /\ \A j \in 1..(i - 1) : rest[j].form \in {"none", "junk"}
        BY <2>2, <3>2 DEF FirstIs
      <4>2. b.form = "modern" BY <2>2, <3>2 DEF FirstIs
      <4>3. Head(rest) = rest[1] /\ Len(rest) \in Nat
        BY <2>6, RestSignatures DEF TypeOK
      <4>4. i = 1
        <5>1. ~(1 \in 1..(i - 1)) BY <2>6, <4>1, <4>3
        <5> QED BY <4>1, <4>3, <5>1
      <4> QED BY <2>6, <4>1, <4>2, <4>3, <4>4
    <3> QED BY <2>6, <3>1, <3>2, GoOnUndisturbed
  <2> QED BY <1>6, <2>3, <2>4, <2>5, <2>6 DEF ReadEntry
<1>7. CASE CallFails
  BY <1>7, Disturbed DEF CallFails, OneFault
<1>8. CASE Convert
  <2>1. CASE Refuse BY <2>1, Disturbed DEF Refuse, Return
  <2>2. CASE Goto("load") /\ UNCHANGED <<rest, found>>
    BY <1>8, <2>2, GoOnUndisturbed DEF Convert, Goto, Undisturbed
  <2> QED BY <1>8, <2>1, <2>2 DEF Convert
<1>9. CASE ensureLoaded
  <2>1. CASE pc' = "check" /\ UNCHANGED <<req, rest, found, outcome>> /\ NoFault
    BY <1>9, <2>1, GoOnUndisturbed DEF ensureLoaded, Undisturbed
  <2>2. CASE OneFault BY <2>2, Disturbed DEF OneFault
  <2>3. CASE Refuse BY <2>3, Disturbed DEF Refuse, Return
  <2> QED BY <1>9, <2>1, <2>2, <2>3 DEF ensureLoaded
<1>10. CASE Verify
  BY <1>10, Disturbed DEF Verify, Accept, Refuse, Return
<1>11. ASSUME NEW e \in Digests, Publish(e) PROVE Undisturbed'
  BY <1>11, Disturbed DEF Publish
<1>12. CASE UNCHANGED vars
  <2>1. /\ FirstBundle(d)' = FirstBundle(d)
        /\ Annotated(sidecar[d])' = Annotated(sidecar[d])
        /\ UNCHANGED <<pc, req, rest, found, steady>>
    BY <1>12, SameFirst DEF vars
  <2> QED BY <2>1 DEF Undisturbed, Convincing, FirstIs
<1> QED BY <1>1, <1>2, <1>3, <1>4, <1>5, <1>6, <1>7, <1>8, <1>9, <1>10, <1>11, <1>12 DEF Next

\* With a usable policy, when the signature looked at first is convincing and
\* neither the registry nor the network interferes, the image is accepted, also
\* after others in the same process (FetchBundle, ensureLoaded).
THEOREM NoSpuriousRefusalCorrect == Spec => NoSpuriousRefusal
<1> DEFINE d == req.dig  b == FirstBundle(req.dig)
           Premise == /\ pc # "idle" /\ pc' = "idle" /\ steady' /\ root # "failed"
                      /\ PolicyOf[req.reg] = "usable"
                      /\ Convincing(b, d)
<1>1. Init => Undisturbed
  BY DEF Init, Undisturbed
<1>2. ASSUME TypeOK, Undisturbed, [Next]_vars, Premise
      PROVE  outcome' = Outcome(req.reg, d, TRUE)
  <2>0. d \in Digests BY <1>2 DEF TypeOK, Requests
  <2>1. ~OneFault BY <1>2 DEF OneFault
  <2>2. ~Restart BY <1>2 DEF Restart
  <2>3. ASSUME NEW e \in Digests PROVE ~Publish(e) BY <1>2 DEF Publish
  <2>4. ~UNCHANGED vars BY <1>2 DEF vars
  <2>5. ~(InstallUnsigned \/ BeginVerification \/ NextImage)
    BY <1>2 DEF InstallUnsigned, BeginVerification, NextImage
  <2>6. steady
    <3>1. CASE NoFault BY <1>2, <3>1 DEF NoFault
    <3>2. FetchSidecar \/ ReadPayload \/ FetchReferrers \/ ReadEntry \/ CallFails
          \/ Convert \/ ensureLoaded \/ Verify
      BY <1>2, <2>2, <2>3, <2>4, <2>5 DEF Next
    <3>3. NoFault
      BY <2>1, <3>2 DEF FetchSidecar, ReadPayload, FetchReferrers, ReadEntry, CallFails,
                        Convert, ensureLoaded, Verify
    <3> QED BY <3>1, <3>3
  <2>7. CASE FetchSidecar
    <3>1. PICK i \in Annotated(sidecar[d]) :
            /\ \A j \in Annotated(sidecar[d]) : i <= j
            /\ IF sidecar[d][i].form = "junk" THEN Refuse
               ELSE Goto(IF sidecar[d][i].form = "legacy" THEN "payload" ELSE "convert")
      BY <1>2, <2>7 DEF FetchSidecar, Goto
    <3>2. b = sidecar[d][i] BY <3>1, FirstInSidecar
    <3>3. b.form = "junk" BY <1>2, <3>1, <3>2 DEF Goto
    <3> QED BY <1>2, <3>3 DEF Convincing
  <2>8. CASE ReadPayload
    <3>1. found = b /\ found.form = "legacy" /\ ~found.parts
      BY <1>2, <2>6, <2>8 DEF ReadPayload, Undisturbed, Goto
    <3> QED BY <1>2, <3>1 DEF Convincing
  <2>9. CASE FetchReferrers
    BY <1>2, <2>9 DEF FetchReferrers, Goto
  <2>10. CASE ReadEntry
    <3>1. rest = <<>> BY <1>2, <2>1, <2>10 DEF ReadEntry, Goto
    <3>2. FirstIs(rest, b) BY <1>2, <2>6, <2>10 DEF ReadEntry, Undisturbed
    <3>3. Len(rest) = 0 BY <3>1
    <3> QED BY <3>2, <3>3 DEF FirstIs
  <2>11. CASE CallFails BY <2>1, <2>11 DEF CallFails
  <2>12. CASE Convert
    <3>1. found = b BY <1>2, <2>6, <2>12 DEF Convert, Undisturbed
    <3>2. \/ found.form = "modern"
          \/ found.form = "legacy" /\ buildLegacyBundle(found, d)
      BY <1>2, <3>1 DEF Convincing, buildLegacyBundle
    <3> QED BY <1>2, <2>12, <3>2 DEF Convert, Goto
  <2>13. CASE ensureLoaded BY <1>2, <2>1, <2>13 DEF ensureLoaded
  <2>14. CASE Verify
    <3>1. found = b BY <1>2, <2>6, <2>14 DEF Verify, Undisturbed
    <3>2. found.genuine /\ found.about = d BY <1>2, <3>1 DEF Convincing
    <3> QED BY <2>14, <3>2 DEF Verify, Accept
  <2> QED BY <1>2, <2>2, <2>3, <2>4, <2>5, <2>7, <2>8, <2>9, <2>10, <2>11, <2>12, <2>13, <2>14
          DEF Next
<1>3. TypeOK /\ Undisturbed /\ [Next]_vars => Undisturbed'
  BY UndisturbedNext
<1> QED BY <1>1, <1>2, <1>3, TypeCorrect, PTL DEF Spec, NoSpuriousRefusal
-------------------------------------------------------------------------------
(* The installation                                                          *)

\* One installation step is a verification step or a stutter.
LEMMA InstallStep == [InstallNext]_installVars => [Next]_vars
<1> SUFFICES ASSUME InstallNext PROVE [Next]_vars
  BY DEF installVars
<1>1. CASE StartInstall
  BY <1>1 DEF StartInstall, Next
<1>2. CASE Pull
  BY <1>2 DEF Pull
<1>3. CASE BeginVerify
  BY <1>3 DEF BeginVerify, Next
<1>4. CASE SkipVerify
  BY <1>4 DEF SkipVerify, Next
<1>5. CASE VerifyStep
  BY <1>5 DEF VerifyStep, Next
<1>6. CASE FetchAttestations \/ HandOver \/ HandOverFails \/ ReturnError
  BY <1>6 DEF FetchAttestations, HandOver, HandOverFails, ReturnError
<1>7. CASE EndProcess
  BY <1>7 DEF EndProcess, Next
<1>8. CASE Upstream
  BY <1>8 DEF Upstream, Next
<1>9. QED
  BY <1>1, <1>2, <1>3, <1>4, <1>5, <1>6, <1>7, <1>8 DEF InstallNext, Continue

\* InstallPackage, with its pulls, its attestations, its failures and kills,
\* implements verifyImage as ImageVerification specifies it.
THEOREM InstallVerifies == InstallSpec => Spec
<1>1. InstallInit => Init BY DEF InstallInit
<1>2. QED BY <1>1, InstallStep, PTL DEF InstallSpec, Spec

\* So no installation gets through the gate without a convincing signature
\* over its digest where a policy asks for one (verifyImage).
THEOREM InstallGateSound == InstallSpec => []GateSound
BY InstallVerifies, GateSoundCorrect, PTL

\* And none refuses an image whose first signature is convincing, when neither
\* the registry nor the network interferes (verifyImage).
THEOREM InstallNoSpuriousRefusal == InstallSpec => NoSpuriousRefusal
BY InstallVerifies, NoSpuriousRefusalCorrect, PTL
-------------------------------------------------------------------------------
\* What is handed over

\* What a step of the verification does to the request and the outcome.
LEMMA VerifyStepOutcome ==
    ASSUME VerifyStep
    PROVE  /\ pc' # "idle" => UNCHANGED <<req, outcome>>
           /\ pc' = "idle" => outcome' \in {outcome, Outcome(req.reg, req.dig, TRUE)}
<1>1. CASE FetchSidecar \/ ReadPayload \/ FetchReferrers \/ ReadEntry \/ CallFails \/ Convert
  BY <1>1 DEF FetchSidecar, ReadPayload, FetchReferrers, ReadEntry, CallFails, Convert,
              Goto, Refuse, Return
<1>2. CASE ensureLoaded
  BY <1>2 DEF ensureLoaded, Refuse, Return
<1>3. CASE Verify
  BY <1>3 DEF Verify, Accept, Refuse, Return
<1>4. QED BY <1>1, <1>2, <1>3 DEF VerifyStep

\* The outcome of the gate is about the image that was pulled and the registry
\* it came from.
Tied ==
    /\ phase \in {"pull", "verify"} => outcome = Refused
    /\ phase # "verify" => pc = "idle"
    /\ phase = "verify" /\ pc # "idle" => req.reg = job /\ req.dig = image
    /\ phase \in {"attest", "build"} =>
          outcome # Refused /\ outcome.reg = job /\ outcome.dig = image

\* The image is one that the tag has named, and it is in the staging directory.
Staged ==
    /\ served \in Targets
    /\ phase = "pull" => /\ step \in {"descriptor", "extract"}
                        /\ ForHost(served) \in named
    /\ phase = "pull" /\ step = "extract" => image \in Images \cap named
    /\ phase \in {"verify", "attest", "build"} =>
          image \in named /\ staging = Tree(image)

Phased == phase \in {"idle", "pull", "verify", "attest", "build", "return"}

InstallInv == Phased /\ Tied /\ Staged

LEMMA OutcomeIsNotRefusal ==
    \A r, d : \A v \in BOOLEAN : Outcome(r, d, v) # Refused
BY DEF Outcome, Refused

\* Every step keeps the tie between the pull, the gate and the hand-over.
LEMMA InstallInvNext == InstallInv /\ [InstallNext]_installVars => InstallInv'
<1> SUFFICES ASSUME InstallInv, [InstallNext]_installVars PROVE InstallInv'
  OBVIOUS
<1> USE DEF InstallInv
<1>1. CASE StartInstall
  BY <1>1 DEF StartInstall, StartPull, NextImage, Phased, Tied, Staged
<1>2. CASE Pull
  <2>1. CASE FetchDescriptor
    <3>1. ForHost(served) \in named /\ ForHost(served) \in Images \cup {Nowhere}
      BY <1>2, PullAssumption DEF Pull, Staged
    <3>2. phase' \in {"pull", "return"} /\ (phase' = "pull" => step' = "extract")
      BY <1>2, <2>1 DEF Pull, FetchDescriptor
    <3>3. image' = ForHost(served) /\ (step' = "extract" => image' # Nowhere)
      BY <2>1 DEF FetchDescriptor
    <3>4. UNCHANGED <<served, named, outcome, pc>>
      BY <1>2, <2>1 DEF Pull, FetchDescriptor, vars
    <3>5. QED BY <1>2, <3>1, <3>2, <3>3, <3>4 DEF Pull, Phased, Tied, Staged
  <2>2. CASE Extract
    <3>1. PICK u \in Unpacked[image] :
             IF u.rootfs = Nowhere
             THEN step' = "failed" /\ unfit' = ~u.fit /\ UNCHANGED staging
             ELSE step' = "pulled" /\ staging' = u.rootfs /\ UNCHANGED unfit
      BY <2>2 DEF Extract
    <3>2. image \in Images \cap named BY <1>2, <2>2 DEF Pull, Extract, Staged
    <3>3. step' = "pulled" => staging' = Tree(image)
      BY <3>1, <3>2, PullAssumption
    <3>4. phase' \in {"verify", "return"} /\ (phase' = "verify" => step' = "pulled")
      BY <1>2, <3>1 DEF Pull
    <3>5. UNCHANGED <<served, named, image, outcome, pc>>
      BY <1>2, <2>2 DEF Pull, Extract, vars
    <3>6. pc = "idle" BY <1>2 DEF Pull, Tied
    <3>7. QED BY <1>2, <3>2, <3>3, <3>4, <3>5, <3>6 DEF Pull, Phased, Tied, Staged
  <2>3. CASE PullBreaks
    BY <1>2, <2>3 DEF Pull, PullBreaks, Phased, Tied, Staged, vars
  <2>4. QED BY <1>2, <2>1, <2>2, <2>3 DEF Pull
<1>3. CASE BeginVerify
  BY <1>3 DEF BeginVerify, BeginVerification, Phased, Tied, Staged, pullVars
<1>4. CASE SkipVerify
  <2>1. CASE UNCHANGED vars /\ phase' = "return"
    BY <1>4, <2>1 DEF SkipVerify, Phased, Tied, Staged, pullVars, vars
  <2>2. CASE outcome' = Outcome(job, image, FALSE) /\ phase' = "build"
    <3>1. outcome' # Refused /\ outcome'.reg = job /\ outcome'.dig = image
      BY <2>2, OutcomeIsNotRefusal DEF Outcome
    <3>2. pc' = "idle" /\ UNCHANGED pullVars /\ UNCHANGED job /\ phase = "verify"
      <4>1. CASE InstallUnsigned BY <1>4, <4>1 DEF SkipVerify, InstallUnsigned
      <4>2. CASE UNCHANGED vars BY <1>4, <4>2 DEF SkipVerify, vars
      <4>3. QED BY <1>4, <4>1, <4>2 DEF SkipVerify
    <3>3. QED BY <2>2, <3>1, <3>2 DEF Phased, Tied, Staged, pullVars
  <2>3. QED BY <1>4, <2>1, <2>2 DEF SkipVerify
<1>5. CASE VerifyStep
  <2>0. phase = "verify" /\ UNCHANGED <<pullVars, job>> BY <1>5 DEF VerifyStep
  <2>1. CASE pc' # "idle"
    <3>1. phase' = "verify" /\ UNCHANGED <<req, outcome>>
      BY <1>5, <2>1, VerifyStepOutcome DEF VerifyStep
    <3>2. QED BY <1>5, <2>0, <2>1, <3>1 DEF VerifyStep, Phased, Tied, Staged, pullVars
  <2>2. CASE pc' = "idle"
    <3>1. outcome' \in {outcome, Outcome(req.reg, req.dig, TRUE)}
      BY <1>5, <2>2, VerifyStepOutcome
    <3>2. phase' = IF outcome' # Refused THEN "attest" ELSE "return"
      BY <1>5, <2>2 DEF VerifyStep
    <3>3. outcome = Refused /\ req.reg = job /\ req.dig = image
      BY <1>5, <2>0 DEF VerifyStep, Tied
    <3>4. outcome' # Refused => outcome'.reg = job /\ outcome'.dig = image
      BY <3>1, <3>3 DEF Outcome
    <3>5. QED BY <2>0, <2>2, <3>2, <3>4 DEF Phased, Tied, Staged, pullVars
  <2>3. QED BY <2>1, <2>2
<1>6. CASE FetchAttestations
  BY <1>6 DEF FetchAttestations, Phased, Tied, Staged, pullVars, vars
<1>7. CASE HandOver \/ HandOverFails \/ ReturnError
  BY <1>7 DEF HandOver, HandOverFails, ReturnError, ReturnStaging, Phased, Tied, Staged,
              pullVars, vars
<1>8. CASE EndProcess
  BY <1>8 DEF EndProcess, Restart, Return, ReturnStaging, Phased, Tied, Staged
<1>9. CASE Upstream
  <2>1. CASE MoveTag /\ UNCHANGED vars
    BY <1>9, <2>1 DEF Upstream, MoveTag, Phased, Tied, Staged, vars
  <2>2. CASE (\E d \in Digests : Publish(d)) /\ UNCHANGED pullVars
    BY <1>9, <2>2 DEF Upstream, Publish, Phased, Tied, Staged, pullVars
  <2>3. QED BY <1>9, <2>1, <2>2 DEF Upstream
<1>10. CASE UNCHANGED installVars
  BY <1>10 DEF installVars, vars, pullVars, Phased, Tied, Staged
<1>11. QED
  BY <1>1, <1>2, <1>3, <1>4, <1>5, <1>6, <1>7, <1>8, <1>9, <1>10 DEF InstallNext, Continue

\* What InstallPackage hands over is what it verified, wherever the tag went in
\* the meantime (Client.Pull, verifyImage).
THEOREM InstalledIsVerifiedCorrect == InstallSpec => InstalledIsVerified
<1> DEFINE Good ==
      /\ installed'.rootfs = Tree(installed'.digest)
      /\ installed'.digest \in named
      /\ IF PolicyOf[installed'.reg] = "none" THEN ~installed'.verified
         ELSE installed'.verified /\ installed'.digest \in offered
<1>1. InstallInit => InstallInv
  BY DEF InstallInit, Init, PullInit, InstallInv, Phased, Tied, Staged
<1>2. ASSUME InstallInv, GateSound, [InstallNext]_installVars, installed' \notin {installed, None}
      PROVE  Good
  <2>1. HandOver
    BY <1>2 DEF InstallNext, Continue, StartInstall, Pull, BeginVerify, SkipVerify,
                VerifyStep, FetchAttestations, HandOverFails, ReturnError, EndProcess,
                Upstream, installVars
  <2>2. /\ installed'.rootfs = staging /\ installed'.digest = image
        /\ installed'.reg = job /\ installed'.verified = outcome.verified
    BY <2>1 DEF HandOver
  <2>3. /\ staging = Tree(image) /\ image \in named
        /\ outcome # Refused /\ outcome.reg = job /\ outcome.dig = image
    BY <1>2, <2>1 DEF HandOver, InstallInv, Staged, Tied
  <2>4. QED BY <1>2, <2>2, <2>3 DEF GateSound
<1>3. QED
  BY <1>1, <1>2, InstallInvNext, InstallGateSound, PTL DEF InstallSpec, InstalledIsVerified

-------------------------------------------------------------------------------
\* What is staged

\* An order that can be unpacked is unpacked.
FitUnpacks == \A i \in Images : \A u \in Unpacked[i] : u.fit => u.rootfs # Nowhere

\* Given that what is unpacked without an error is the image (PullAssumption) and
\* that an order that can be unpacked is (FitUnpacks), both of which TLC
\* evaluates: a pulled image stays in the staging directory until the directory
\* is given up, and is refused for no other reason than a failed call, the
\* platform or the order of the entries, wherever the tag moves and whatever
\* breaks off (Client.Pull).
THEOREM StagedWholeCorrect ==
  ASSUME FitUnpacks
  PROVE  InstallSpec => []StagedWhole
<1>1. InstallInit => InstallInv /\ StagedWhole
  BY DEF InstallInit, Init, PullInit, InstallInv, Phased, Tied, Staged, StagedWhole
<1>2. ASSUME InstallInv, StagedWhole, [InstallNext]_installVars PROVE StagedWhole'
  <2>1. CASE Extract /\ phase = "pull"
    <3>1. PICK u \in Unpacked[image] :
             IF u.rootfs = Nowhere
             THEN step' = "failed" /\ unfit' = ~u.fit /\ UNCHANGED staging
             ELSE step' = "pulled" /\ staging' = u.rootfs /\ UNCHANGED unfit
      BY <2>1 DEF Extract
    <3>2. image \in Images /\ image' = image
      BY <1>2, <2>1 DEF InstallInv, Staged, Extract
    <3>3. step' = "pulled" => staging' = Tree(image)
      BY <3>1, <3>2, PullAssumption
    <3>4. step' = "failed" => unfit'
      BY <3>1, <3>2, FitUnpacks DEF FitUnpacks
    <3> QED BY <3>1, <3>2, <3>3, <3>4 DEF StagedWhole
  <2>2. CASE FetchDescriptor
    BY <2>2 DEF FetchDescriptor, StagedWhole
  <2>3. CASE PullBreaks
    BY <2>3 DEF PullBreaks, StagedWhole
  <2>4. CASE StartPull
    BY <2>4 DEF StartPull, StagedWhole
  <2>5. CASE ReturnStaging
    BY <2>5 DEF ReturnStaging, StagedWhole
  <2>6. CASE MoveTag
    BY <1>2, <2>6 DEF MoveTag, StagedWhole
  <2>7. CASE UNCHANGED pullVars
    BY <1>2, <2>7 DEF pullVars, StagedWhole
  <2> QED BY <1>2, <2>1, <2>2, <2>3, <2>4, <2>5, <2>6, <2>7
          DEF InstallNext, Continue, StartInstall, Pull, BeginVerify, SkipVerify, VerifyStep,
              FetchAttestations, HandOver, HandOverFails, ReturnError, EndProcess, Upstream,
              installVars
<1> QED BY <1>1, <1>2, InstallInvNext, PTL DEF InstallSpec

-------------------------------------------------------------------------------
\* What is shown of the attestations

Summing == INSTANCE FoldProofs WITH op <- AddSummary

Places == {"sbom", "provenance", "vuln"}

\* What a layer gives for a place.
Gives(l, place) == IsStatement(l) /\ Place(l) = place /\ Summary(l) # None

\* Only a predicate of a known type has a summary, and it has a place.
LEMMA SummaryHasPlace ==
  ASSUME NEW l, Summary(l) # None
  PROVE  Place(l) \in Places /\ l.type # ""
BY DEF Summary, Place, Places

\* After the first k layers, each place shows what one of them gave for it, and
\* is None only if none did.
Shown(layers, k) ==
    {out \in [Places -> {Summary(layers[i]) : i \in 1..Len(layers)} \cup {None}] :
        \A place \in Places :
           IF \E i \in 1..k : Gives(layers[i], place)
           THEN \E i \in 1..k : Gives(layers[i], place) /\ out[place] = Summary(layers[i])
           ELSE out[place] = None}

LEMMA AddSummaryShows ==
  ASSUME NEW layers, Len(layers) \in Nat, NEW k \in 1..Len(layers),
         NEW out \in Shown(layers, k - 1)
  PROVE  AddSummary(out, layers[k]) \in Shown(layers, k)
<1> DEFINE n == Len(layers)
           l == layers[k]
           Values == {Summary(layers[i]) : i \in 1..n} \cup {None}
           new == AddSummary(out, l)
<1>1. /\ \A i \in 1..k : i \in 1..(k - 1) \/ i = k
      /\ \A i \in 1..(k - 1) : i \in 1..k
      /\ k \in 1..k /\ k \in 1..n
  OBVIOUS
<1>2. /\ out \in [Places -> Values]
      /\ \A place \in Places :
            IF \E i \in 1..(k - 1) : Gives(layers[i], place)
            THEN \E i \in 1..(k - 1) : Gives(layers[i], place) /\ out[place] = Summary(layers[i])
            ELSE out[place] = None
  BY DEF Shown
<1>3. Summary(l) \in Values
  BY <1>1
<1>4. l = layers[k]
  OBVIOUS
<1> HIDE DEF n, Values, l
<1>5. CASE IsStatement(l) /\ Summary(l) # None
  <2>1. Place(l) \in Places
    BY <1>5, SummaryHasPlace
  <2>2. new = [out EXCEPT ![Place(l)] = Summary(l)]
    BY <1>5 DEF AddSummary
  <2> HIDE DEF new
  <2>3. /\ new \in [Places -> Values]
        /\ new[Place(l)] = Summary(l)
        /\ \A place \in Places : place # Place(l) => new[place] = out[place]
    BY <1>2, <1>3, <2>1, <2>2
  <2>4. ASSUME NEW place \in Places
        PROVE  IF \E i \in 1..k : Gives(layers[i], place)
               THEN \E i \in 1..k : Gives(layers[i], place) /\ new[place] = Summary(layers[i])
               ELSE new[place] = None
    <3>1. CASE place = Place(l)
      <4>1. Gives(layers[k], place) /\ new[place] = Summary(layers[k])
        BY <1>4, <1>5, <2>3, <3>1 DEF Gives
      <4> QED BY <1>1, <4>1
    <3>2. CASE place # Place(l)
      <4>1. ~Gives(layers[k], place) /\ new[place] = out[place]
        BY <1>4, <2>3, <3>2 DEF Gives
      <4> QED BY <1>1, <1>2, <4>1
    <3> QED BY <3>1, <3>2
  <2> QED BY <2>3, <2>4 DEF Shown, Values, n, l, new
<1>6. CASE ~(IsStatement(l) /\ Summary(l) # None)
  <2>1. new = out
    BY <1>6 DEF AddSummary
  <2>2. \A place \in Places : ~Gives(layers[k], place)
    BY <1>4, <1>6 DEF Gives
  <2> HIDE DEF new
  <2>3. ASSUME NEW place \in Places
        PROVE  IF \E i \in 1..k : Gives(layers[i], place)
               THEN \E i \in 1..k : Gives(layers[i], place) /\ new[place] = Summary(layers[i])
               ELSE new[place] = None
    BY <1>1, <1>2, <2>1, <2>2
  <2> QED BY <1>2, <2>1, <2>3 DEF Shown, Values, n, l, new
<1> QED BY <1>5, <1>6

\* SummarizeAttestations shows for each place what one of the layers gives for
\* it, and nothing only if none does.
LEMMA SummarizeShows ==
  ASSUME NEW layers, NEW X, layers \in Seq(X)
  PROVE  SummarizeAttestations(layers) \in Shown(layers, Len(layers))
<1> DEFINE n == Len(layers)
           S == [k \in 0..n |-> Shown(layers, k)]
<1>1. Summing!Fold(NoAttestations, layers) = FoldLeft(AddSummary, NoAttestations, layers)
  BY DEF Summing!Fold, FoldLeft, Summing!FoldLeft, MapThenFoldSet,
         Summing!MapThenFoldSet, Max, Summing!Max
<1>2. Summing!Fold(NoAttestations, layers) = SummarizeAttestations(layers)
  BY <1>1 DEF SummarizeAttestations
<1>3. n \in Nat
  OBVIOUS
<1>4. NoAttestations \in Shown(layers, 0)
  <2>1. \A i \in 1..0 : FALSE
    OBVIOUS
  <2>2. /\ NoAttestations = [place \in Places |-> None]
    BY DEF NoAttestations, Places
  <2> QED BY <2>1, <2>2 DEF Shown
<1>5. S[0] = Shown(layers, 0) /\ S[n] = Shown(layers, n)
  BY <1>3
<1>6. ASSUME NEW k \in 1..n, NEW a \in S[k - 1]
      PROVE  AddSummary(a, layers[k]) \in S[k]
  <2>1. S[k - 1] = Shown(layers, k - 1) /\ S[k] = Shown(layers, k)
    BY <1>3
  <2> HIDE DEF S
  <2> QED BY <1>3, <2>1, AddSummaryShows
<1> HIDE DEF S
<1>7. NoAttestations \in S[0]
  BY <1>4, <1>5
<1>8. Summing!Fold(NoAttestations, layers) \in S[n]
  BY <1>2, <1>6, <1>7, Summing!FoldLeftInvariant
<1> QED BY <1>2, <1>5, <1>8

\* Attestations are read for verified images only, and kept until the hand-over.
Listed ==
    /\ listed \in Seq(AttestationLayer \cup {None})
    /\ phase = "attest" => outcome.verified
    /\ phase \notin {"build", "return"} => listed = <<>>
    /\ phase = "build" /\ ~outcome.verified => listed = <<>>

LEMMA ListedNext ==
  InstallInv /\ Listed /\ [InstallNext]_installVars => Listed'
<1> SUFFICES ASSUME InstallInv, Listed, [InstallNext]_installVars PROVE Listed'
  OBVIOUS
<1>1. CASE VerifyStep
  <2>1. outcome = Refused /\ outcome' # Refused => pc' # "idle" \/ outcome'.verified
    BY <1>1, VerifyStepOutcome DEF Outcome
  <2>2. /\ phase = "verify" /\ UNCHANGED listed
        /\ phase' = IF pc' # "idle" THEN "verify"
                    ELSE IF outcome' # Refused THEN "attest" ELSE "return"
    BY <1>1 DEF VerifyStep
  <2>3. outcome = Refused
    BY <2>2 DEF InstallInv, Tied
  <2> QED BY <2>1, <2>2, <2>3 DEF Listed
<1>2. CASE FetchAttestations
  <2>1. PICK layers \in AttestationLists, readable \in SUBSET (1..MaxLayers) :
           listed' = Fetched(layers, readable)
    BY <1>2 DEF FetchAttestations
  <2>2. layers \in Seq(AttestationLayer)
    BY InstallAssumption
  <2>3. listed' \in Seq(AttestationLayer \cup {None})
    BY <2>1, <2>2 DEF Fetched
  <2>4. phase = "attest" /\ phase' = "build" /\ UNCHANGED outcome
    BY <1>2 DEF FetchAttestations, vars
  <2> QED BY <2>3, <2>4 DEF Listed
<1>3. CASE Pull
  BY <1>3 DEF Pull, Listed, vars
<1>4. CASE SkipVerify
  BY <1>4 DEF SkipVerify, Listed
<1>5. CASE StartInstall \/ BeginVerify \/ HandOver \/ HandOverFails \/ ReturnError \/ EndProcess
  <2>1. \/ UNCHANGED listed /\ phase \notin {"build", "return"} /\ phase' \in {"pull", "verify"}
        \/ UNCHANGED listed /\ phase' = "return"
        \/ listed' = <<>> /\ phase' = "idle"
    BY <1>5 DEF StartInstall, BeginVerify, HandOver, HandOverFails, ReturnError, EndProcess
  <2>2. <<>> \in Seq(AttestationLayer \cup {None})
    OBVIOUS
  <2> QED BY <2>1, <2>2 DEF Listed
<1>6. CASE Upstream
  <2>1. UNCHANGED <<phase, listed, outcome>>
    BY <1>6 DEF Upstream, Publish, vars
  <2> QED BY <2>1 DEF Listed
<1>7. CASE UNCHANGED installVars
  BY <1>7 DEF installVars, vars, Listed
<1> QED
  BY <1>1, <1>2, <1>3, <1>4, <1>5, <1>6, <1>7 DEF InstallNext, Continue

\* What the record shows of a place, in terms of the layers that were read.
LEMMA ShownIsSaid ==
  ASSUME NEW layers, NEW X, layers \in Seq(X), NEW place \in Places
  PROVE  LET shown == SummarizeAttestations(layers)[place]
             read == {layers[i] : i \in DOMAIN layers} \ {None}
             said == {Summary(l) : l \in {m \in read : /\ m.envelope # "junk"
                                                       /\ Place(m) = place}} \ {None}
         IN IF said = {} THEN shown = None ELSE shown \in said
<1> DEFINE n == Len(layers)
           shown == SummarizeAttestations(layers)[place]
           read == {layers[i] : i \in DOMAIN layers} \ {None}
           said == {Summary(l) : l \in {m \in read : /\ m.envelope # "junk"
                                                     /\ Place(m) = place}} \ {None}
<1>1. DOMAIN layers = 1..n
  OBVIOUS
<1>2. IF \E i \in 1..n : Gives(layers[i], place)
      THEN \E i \in 1..n : Gives(layers[i], place) /\ shown = Summary(layers[i])
      ELSE shown = None
  BY SummarizeShows DEF Shown
<1>3. ASSUME NEW i \in 1..n, Gives(layers[i], place) PROVE Summary(layers[i]) \in said
  BY <1>1, <1>3 DEF Gives, IsStatement
<1>4. ASSUME NEW v \in said PROVE \E i \in 1..n : Gives(layers[i], place)
  <2>1. PICK i \in 1..n : /\ layers[i] # None /\ layers[i].envelope # "junk"
                          /\ Place(layers[i]) = place /\ Summary(layers[i]) # None
    BY <1>1, <1>4
  <2>2. layers[i].type # ""
    BY <2>1, SummaryHasPlace
  <2> QED BY <2>1, <2>2 DEF Gives, IsStatement
<1>5. IF said = {} THEN shown = None ELSE shown \in said
  <2> HIDE DEF n, shown, said
  <2> QED BY <1>2, <1>3, <1>4
<1> QED BY <1>5

\* The record shows an attestation of a kind exactly when one could be read and
\* summarized, whatever the others are like, for layers of any number and any
\* contents (FetchAttestations, SummarizeAttestations).
THEOREM AttestationsReportedCorrect == InstallSpec => AttestationsReported
<1> DEFINE Reported ==
      \A place \in DOMAIN NoAttestations :
         LET shown == installed'.attestations[place]
             read == {listed[i] : i \in DOMAIN listed} \ {None}
             said == {Summary(l) : l \in {m \in read : /\ m.envelope # "junk"
                                                       /\ Place(m) = place}} \ {None}
         IN IF said = {} \/ ~installed'.verified THEN shown = None ELSE shown \in said
<1>1. InstallInit => InstallInv /\ Listed
  BY DEF InstallInit, Init, PullInit, InstallInv, Phased, Tied, Staged, Listed
<1>2. ASSUME InstallInv, Listed, [InstallNext]_installVars, installed' \notin {installed, None}
      PROVE  Reported
  <2>1. HandOver
    BY <1>2 DEF InstallNext, Continue, StartInstall, Pull, BeginVerify, SkipVerify,
                VerifyStep, FetchAttestations, HandOverFails, ReturnError, EndProcess,
                Upstream, installVars
  <2>2. /\ installed'.attestations = SummarizeAttestations(listed)
        /\ installed'.verified = outcome.verified
        /\ phase = "build"
    BY <2>1 DEF HandOver
  <2>3. listed \in Seq(AttestationLayer \cup {None})
    BY <1>2 DEF Listed
  <2> SUFFICES ASSUME NEW place \in Places
               PROVE  LET shown == SummarizeAttestations(listed)[place]
                          read == {listed[i] : i \in DOMAIN listed} \ {None}
                          said == {Summary(l) : l \in {m \in read : /\ m.envelope # "junk"
                                                                    /\ Place(m) = place}} \ {None}
                      IN IF said = {} \/ ~outcome.verified THEN shown = None ELSE shown \in said
    BY <2>2 DEF NoAttestations, Places
  <2> DEFINE shown == SummarizeAttestations(listed)[place]
             read == {listed[i] : i \in DOMAIN listed} \ {None}
             said == {Summary(l) : l \in {m \in read : /\ m.envelope # "junk"
                                                       /\ Place(m) = place}} \ {None}
  <2>4. IF said = {} THEN shown = None ELSE shown \in said
    BY <2>3, ShownIsSaid
  <2>5. ~outcome.verified => said = {}
    BY <1>2, <2>2 DEF Listed
  <2> HIDE DEF shown, said
  <2>6. IF said = {} \/ ~outcome.verified THEN shown = None ELSE shown \in said
    BY <2>4, <2>5
  <2> QED BY <2>6 DEF shown, said
<1>3. QED
  BY <1>1, <1>2, InstallInvNext, ListedNext, PTL DEF InstallSpec, AttestationsReported
===============================================================================
