-------------------------- MODULE PackageStoreProofs --------------------------
(***************************************************************************)
(* Three parts.  PackageStore is well typed, verification gates everything  *)
(* it holds, and the user's own files under bin/ are never touched: proved  *)
(* for any number of concurrent dz processes, names, digests and            *)
(* registries, any interleaving of their file system calls and any number   *)
(* of crashes.  What current and the wrappers lead to, for any number of    *)
(* names and digests: one dz process, killed any number of times, or        *)
(* several that install different digests.  And that such a store           *)
(* implements PackageLifecycle.                                             *)
(***************************************************************************)
EXTENDS PackageRefinement, TLAPS

-------------------------------------------------------------------------------
\* Type correctness

\* The null values have the type of the variables that hold them.
LEMMA NullTypes ==
    /\ AnyReg \in Registries
    /\ NoMeta \in Metadata
    /\ NoDir \in DigestDir
    /\ NoJob \in Jobs
    /\ NoReport \in Reports
<1>1. AnyReg \in Registries
  BY ConstantsAssumption DEF AnyReg
<1>2. NoMeta \in Metadata
  BY <1>1 DEF NoMeta, Metadata
<1>3. NoDir \in DigestDir
  BY <1>2 DEF NoDir, DigestDir, Rootfs
<1>4. (CHOOSE n \in Names : TRUE) \in Names /\ (CHOOSE d \in Digests : TRUE) \in Digests
  BY ConstantsAssumption
<1>5. NoJob \in Jobs
  BY <1>1, <1>4 DEF NoJob, Jobs, CommandNames
<1>6. NoReport \in Reports
  BY DEF NoReport, Reports
<1> QED BY <1>1, <1>2, <1>3, <1>5, <1>6

\* A running command's name, digest and registry have their types.
LEMMA JobFields ==
    ASSUME TypeOK, NEW p \in Procs
    PROVE  /\ job[p] \in Jobs /\ job[p].name \in Names /\ job[p].dig \in Digests
           /\ job[p].reg \in Registries /\ job[p].verified \in BOOLEAN
           /\ job[p].at \in Nat
           /\ report[p] \in Reports
           /\ report[p].broken \subseteq Names /\ report[p].orphans \subseteq Names
BY DEF TypeOK, Jobs, Reports

\* A step of the control part keeps the types of pc, job and report.
LEMMA ControlType ==
    ASSUME TypeOK, NEW p \in Procs, NEW l \in PCs, NEW j \in Jobs,
           \/ Step(p, l) \/ Return(p) \/ Begin(p, l, j)
    PROVE  /\ pc' \in [Procs -> PCs] /\ job' \in [Procs -> Jobs]
           /\ report' \in [Procs -> Reports]
<1>1. CASE Step(p, l)
  BY <1>1 DEF Step, Goto, TypeOK
<1>2. CASE Return(p)
  BY <1>2, NullTypes DEF Return, Goto, TypeOK, PCs
<1>3. CASE Begin(p, l, j)
  BY <1>3 DEF Begin, Goto, TypeOK
<1> QED BY <1>1, <1>2, <1>3

\* Writing one digest directory keeps the type of dir.
LEMMA DirType ==
    ASSUME TypeOK, NEW n \in Names, NEW d \in Digests, NEW x \in DigestDir,
           dir' = [dir EXCEPT ![n][d] = x]
    PROVE  dir' \in [Names -> [Digests -> DigestDir]]
BY DEF TypeOK

\* Writing one field of a digest directory keeps its type.
LEMMA DirFields ==
    ASSUME TypeOK, NEW n \in Names, NEW d \in Digests
    PROVE  /\ dir[n][d] \in DigestDir
           /\ \A m \in BOOLEAN : [dir[n][d] EXCEPT !.made = m] \in DigestDir
           /\ \A r \in Rootfs : [dir[n][d] EXCEPT !.rootfs = r] \in DigestDir
           /\ \A r \in Rootfs : [dir[n][d] EXCEPT !.made = TRUE, !.rootfs = r] \in DigestDir
           /\ \A m \in Metadata : [dir[n][d] EXCEPT !.meta = m] \in DigestDir
<1>1. dir[n][d] \in DigestDir
  BY DEF TypeOK
<1> DEFINE x == dir[n][d]
<1>2. x \in [made: BOOLEAN, rootfs: Rootfs, meta: Metadata]
  BY <1>1 DEF DigestDir
<1> HIDE DEF x
<1>3. /\ \A m \in BOOLEAN : [x EXCEPT !.made = m] \in DigestDir
      /\ \A r \in Rootfs : [x EXCEPT !.rootfs = r] \in DigestDir
      /\ \A r \in Rootfs : [x EXCEPT !.made = TRUE, !.rootfs = r] \in DigestDir
      /\ \A m \in Metadata : [x EXCEPT !.meta = m] \in DigestDir
  BY <1>2 DEF DigestDir
<1> QED BY <1>1, <1>3 DEF x

\* One deletion of RemoveAll keeps the type of dir.
LEMMA WipeType ==
    ASSUME TypeOK, NEW n \in Names, NEW d \in Digests, Wipe(n, d)
    PROVE  dir' \in [Names -> [Digests -> DigestDir]]
<1>1. \/ dir' = [dir EXCEPT ![n][d] = [dir[n][d] EXCEPT !.rootfs = "partial"]]
      \/ dir' = [dir EXCEPT ![n][d] = [dir[n][d] EXCEPT !.rootfs = "none"]]
      \/ dir' = [dir EXCEPT ![n][d] = [dir[n][d] EXCEPT !.meta = NoMeta]]
      \/ dir' = [dir EXCEPT ![n][d] = NoDir]
  BY DEF Wipe
<1> QED
  BY <1>1, DirType, DirFields, NullTypes DEF Rootfs

\* Every step keeps the types.
LEMMA TypeStep == TypeOK /\ [Next]_vars => TypeOK'
<1> SUFFICES ASSUME TypeOK, [Next]_vars PROVE TypeOK'
  OBVIOUS
<1> USE NullTypes
<1>1. ASSUME NEW p \in Procs, Start(p) PROVE TypeOK'
  <2>1. ASSUME NEW c \in {"install", "update"}, NEW n \in Names, NEW d \in Digests,
               NEW r \in Registries, NEW a, InstallPackage(p, c, n, d, r, a)
        PROVE  TypeOK'
    <3>1. PICK v \in BOOLEAN :
             Begin(p, "parent", [cmd |-> c, name |-> n, dig |-> d, reg |-> r,
                                 verified |-> v, at |-> 0])
      BY <2>1 DEF InstallPackage, verifyImage
    <3>2. [cmd |-> c, name |-> n, dig |-> d, reg |-> r, verified |-> v, at |-> 0] \in Jobs
      BY DEF Jobs, CommandNames
    <3> QED BY <2>1, <3>1, <3>2, ControlType DEF InstallPackage, store, TypeOK, PCs
  <2>2. CASE StartInstall(p)
    BY <2>1, <2>2 DEF StartInstall
  <2>3. CASE ApplyUpdate(p)
    <3>1. PICK n \in Names, d \in Digests, a \in AllowOptions :
             Installed(n) /\ InstallPackage(p, "update", n, d, dir[n][link[n]].meta.reg, a)
      BY <2>3 DEF ApplyUpdate
    <3>2. dir[n][link[n]].meta.reg \in Registries
      BY <3>1 DEF Installed, TypeOK, DigestDir, Metadata
    <3> QED BY <2>1, <3>1, <3>2
  <2>4. CASE StartRemove(p)
    <3>1. PICK n \in Names :
             Begin(p, "unshimRead", [NoJob EXCEPT !.cmd = "remove", !.name = n])
      BY <2>4 DEF StartRemove
    <3>2. [NoJob EXCEPT !.cmd = "remove", !.name = n] \in Jobs
      BY DEF Jobs, CommandNames
    <3> QED BY <2>4, <3>1, <3>2, ControlType DEF StartRemove, store, TypeOK, PCs
  <2>5. CASE Rollback(p)
    <3>1. PICK n \in Names, d \in Digests :
             Begin(p, "stat", [NoJob EXCEPT !.cmd = "rollback", !.name = n, !.dig = d])
      BY <2>5 DEF Rollback, Candidates
    <3>2. [NoJob EXCEPT !.cmd = "rollback", !.name = n, !.dig = d] \in Jobs
      BY DEF Jobs, CommandNames
    <3> QED BY <2>5, <3>1, <3>2, ControlType DEF Rollback, store, TypeOK, PCs
  <2>6. CASE Doctor(p)
    <3>1. [NoJob EXCEPT !.cmd = "doctor"] \in Jobs
      BY DEF Jobs, CommandNames
    <3>2. [broken |-> Broken, orphans |-> Healthy] \in Reports
      BY DEF Broken, Healthy, Reports, TypeOK
    <3> QED BY <2>6, <3>1, <3>2 DEF Doctor, Goto, store, TypeOK, PCs
  <2> QED BY <1>1, <2>2, <2>3, <2>4, <2>5, <2>6 DEF Start
<1>2. ASSUME NEW p \in Procs, Continue(p) PROVE TypeOK'
  <2> DEFINE n == job[p].name  d == job[p].dig
  <2> USE JobFields
  <2>1. CASE MakeParent(p)
    BY <2>1 DEF MakeParent, Step, Goto, TypeOK, PCs
  <2>2. CASE CleanStale(p)
    <3>1. CASE Wipe(n, d) /\ UNCHANGED <<pc, job, report>>
      BY <2>2, <3>1, WipeType DEF CleanStale, TypeOK
    <3>2. CASE Step(p, "mkdir") /\ UNCHANGED dir
      BY <2>2, <3>2 DEF CleanStale, Step, Goto, TypeOK, PCs
    <3> QED BY <2>2, <3>1, <3>2 DEF CleanStale
  <2>3. CASE MakeDigestDir(p)
    <3>1. dir' \in [Names -> [Digests -> DigestDir]]
      BY <2>3, DirFields, DirType DEF MakeDigestDir
    <3> QED BY <2>3, <3>1 DEF MakeDigestDir, Step, Goto, TypeOK, PCs
  <2>4. CASE MoveRootfs(p)
    <3>1. dir' \in [Names -> [Digests -> DigestDir]]
      BY <2>4, DirFields, DirType DEF MoveRootfs, Rootfs
    <3> QED BY <2>4, <3>1 DEF MoveRootfs, Step, Goto, TypeOK, PCs
  <2>5. CASE CopyRootfs(p)
    <3>1. dir' = [dir EXCEPT ![n][d] =
                    [dir[n][d] EXCEPT !.made = TRUE, !.rootfs = "partial"]]
      BY <2>5 DEF CopyRootfs, TypeOK
    <3>2. dir' \in [Names -> [Digests -> DigestDir]]
      BY <3>1, DirFields, DirType DEF Rootfs
    <3> QED BY <2>5, <3>2 DEF CopyRootfs, Step, Goto, TypeOK, PCs
  <2>6. CASE FinishCopy(p)
    <3>1. \/ UNCHANGED dir
          \/ dir' = [dir EXCEPT ![n][d] = [dir[n][d] EXCEPT !.rootfs = "full"]]
          \/ dir' = [dir EXCEPT ![n][d] =
                       [dir[n][d] EXCEPT !.made = TRUE, !.rootfs = "partial"]]
      BY <2>6 DEF FinishCopy, TypeOK
    <3>2. dir' \in [Names -> [Digests -> DigestDir]]
      BY <3>1, DirFields, DirType DEF Rootfs, TypeOK
    <3> QED BY <2>6, <3>2 DEF FinishCopy, Step, Goto, TypeOK, PCs
  <2>7. CASE StampMetadata(p)
    <3>1. [NoMeta EXCEPT !.state = "torn"] \in Metadata
      BY DEF Metadata
    <3>2. dir' \in [Names -> [Digests -> DigestDir]]
      BY <2>7, <3>1, DirFields, DirType DEF StampMetadata, TypeOK
    <3>3. [job[p] EXCEPT !.at = clock] \in Jobs
      BY DEF TypeOK, Jobs
    <3>4. Begin(p, "writeMeta", [job[p] EXCEPT !.at = clock]) \/ Return(p)
      BY <2>7 DEF StampMetadata
    <3>5. /\ pc' \in [Procs -> PCs] /\ job' \in [Procs -> Jobs]
          /\ report' \in [Procs -> Reports]
      BY <3>3, <3>4, ControlType DEF PCs
    <3> QED BY <2>7, <3>2, <3>5 DEF StampMetadata, TypeOK
  <2>8. CASE WriteMetadata(p)
    <3>1. /\ [NoMeta EXCEPT !.state = "torn"] \in Metadata
          /\ [state |-> "ok", at |-> job[p].at, verified |-> job[p].verified,
              reg |-> job[p].reg] \in Metadata
      BY DEF Metadata
    <3>2. dir' \in [Names -> [Digests -> DigestDir]]
      BY <2>8, <3>1, DirFields, DirType DEF WriteMetadata, TypeOK
    <3> QED BY <2>8, <3>2 DEF WriteMetadata, Step, Goto, TypeOK, PCs
  <2>9. CASE RemoveStaleTmp(p)
    BY <2>9 DEF RemoveStaleTmp, Step, Return, Goto, TypeOK, PCs
  <2>10. CASE SymlinkTmp(p)
    BY <2>10 DEF SymlinkTmp, Step, Return, Goto, TypeOK, PCs
  <2>11. CASE SwapCurrent(p)
    <3>1. Step(p, "wrapCheck") \/ Step(p, "dropTmp") \/ Return(p)
      BY <2>11 DEF SwapCurrent
    <3>2. /\ pc' \in [Procs -> PCs] /\ job' \in [Procs -> Jobs]
          /\ report' \in [Procs -> Reports]
      BY <3>1, NullTypes, ControlType DEF PCs
    <3>3. /\ link' \in [Names -> Digests \cup {NoLink}]
          /\ tmp' \in [Names -> Digests \cup {NoLink}]
          /\ UNCHANGED <<pkgDir, dir, wrapper, clock, faults>>
      BY <2>11 DEF SwapCurrent, TypeOK
    <3> QED BY <3>2, <3>3 DEF TypeOK
  <2>12. CASE DropTmp(p)
    BY <2>12 DEF DropTmp, Return, Goto, TypeOK, PCs
  <2>13. CASE CheckWrapper(p)
    BY <2>13 DEF CheckWrapper, Step, Return, Goto, store, TypeOK, PCs
  <2>14. CASE TruncateWrapper(p)
    BY <2>14 DEF TruncateWrapper, Step, Goto, Wrappers, TypeOK, PCs
  <2>15. CASE WriteWrapper(p)
    BY <2>15 DEF WriteWrapper, Return, Goto, Wrappers, TypeOK, PCs
  <2>16. CASE ReadWrapper(p)
    BY <2>16 DEF ReadWrapper, Step, Return, Goto, store, TypeOK, PCs
  <2>17. CASE UnlinkWrapper(p)
    BY <2>17 DEF UnlinkWrapper, Step, Return, Goto, Wrappers, TypeOK, PCs
  <2>18. CASE WipePackage(p)
    <3>1. CASE \E e \in Entries(n) : Wipe(n, e)
                 /\ UNCHANGED <<pkgDir, link, tmp, pc, job, report>>
      BY <2>18, <3>1, WipeType DEF WipePackage, Entries, TypeOK
    <3>2. CASE UNCHANGED dir
      <4>1. Return(p) \/ UNCHANGED <<pc, job, report>>
        BY <2>18 DEF WipePackage
      <4>2. /\ pc' \in [Procs -> PCs] /\ job' \in [Procs -> Jobs]
            /\ report' \in [Procs -> Reports]
        BY <4>1, NullTypes, ControlType DEF PCs, TypeOK
      <4> QED BY <2>18, <3>2, <4>2 DEF WipePackage, TypeOK
    <3> QED BY <2>18, <3>1, <3>2 DEF WipePackage
  <2>19. CASE ScanBin(p)
    BY <2>19 DEF ScanBin, Goto, store, TypeOK, Reports, PCs
  <2>20. CASE FixWrappers(p)
    <3>1. \A m \in Names : [report[p] EXCEPT !.orphans = @ \ {m}] \in Reports
      BY DEF Reports
    <3>2. report' \in [Procs -> Reports]
      BY <2>20, <3>1 DEF FixWrappers, TypeOK
    <3>3. wrapper' \in [Names -> Wrappers]
      BY <2>20 DEF FixWrappers, TypeOK, Wrappers
    <3>4. pc' \in [Procs -> PCs]
      BY <2>20 DEF FixWrappers, Goto, TypeOK, PCs
    <3> QED BY <2>20, <3>2, <3>3, <3>4 DEF FixWrappers, TypeOK
  <2>21. CASE FixLinks(p)
    <3>1. \A m \in Names : [report[p] EXCEPT !.broken = @ \ {m}] \in Reports
      BY DEF Reports
    <3>2. report' \in [Procs -> Reports]
      BY <2>21, <3>1 DEF FixLinks, Return, TypeOK
    <3>3. link' \in [Names -> Digests \cup {NoLink}]
      BY <2>21 DEF FixLinks, TypeOK
    <3>4. pc' \in [Procs -> PCs] /\ job' \in [Procs -> Jobs]
      BY <2>21 DEF FixLinks, Return, Goto, TypeOK, PCs
    <3> QED BY <2>21, <3>2, <3>3, <3>4 DEF FixLinks, TypeOK
  <2> QED BY <1>2, <2>1, <2>2, <2>3, <2>4, <2>5, <2>6, <2>7, <2>8, <2>9, <2>10, <2>11, <2>12, <2>13, <2>14, <2>15, <2>16, <2>17, <2>18, <2>19, <2>20, <2>21 DEF Continue
<1>3. ASSUME NEW p \in Procs, RenameFails(p) PROVE TypeOK'
  BY <1>3 DEF RenameFails, Step, Goto, store, TypeOK, PCs
<1>4. ASSUME NEW p \in Procs, Fault(p) PROVE TypeOK'
  BY <1>4, ControlType DEF Fault, store, TypeOK, PCs
<1>5. ASSUME NEW n \in Names, UserFile(n) PROVE TypeOK'
  BY <1>5 DEF UserFile, TypeOK, Wrappers
<1>6. CASE UNCHANGED vars
  BY <1>6 DEF vars, TypeOK
<1> QED BY <1>1, <1>2, <1>3, <1>4, <1>5, <1>6 DEF Next

\* TypeOK holds in every reachable state.
THEOREM TypeCorrect == Spec => []TypeOK
<1>1. Init => TypeOK
  BY NullTypes DEF Init, TypeOK, Wrappers, PCs
<1>2. TypeOK /\ [Next]_vars => TypeOK'
  BY TypeStep
<1> QED BY <1>1, <1>2, PTL DEF Spec

-------------------------------------------------------------------------------
\* The gate

\* What verifyImage lets through may be recorded as it says.
LEMMA GateTrustworthy ==
    ASSUME NEW r \in Registries, NEW d \in Digests, NEW a \in AllowOptions,
           NEW v \in verifyImage(r, d, a)
    PROVE  Trustworthy(r, d, v)
<1>1. a \in BOOLEAN
  BY ConstantsAssumption
<1>2. CASE r \in PolicyRegistries
  BY <1>2 DEF verifyImage, Trustworthy
<1>3. CASE r \notin PolicyRegistries
  <2>1. a = TRUE /\ ~v
    BY <1>1, <1>3 DEF verifyImage
  <2> QED BY <1>3, <2>1 DEF Trustworthy
<1> QED BY <1>2, <1>3

\* A digest that some registry may record is admissible.
LEMMA TrustworthyAdmissible ==
    ASSUME NEW r \in Registries, NEW d, NEW v \in BOOLEAN, Trustworthy(r, d, v)
    PROVE  Admissible(d)
BY DEF Admissible

\* A step that leaves the store alone and does not bring a process into the
\* middle of a command it had no right to keeps the trust invariant.
LEMMA TrustFrame ==
    ASSUME TypeOK, TrustInv, UNCHANGED <<dir, link, tmp, wrapper>>, JobsTrusted'
    PROVE  TrustInv'
BY DEF TrustInv, StoreTrusted, TmpTrusted

\* Moving one process on, to a place its job has the trust for.
LEMMA JobsStep ==
    ASSUME TypeOK, TrustInv, NEW p \in Procs,
           pc' \in [Procs -> PCs], job' \in [Procs -> Jobs],
           \A q \in Procs \ {p} : pc'[q] = pc[q] /\ job'[q] = job[q],
           pc'[p] \in BuildPCs =>
               Trustworthy(job'[p].reg, job'[p].dig, job'[p].verified),
           pc'[p] \in ActivatePCs => Admissible(job'[p].dig)
    PROVE  JobsTrusted'
BY DEF TrustInv, JobsTrusted

\* A process that goes on with its job.
LEMMA JobsContinue ==
    ASSUME TypeOK, TrustInv, NEW p \in Procs, NEW l \in PCs, Step(p, l),
           l \in BuildPCs => pc[p] \in BuildPCs,
           l \in ActivatePCs => pc[p] \in BuildPCs \cup ActivatePCs
    PROVE  JobsTrusted'
<1>1. /\ pc' = [pc EXCEPT ![p] = l] /\ job' = job
  BY DEF Step, Goto
<1>2. pc[p] \in BuildPCs => Trustworthy(job[p].reg, job[p].dig, job[p].verified)
  BY DEF TrustInv, JobsTrusted
<1>3. pc[p] \in BuildPCs \cup ActivatePCs => Admissible(job[p].dig)
  BY <1>2, JobFields, TrustworthyAdmissible DEF TrustInv, JobsTrusted
<1> QED BY <1>1, <1>2, <1>3 DEF TrustInv, JobsTrusted, TypeOK

\* A process that returns.
LEMMA JobsReturn ==
    ASSUME TypeOK, TrustInv, NEW p \in Procs, Return(p)
    PROVE  JobsTrusted'
<1>1. "idle" \notin BuildPCs /\ "idle" \notin ActivatePCs
  BY DEF BuildPCs, ActivatePCs
<1>2. \A q \in Procs \ {p} : pc'[q] = pc[q] /\ job'[q] = job[q]
  BY DEF Return, Goto, TypeOK
<1>3. pc'[p] = "idle"
  BY DEF Return, Goto, TypeOK
<1> QED BY <1>1, <1>2, <1>3 DEF TrustInv, JobsTrusted

\* Writing one digest directory with what its digest has the trust for.
LEMMA TrustDir ==
    ASSUME TypeOK, TrustInv, NEW n \in Names, NEW d \in Digests, NEW x \in DigestDir,
           dir' = [dir EXCEPT ![n][d] = x],
           x.rootfs # "none" => Admissible(d),
           x.meta.state = "ok" => Trustworthy(x.meta.reg, d, x.meta.verified),
           UNCHANGED <<link, tmp, wrapper>>, JobsTrusted'
    PROVE  TrustInv'
<1>1. ASSUME NEW m \in Names, NEW e \in Digests
      PROVE  /\ dir'[m][e].rootfs # "none" => Admissible(e)
             /\ dir'[m][e].meta.state = "ok" =>
                    Trustworthy(dir'[m][e].meta.reg, e, dir'[m][e].meta.verified)
  <2>1. CASE m = n /\ e = d
    <3>1. dir'[m][e] = x
      BY <2>1 DEF TypeOK
    <3> QED BY <2>1, <3>1
  <2>2. CASE ~(m = n /\ e = d)
    <3>1. dir'[m][e] = dir[m][e]
      BY <2>2 DEF TypeOK
    <3> QED BY <3>1 DEF TrustInv, StoreTrusted
  <2> QED BY <2>1, <2>2
<1> QED BY <1>1 DEF TrustInv, StoreTrusted, TmpTrusted

\* Deleting takes nothing the store trusts and adds nothing.
LEMMA TrustWipe ==
    ASSUME TypeOK, TrustInv, NEW n \in Names, NEW d \in Digests, Wipe(n, d),
           UNCHANGED <<link, tmp, wrapper>>, JobsTrusted'
    PROVE  TrustInv'
<1> DEFINE x == dir[n][d]
<1>1. /\ x \in DigestDir
      /\ x.rootfs # "none" => Admissible(d)
      /\ x.meta.state = "ok" => Trustworthy(x.meta.reg, d, x.meta.verified)
  BY DirFields DEF TrustInv, StoreTrusted
<1>2. CASE x.rootfs = "full" /\ dir' = [dir EXCEPT ![n][d] = [x EXCEPT !.rootfs = "partial"]]
  <2> DEFINE y == [x EXCEPT !.rootfs = "partial"]
  <2>1. y \in DigestDir /\ y.rootfs = "partial" /\ y.meta = x.meta
    BY <1>1 DEF DigestDir, Rootfs
  <2> QED BY <1>1, <1>2, <2>1, TrustDir
<1>3. CASE dir' = [dir EXCEPT ![n][d] = [x EXCEPT !.rootfs = "none"]]
  <2> DEFINE y == [x EXCEPT !.rootfs = "none"]
  <2>1. y \in DigestDir /\ y.rootfs = "none" /\ y.meta = x.meta
    BY <1>1 DEF DigestDir, Rootfs
  <2> QED BY <1>1, <1>3, <2>1, TrustDir
<1>4. CASE dir' = [dir EXCEPT ![n][d] = [x EXCEPT !.meta = NoMeta]]
  <2> DEFINE y == [x EXCEPT !.meta = NoMeta]
  <2>1. y \in DigestDir /\ y.rootfs = x.rootfs /\ y.meta.state = "none"
    BY <1>1, NullTypes DEF DigestDir, NoMeta
  <2> QED BY <1>1, <1>4, <2>1, TrustDir
<1>5. CASE dir' = [dir EXCEPT ![n][d] = NoDir]
  <2>1. NoDir \in DigestDir /\ NoDir.rootfs = "none" /\ NoDir.meta.state = "none"
    BY NullTypes DEF NoDir, NoMeta
  <2> QED BY <1>5, <2>1, TrustDir
<1> QED BY <1>2, <1>3, <1>4, <1>5 DEF Wipe

\* What a running command's job has the trust for.
LEMMA JobTrust ==
    ASSUME TypeOK, TrustInv, NEW p \in Procs
    PROVE  /\ pc[p] \in BuildPCs =>
                 /\ Trustworthy(job[p].reg, job[p].dig, job[p].verified)
                 /\ Admissible(job[p].dig)
           /\ pc[p] \in ActivatePCs => Admissible(job[p].dig)
BY JobFields, TrustworthyAdmissible DEF TrustInv, JobsTrusted

-------------------------------------------------------------------------------
\* Every step keeps the trust invariant.

\* The steps of Build and StoreMetadata.
LEMMA TrustBuild ==
    ASSUME TypeOK, TypeOK', TrustInv, NEW p \in Procs,
           \/ MakeParent(p) \/ CleanStale(p) \/ MakeDigestDir(p)
           \/ MoveRootfs(p) \/ CopyRootfs(p) \/ FinishCopy(p)
           \/ StampMetadata(p) \/ WriteMetadata(p)
    PROVE  TrustInv'
<1> DEFINE n == job[p].name  d == job[p].dig  x == dir[n][d]
<1> USE JobFields
<1>0. /\ x \in DigestDir
      /\ x.rootfs # "none" => Admissible(d)
      /\ x.meta.state = "ok" => Trustworthy(x.meta.reg, d, x.meta.verified)
  BY DirFields DEF TrustInv, StoreTrusted
<1>a. dir \in [Names -> [Digests -> DigestDir]]
  BY DEF TypeOK
<1>1. CASE MakeParent(p)
  <2>1. \E l \in {"clean", "mkdir"} : Step(p, l)
    BY <1>1 DEF MakeParent
  <2>2. JobsTrusted'
    BY <1>1, <2>1, JobsContinue DEF MakeParent, PCs, BuildPCs, ActivatePCs
  <2> QED BY <1>1, <2>2, TrustFrame DEF MakeParent
<1>2. CASE CleanStale(p)
  <2>1. CASE Wipe(n, d) /\ UNCHANGED <<pc, job, report>>
    <3>1. JobsTrusted'
      BY <2>1 DEF TrustInv, JobsTrusted
    <3> QED BY <1>2, <2>1, <3>1, TrustWipe DEF CleanStale
  <2>2. CASE Step(p, "mkdir") /\ UNCHANGED dir
    <3>1. JobsTrusted'
      BY <1>2, <2>2, JobsContinue DEF CleanStale, PCs, BuildPCs, ActivatePCs
    <3> QED BY <1>2, <2>2, <3>1, TrustFrame DEF CleanStale
  <2> QED BY <1>2, <2>1, <2>2 DEF CleanStale
<1>3. CASE MakeDigestDir(p)
  <2> DEFINE y == [x EXCEPT !.made = TRUE]
  <2>1. y \in DigestDir /\ y.rootfs = x.rootfs /\ y.meta = x.meta
    BY <1>0 DEF DigestDir
  <2>2. JobsTrusted'
    BY <1>3, JobsContinue DEF MakeDigestDir, PCs, BuildPCs, ActivatePCs
  <2>3. dir' = [dir EXCEPT ![n][d] = y] /\ UNCHANGED <<link, tmp, wrapper>>
    BY <1>3 DEF MakeDigestDir
  <2> QED BY <1>0, <2>1, <2>2, <2>3, TrustDir
<1>4. CASE MoveRootfs(p)
  <2> DEFINE y == [x EXCEPT !.rootfs = "full"]
  <2>1. y \in DigestDir /\ y.rootfs = "full" /\ y.meta = x.meta
    BY <1>0 DEF DigestDir, Rootfs
  <2>2. JobsTrusted' /\ Admissible(d)
    BY <1>4, JobsContinue, JobTrust DEF MoveRootfs, PCs, BuildPCs, ActivatePCs
  <2>3. dir' = [dir EXCEPT ![n][d] = y] /\ UNCHANGED <<link, tmp, wrapper>>
    BY <1>4 DEF MoveRootfs
  <2> QED BY <1>0, <2>1, <2>2, <2>3, TrustDir
<1>5. CASE CopyRootfs(p)
  <2> DEFINE y == [x EXCEPT !.made = TRUE, !.rootfs = "partial"]
  <2>1. y \in DigestDir /\ y.rootfs = "partial" /\ y.meta = x.meta
    BY <1>0 DEF DigestDir, Rootfs
  <2>2. JobsTrusted' /\ Admissible(d)
    BY <1>5, JobsContinue, JobTrust DEF CopyRootfs, PCs, BuildPCs, ActivatePCs
  <2>3. dir' = [dir EXCEPT ![n][d] = y] /\ UNCHANGED <<link, tmp, wrapper>>
    BY <1>5, <1>a DEF CopyRootfs
  <2> QED BY <1>0, <2>1, <2>2, <2>3, TrustDir
<1>6. CASE FinishCopy(p)
  <2>1. JobsTrusted' /\ Admissible(d)
    BY <1>6, JobsContinue, JobTrust DEF FinishCopy, PCs, BuildPCs, ActivatePCs
  <2>2. CASE dir' = [dir EXCEPT ![n][d] = [x EXCEPT !.rootfs = "full"]]
    <3> DEFINE y == [x EXCEPT !.rootfs = "full"]
    <3>1. y \in DigestDir /\ y.rootfs = "full" /\ y.meta = x.meta
      BY <1>0 DEF DigestDir, Rootfs
    <3>2. UNCHANGED <<link, tmp, wrapper>>
      BY <1>6 DEF FinishCopy
    <3> QED BY <1>0, <2>1, <2>2, <3>1, <3>2, TrustDir
  <2>3. CASE dir' = [dir EXCEPT ![n][d] = [x EXCEPT !.made = TRUE, !.rootfs = "partial"]]
    <3> DEFINE y == [x EXCEPT !.made = TRUE, !.rootfs = "partial"]
    <3>1. y \in DigestDir /\ y.rootfs = "partial" /\ y.meta = x.meta
      BY <1>0 DEF DigestDir, Rootfs
    <3>2. UNCHANGED <<link, tmp, wrapper>>
      BY <1>6 DEF FinishCopy
    <3> QED BY <1>0, <2>1, <2>3, <3>1, <3>2, TrustDir
  <2>4. CASE UNCHANGED dir
    BY <1>6, <2>1, <2>4, TrustFrame DEF FinishCopy
  <2>5. \/ dir' = [dir EXCEPT ![n][d] = [x EXCEPT !.rootfs = "full"]]
        \/ dir' = [dir EXCEPT ![n][d] = [x EXCEPT !.made = TRUE, !.rootfs = "partial"]]
        \/ UNCHANGED dir
    BY <1>6, <1>a DEF FinishCopy
  <2> QED BY <2>2, <2>3, <2>4, <2>5
<1>7. CASE StampMetadata(p)
  <2>1. CASE Return(p) /\ UNCHANGED dir
    BY <1>7, <2>1, JobsReturn, TrustFrame DEF StampMetadata
  <2>2. CASE /\ dir' = [dir EXCEPT ![n][d].meta = [NoMeta EXCEPT !.state = "torn"]]
             /\ Begin(p, "writeMeta", [job[p] EXCEPT !.at = clock])
    <3> DEFINE y == [x EXCEPT !.meta = [NoMeta EXCEPT !.state = "torn"]]
    <3>1. y \in DigestDir /\ y.rootfs = x.rootfs /\ y.meta.state = "torn"
      BY <1>0, NullTypes DEF DigestDir, Metadata
    <3>2. /\ job'[p].reg = job[p].reg /\ job'[p].dig = d
          /\ job'[p].verified = job[p].verified
          /\ \A q \in Procs \ {p} : pc'[q] = pc[q] /\ job'[q] = job[q]
      BY <2>2 DEF Begin, Goto, TypeOK, Jobs
    <3>3. Trustworthy(job[p].reg, d, job[p].verified) /\ Admissible(d)
      BY <1>7, JobTrust DEF StampMetadata, BuildPCs
    <3>4. JobsTrusted'
      BY <3>2, <3>3, JobsStep DEF TypeOK
    <3>5. UNCHANGED <<link, tmp, wrapper>>
      BY <1>7 DEF StampMetadata
    <3> QED BY <1>0, <2>2, <3>1, <3>3, <3>4, <3>5, TrustDir
  <2> QED BY <1>7, <2>1, <2>2 DEF StampMetadata
<1>8. CASE WriteMetadata(p)
  <2> DEFINE rec == [state |-> "ok", at |-> job[p].at, verified |-> job[p].verified,
                     reg |-> job[p].reg]
             torn == [NoMeta EXCEPT !.state = "torn"]
  <2>1. JobsTrusted' /\ Trustworthy(job[p].reg, d, job[p].verified)
    BY <1>8, JobsContinue, JobTrust DEF WriteMetadata, PCs, BuildPCs, ActivatePCs
  <2>2. UNCHANGED <<link, tmp, wrapper>>
    BY <1>8 DEF WriteMetadata
  <2>3. CASE dir' = [dir EXCEPT ![n][d].meta = rec]
    <3> DEFINE y == [x EXCEPT !.meta = rec]
    <3>1. /\ y \in DigestDir /\ y.rootfs = x.rootfs
          /\ y.meta.reg = job[p].reg /\ y.meta.verified = job[p].verified
      BY <1>0 DEF DigestDir, Metadata
    <3> HIDE DEF y, rec
    <3>2. dir' = [dir EXCEPT ![n][d] = y]
      BY <2>3 DEF y
    <3> QED BY <1>0, <2>1, <2>2, <3>1, <3>2, TrustDir
  <2>4. CASE dir' = [dir EXCEPT ![n][d].meta = torn]
    <3> DEFINE y == [x EXCEPT !.meta = torn]
    <3>1. y \in DigestDir /\ y.rootfs = x.rootfs /\ y.meta.state = "torn"
      BY <1>0, NullTypes DEF DigestDir, Metadata
    <3> QED BY <1>0, <2>1, <2>2, <2>4, <3>1, TrustDir
  <2>5. CASE UNCHANGED dir
    BY <2>1, <2>2, <2>5, TrustFrame
  <2> QED BY <1>8, <2>3, <2>4, <2>5 DEF WriteMetadata
<1> QED BY <1>1, <1>2, <1>3, <1>4, <1>5, <1>6, <1>7, <1>8

\* The steps of SetCurrent and of the wrapper.
LEMMA TrustActivate ==
    ASSUME TypeOK, TypeOK', TrustInv, NEW p \in Procs,
           \/ RemoveStaleTmp(p) \/ SymlinkTmp(p) \/ SwapCurrent(p) \/ DropTmp(p)
           \/ CheckWrapper(p) \/ TruncateWrapper(p) \/ WriteWrapper(p)
           \/ RenameFails(p)
    PROVE  TrustInv'
<1> DEFINE n == job[p].name  d == job[p].dig
<1> USE JobFields
<1>0. /\ tmp \in [Names -> Digests \cup {NoLink}]
      /\ link \in [Names -> Digests \cup {NoLink}]
      /\ wrapper \in [Names -> Wrappers]
  BY DEF TypeOK
<1>1. CASE RemoveStaleTmp(p)
  <2>1. JobsTrusted'
    BY <1>1, JobsContinue, JobsReturn DEF RemoveStaleTmp, PCs, BuildPCs, ActivatePCs
  <2>2. /\ \A m \in Names : tmp'[m] \in {tmp[m], NoLink}
        /\ UNCHANGED <<dir, link, wrapper>>
    BY <1>0, <1>1 DEF RemoveStaleTmp
  <2> QED BY <2>1, <2>2 DEF TrustInv, StoreTrusted, TmpTrusted
<1>2. CASE SymlinkTmp(p)
  <2>1. JobsTrusted' /\ Admissible(d)
    BY <1>2, JobsContinue, JobsReturn, JobTrust
       DEF SymlinkTmp, PCs, BuildPCs, ActivatePCs
  <2>2. /\ \A m \in Names : tmp'[m] \in {tmp[m], d}
        /\ UNCHANGED <<dir, link, wrapper>>
    BY <1>0, <1>2 DEF SymlinkTmp
  <2> QED BY <2>1, <2>2 DEF TrustInv, StoreTrusted, TmpTrusted
<1>3. CASE SwapCurrent(p)
  <2>1. JobsTrusted'
    BY <1>3, JobsContinue, JobsReturn DEF SwapCurrent, PCs, BuildPCs, ActivatePCs
  <2>2. /\ \A m \in Names : tmp'[m] \in {tmp[m], NoLink}
        /\ \A m \in Names : link'[m] \in {link[m], tmp[m]}
        /\ UNCHANGED <<dir, wrapper>>
    BY <1>0, <1>3 DEF SwapCurrent
  <2> QED BY <2>1, <2>2 DEF TrustInv, StoreTrusted, TmpTrusted
<1>4. CASE DropTmp(p)
  <2>1. JobsTrusted'
    BY <1>4, JobsReturn DEF DropTmp
  <2>2. /\ \A m \in Names : tmp'[m] \in {tmp[m], NoLink}
        /\ UNCHANGED <<dir, link, wrapper>>
    BY <1>0, <1>4 DEF DropTmp
  <2> QED BY <2>1, <2>2 DEF TrustInv, StoreTrusted, TmpTrusted
<1>5. CASE CheckWrapper(p)
  <2>1. JobsTrusted'
    BY <1>5, JobsContinue, JobsReturn DEF CheckWrapper, PCs, BuildPCs, ActivatePCs
  <2> QED BY <1>5, <2>1, TrustFrame DEF CheckWrapper, store
<1>6. CASE TruncateWrapper(p)
  <2>1. JobsTrusted'
    BY <1>6, JobsContinue DEF TruncateWrapper, PCs, BuildPCs, ActivatePCs
  <2>2. /\ \A m \in Names : wrapper'[m] \in {wrapper[m], EmptyFile}
        /\ UNCHANGED <<dir, link, tmp>>
    BY <1>0, <1>6 DEF TruncateWrapper
  <2>3. ~isDropzoneWrapper(EmptyFile)
    BY ConstantsAssumption DEF isDropzoneWrapper
  <2> QED BY <2>1, <2>2, <2>3 DEF TrustInv, StoreTrusted, TmpTrusted
<1>7. CASE WriteWrapper(p)
  <2>1. JobsTrusted' /\ Admissible(d)
    BY <1>7, JobsReturn, JobTrust DEF WriteWrapper, ActivatePCs
  <2>2. /\ \A m \in Names : wrapper'[m] \in {wrapper[m], d}
        /\ UNCHANGED <<dir, link, tmp>>
    BY <1>0, <1>7 DEF WriteWrapper
  <2> QED BY <2>1, <2>2 DEF TrustInv, StoreTrusted, TmpTrusted
<1>8. CASE RenameFails(p)
  <2>1. JobsTrusted'
    BY <1>8, JobsContinue DEF RenameFails, PCs, BuildPCs, ActivatePCs
  <2> QED BY <1>8, <2>1, TrustFrame DEF RenameFails, store
<1> QED BY <1>1, <1>2, <1>3, <1>4, <1>5, <1>6, <1>7, <1>8

\* remove and doctor --fix only take away.
LEMMA TrustTakeAway ==
    ASSUME TypeOK, TypeOK', TrustInv, NEW p \in Procs,
           \/ ReadWrapper(p) \/ UnlinkWrapper(p) \/ WipePackage(p)
           \/ ScanBin(p) \/ FixWrappers(p) \/ FixLinks(p)
    PROVE  TrustInv'
<1> DEFINE n == job[p].name
<1> USE JobFields
<1>0. /\ tmp \in [Names -> Digests \cup {NoLink}]
      /\ link \in [Names -> Digests \cup {NoLink}]
      /\ wrapper \in [Names -> Wrappers]
      /\ ~isDropzoneWrapper(NoFile)
  BY ConstantsAssumption DEF TypeOK, isDropzoneWrapper
<1>1. CASE ReadWrapper(p)
  <2>1. JobsTrusted'
    BY <1>1, JobsContinue, JobsReturn DEF ReadWrapper, PCs, BuildPCs, ActivatePCs
  <2> QED BY <1>1, <2>1, TrustFrame DEF ReadWrapper, store
<1>2. CASE UnlinkWrapper(p)
  <2>1. JobsTrusted'
    BY <1>2, JobsContinue, JobsReturn DEF UnlinkWrapper, PCs, BuildPCs, ActivatePCs
  <2>2. /\ \A m \in Names : wrapper'[m] \in {wrapper[m], NoFile}
        /\ UNCHANGED <<dir, link, tmp>>
    BY <1>0, <1>2 DEF UnlinkWrapper
  <2> QED BY <1>0, <2>1, <2>2 DEF TrustInv, StoreTrusted, TmpTrusted
<1>3. CASE WipePackage(p)
  <2>1. JobsTrusted'
    <3>1. CASE UNCHANGED <<pc, job, report>>
      BY <3>1 DEF TrustInv, JobsTrusted
    <3>2. CASE Return(p)
      BY <3>2, JobsReturn
    <3> QED BY <1>3, <3>1, <3>2 DEF WipePackage
  <2>2. CASE \E d \in Entries(n) : Wipe(n, d) /\ UNCHANGED <<link, tmp, wrapper>>
    BY <2>1, <2>2, TrustWipe DEF Entries
  <2>3. CASE UNCHANGED dir
    <3>1. /\ \A m \in Names : tmp'[m] \in {tmp[m], NoLink}
          /\ \A m \in Names : link'[m] \in {link[m], NoLink}
          /\ UNCHANGED wrapper
      BY <1>0, <1>3 DEF WipePackage
    <3> QED BY <2>1, <2>3, <3>1 DEF TrustInv, StoreTrusted, TmpTrusted
  <2> QED BY <1>3, <2>2, <2>3 DEF WipePackage
<1>4. CASE ScanBin(p)
  <2>1. JobsTrusted'
    BY <1>4 DEF ScanBin, Goto, TrustInv, JobsTrusted, TypeOK, BuildPCs, ActivatePCs
  <2> QED BY <1>4, <2>1, TrustFrame DEF ScanBin, store
<1>5. CASE FixWrappers(p)
  <2>1. JobsTrusted'
    BY <1>5 DEF FixWrappers, Goto, TrustInv, JobsTrusted, TypeOK, BuildPCs, ActivatePCs
  <2>2. /\ \A m \in Names : wrapper'[m] \in {wrapper[m], NoFile}
        /\ UNCHANGED <<dir, link, tmp>>
    BY <1>0, <1>5 DEF FixWrappers
  <2> QED BY <1>0, <2>1, <2>2 DEF TrustInv, StoreTrusted, TmpTrusted
<1>6. CASE FixLinks(p)
  <2>1. JobsTrusted'
    <3>1. CASE UNCHANGED <<pc, job>>
      BY <3>1 DEF TrustInv, JobsTrusted
    <3>2. CASE Return(p)
      BY <3>2, JobsReturn
    <3> QED BY <1>6, <3>1, <3>2 DEF FixLinks
  <2>2. /\ \A m \in Names : link'[m] \in {link[m], NoLink}
        /\ UNCHANGED <<dir, tmp, wrapper>>
    BY <1>0, <1>6 DEF FixLinks
  <2> QED BY <2>1, <2>2 DEF TrustInv, StoreTrusted, TmpTrusted
<1> QED BY <1>1, <1>2, <1>3, <1>4, <1>5, <1>6

\* A command starts with the trust its first step needs: an install has it
\* from verifyImage, a rollback from the metadata it read.
LEMMA TrustStart ==
    ASSUME TypeOK, TypeOK', TrustInv, NEW p \in Procs, Start(p)
    PROVE  TrustInv'
<1>0. UNCHANGED store
  BY DEF Start, StartInstall, ApplyUpdate, InstallPackage, StartRemove, Rollback, Doctor
<1> SUFFICES JobsTrusted'
  BY <1>0, TrustFrame DEF store
<1>1. \A q \in Procs \ {p} : pc'[q] = pc[q] /\ job'[q] = job[q]
  BY DEF Start, StartInstall, ApplyUpdate, InstallPackage, StartRemove, Rollback,
         Doctor, Begin, Goto, TypeOK
<1>c. \A l \in {"unshimRead", "scanBin"} : l \notin BuildPCs /\ l \notin ActivatePCs
  BY DEF BuildPCs, ActivatePCs
<1>a. "stat" \notin BuildPCs /\ "parent" \notin ActivatePCs
  BY DEF BuildPCs, ActivatePCs
<1>b. pc' \in [Procs -> PCs] /\ job' \in [Procs -> Jobs]
  BY DEF TypeOK
<1>2. ASSUME NEW c \in CommandNames, NEW n \in Names, NEW d \in Digests, NEW r \in Registries,
             NEW a \in AllowOptions, InstallPackage(p, c, n, d, r, a)
      PROVE  JobsTrusted'
  <2>1. PICK v \in verifyImage(r, d, a) :
           Begin(p, "parent", [cmd |-> c, name |-> n, dig |-> d, reg |-> r,
                               verified |-> v, at |-> 0])
    BY <1>2 DEF InstallPackage
  <2>2. /\ pc'[p] = "parent" /\ job'[p].reg = r /\ job'[p].dig = d
        /\ job'[p].verified = v
    BY <2>1 DEF Begin, Goto, TypeOK
  <2> QED BY <1>1, <2>2, <1>a, <1>b, GateTrustworthy, JobsStep
<1>3. CASE StartInstall(p)
  <2>1. PICK n \in Names, d \in Digests, r \in Registries, a \in AllowOptions :
           InstallPackage(p, "install", n, d, r, a)
    BY <1>3 DEF StartInstall
  <2> QED BY <1>2, <2>1 DEF CommandNames
<1>4. CASE ApplyUpdate(p)
  <2>1. PICK n \in Names, d \in Digests, a \in AllowOptions :
           Installed(n) /\ InstallPackage(p, "update", n, d, dir[n][link[n]].meta.reg, a)
    BY <1>4 DEF ApplyUpdate
  <2>2. dir[n][link[n]].meta.reg \in Registries
    BY <2>1 DEF Installed, TypeOK, DigestDir, Metadata
  <2> QED BY <1>2, <2>1, <2>2 DEF CommandNames
<1>5. CASE StartRemove(p)
  <2>1. pc'[p] = "unshimRead"
    BY <1>5 DEF StartRemove, Begin, Goto, TypeOK
  <2> QED BY <1>1, <1>c, <2>1 DEF TrustInv, JobsTrusted
<1>6. CASE Rollback(p)
  <2>1. PICK n \in Names, d \in Digests :
           /\ d \in Candidates(n)
           /\ Begin(p, "stat", [NoJob EXCEPT !.cmd = "rollback", !.name = n, !.dig = d])
    BY <1>6 DEF Rollback, Candidates
  <2>2. d \in Digests /\ dir[n][d].meta.state = "ok"
    BY <2>1 DEF Candidates, Readable
  <2>3. Admissible(d)
    <3>1. /\ dir[n][d].meta.reg \in Registries
          /\ dir[n][d].meta.verified \in BOOLEAN
          /\ Trustworthy(dir[n][d].meta.reg, d, dir[n][d].meta.verified)
      BY <2>1, <2>2 DEF TypeOK, DigestDir, Metadata, TrustInv, StoreTrusted
    <3> QED BY <3>1, TrustworthyAdmissible
  <2>4. pc'[p] = "stat" /\ job'[p].dig = d
    BY <2>1, NullTypes DEF Begin, Goto, TypeOK, Jobs
  <2> QED BY <1>1, <1>a, <1>b, <2>3, <2>4, JobsStep
<1>7. CASE Doctor(p)
  <2>1. pc'[p] = "scanBin"
    BY <1>7 DEF Doctor, Goto, TypeOK
  <2> QED BY <1>1, <1>c, <2>1 DEF TrustInv, JobsTrusted
<1> QED BY <1>3, <1>4, <1>5, <1>6, <1>7 DEF Start

LEMMA TrustStep == TypeOK /\ TypeOK' /\ TrustInv /\ [Next]_vars => TrustInv'
<1> SUFFICES ASSUME TypeOK, TypeOK', TrustInv, [Next]_vars PROVE TrustInv'
  OBVIOUS
<1>1. ASSUME NEW p \in Procs, Start(p) PROVE TrustInv'
  BY <1>1, TrustStart
<1>2. ASSUME NEW p \in Procs, Continue(p) \/ RenameFails(p) PROVE TrustInv'
  BY <1>2, TrustBuild, TrustActivate, TrustTakeAway DEF Continue
<1>3. ASSUME NEW p \in Procs, Fault(p) PROVE TrustInv'
  BY <1>3, JobsReturn, TrustFrame DEF Fault, store
<1>4. ASSUME NEW n \in Names, UserFile(n) PROVE TrustInv'
  <2>1. JobsTrusted'
    BY <1>4 DEF UserFile, TrustInv, JobsTrusted
  <2>2. /\ \A m \in Names : wrapper'[m] \in {wrapper[m], NoFile, ForeignFile}
        /\ UNCHANGED <<dir, link, tmp>>
    BY <1>4 DEF UserFile, TypeOK
  <2>3. ~isDropzoneWrapper(NoFile) /\ ~isDropzoneWrapper(ForeignFile)
    BY ConstantsAssumption DEF isDropzoneWrapper
  <2> QED BY <2>1, <2>2, <2>3 DEF TrustInv, StoreTrusted, TmpTrusted
<1>5. CASE UNCHANGED vars
  BY <1>5 DEF vars, TrustInv, StoreTrusted, JobsTrusted, TmpTrusted
<1> QED BY <1>1, <1>2, <1>3, <1>4, <1>5 DEF Next

\* Whatever the commands, their interleaving and the crashes: everything on
\* disk, and everything a running command is about to put there, has passed
\* verification, and every metadata record says truly whether it was signed
\* (the gate of verifyImage before InstallPackage writes anything).
THEOREM TrustCorrect == Spec => []TrustInv
<1>1. Init => TrustInv
  <2>1. "idle" \notin BuildPCs /\ "idle" \notin ActivatePCs
    BY DEF BuildPCs, ActivatePCs
  <2>2. ~isDropzoneWrapper(NoFile)
    BY ConstantsAssumption DEF isDropzoneWrapper
  <2> QED BY <2>1, <2>2 DEF Init, TrustInv, StoreTrusted, JobsTrusted, TmpTrusted,
                           NoDir, NoMeta
<1>2. TypeOK /\ TypeOK' /\ TrustInv /\ [Next]_vars => TrustInv'
  BY TrustStep
<1> QED BY <1>1, <1>2, TypeCorrect, PTL DEF Spec

\* The part a user sees: files, metadata, active versions and commands.
THEOREM StoreTrustedCorrect == Spec => []StoreTrusted
<1>1. TrustInv => StoreTrusted
  BY DEF TrustInv
<1> QED BY <1>1, TrustCorrect, PTL

-------------------------------------------------------------------------------
\* The user's files

Past == {"wrapTruncate", "wrapWrite", "unshimRemove"}

\* One call of a dz process neither brings a user's file into being nor takes
\* the process past its marker check in front of one.
LEMMA MarkerCall ==
    ASSUME TypeOK, PastMarkerCheck, NEW p \in Procs,
           Continue(p) \/ RenameFails(p) \/ Fault(p)
    PROVE  /\ \A m \in Names : wrapper'[m] = ForeignFile <=> wrapper[m] = ForeignFile
           /\ \A q \in Procs \ {p} : pc'[q] = pc[q] /\ job'[q] = job[q]
           /\ pc'[p] \in Past => /\ job'[p].name = job[p].name
                                 /\ wrapper'[job[p].name] # ForeignFile
<1> DEFINE n == job[p].name
           Elsewhere == \A q \in Procs \ {p} : pc'[q] = pc[q] /\ job'[q] = job[q]
<1>0. /\ n \in Names /\ job[p].dig \in Digests
      /\ wrapper \in [Names -> Wrappers] /\ pc \in [Procs -> PCs] /\ job \in [Procs -> Jobs]
      /\ \A f : isDropzoneWrapper(f) => f # ForeignFile
      /\ NoFile # ForeignFile /\ EmptyFile # ForeignFile /\ ForeignFile \notin Digests
  BY JobFields, ConstantsAssumption DEF TypeOK, isDropzoneWrapper
<1>1. CASE CheckWrapper(p)
  BY <1>0, <1>1 DEF CheckWrapper, Step, Return, Goto, store, Past
<1>2. CASE TruncateWrapper(p)
  <2>1. wrapper[n] # ForeignFile
    BY <1>2 DEF TruncateWrapper, PastMarkerCheck
  <2> QED BY <1>0, <1>2, <2>1 DEF TruncateWrapper, Step, Goto
<1>3. CASE WriteWrapper(p)
  <2>1. wrapper[n] # ForeignFile
    BY <1>3 DEF WriteWrapper, PastMarkerCheck
  <2> QED BY <1>0, <1>3, <2>1 DEF WriteWrapper, Return, Goto, Past
<1>4. CASE ReadWrapper(p)
  BY <1>0, <1>4 DEF ReadWrapper, Step, Return, Goto, store, Past
<1>5. CASE UnlinkWrapper(p)
  <2>1. wrapper[n] # ForeignFile
    BY <1>5 DEF UnlinkWrapper, PastMarkerCheck
  <2> QED BY <1>0, <1>5, <2>1 DEF UnlinkWrapper, Step, Return, Goto, Past
<1>6. CASE FixWrappers(p)
  BY <1>0, <1>6 DEF FixWrappers, Goto, Past
<1>7. CASE \/ MakeParent(p) \/ CleanStale(p) \/ MakeDigestDir(p)
           \/ MoveRootfs(p) \/ CopyRootfs(p) \/ FinishCopy(p)
           \/ StampMetadata(p) \/ WriteMetadata(p)
  <2>1. UNCHANGED wrapper
    BY <1>7 DEF MakeParent, CleanStale, MakeDigestDir, MoveRootfs, CopyRootfs,
                FinishCopy, StampMetadata, WriteMetadata
  <2>2. Elsewhere /\ pc'[p] \notin Past
    BY <1>0, <1>7 DEF MakeParent, CleanStale, MakeDigestDir, MoveRootfs, CopyRootfs,
                FinishCopy, StampMetadata, WriteMetadata, Step, Return, Begin, Goto, Past
  <2> QED BY <2>1, <2>2
<1>8. CASE \/ RemoveStaleTmp(p) \/ SymlinkTmp(p) \/ SwapCurrent(p) \/ DropTmp(p)
           \/ WipePackage(p) \/ ScanBin(p) \/ FixLinks(p) \/ RenameFails(p) \/ Fault(p)
  <2>1. UNCHANGED wrapper
    BY <1>8 DEF RemoveStaleTmp, SymlinkTmp, SwapCurrent, DropTmp, WipePackage, ScanBin,
                FixLinks, RenameFails, Fault, store
  <2>2. Elsewhere /\ pc'[p] \notin Past
    BY <1>0, <1>8 DEF RemoveStaleTmp, SymlinkTmp, SwapCurrent, DropTmp, WipePackage,
                ScanBin, FixLinks, RenameFails, Fault, Step, Return, Goto, Past
  <2> QED BY <2>1, <2>2
<1> QED BY <1>1, <1>2, <1>3, <1>4, <1>5, <1>6, <1>7, <1>8 DEF Continue

\* A process past its marker check never has a user's file in front of it.
LEMMA MarkerStep ==
    ASSUME UserWaits, TypeOK, PastMarkerCheck, [Next]_vars
    PROVE  PastMarkerCheck'
<1>1. ASSUME NEW p \in Procs, Start(p) PROVE PastMarkerCheck'
  <2>1. /\ UNCHANGED wrapper /\ pc'[p] \notin Past
        /\ \A q \in Procs \ {p} : pc'[q] = pc[q] /\ job'[q] = job[q]
    BY <1>1 DEF Start, StartInstall, ApplyUpdate, InstallPackage, StartRemove,
                Rollback, Doctor, Begin, Goto, store, TypeOK, Past
  <2> QED BY <2>1 DEF PastMarkerCheck, Past
<1>2. ASSUME NEW p \in Procs, Continue(p) \/ RenameFails(p) \/ Fault(p)
      PROVE  PastMarkerCheck'
  BY <1>2, MarkerCall, JobFields DEF PastMarkerCheck, Past
<1>3. ASSUME NEW n \in Names, UserFile(n) PROVE PastMarkerCheck'
  BY <1>3 DEF UserFile, Quiescent, PastMarkerCheck
<1>4. CASE UNCHANGED vars
  BY <1>4 DEF vars, PastMarkerCheck
<1> QED BY <1>1, <1>2, <1>3, <1>4 DEF Next

\* However many dz processes install, remove and repair at once, none overwrites
\* or deletes a file the user put under bin/ while none of them ran, although
\* InstallWrapper and RemoveWrapper read the marker in one call and act in
\* another.  One put there between the two calls is overwritten: UserWaits.
THEOREM ForeignFilesKeptCorrect ==
  ASSUME UserWaits
  PROVE  Spec => ForeignFilesKept
<1>1. Init => PastMarkerCheck
  BY DEF Init, PastMarkerCheck
<1>2. TypeOK /\ PastMarkerCheck /\ [Next]_vars => PastMarkerCheck'
  BY MarkerStep
<1>3. TypeOK /\ PastMarkerCheck /\ [Next]_vars => [KeepsForeign]_vars
  <2> SUFFICES ASSUME TypeOK, PastMarkerCheck, Next PROVE KeepsForeign
    OBVIOUS
  <2>1. ASSUME NEW p \in Procs, Start(p) PROVE KeepsForeign
    BY <2>1 DEF Start, StartInstall, ApplyUpdate, InstallPackage, StartRemove,
                Rollback, Doctor, store, KeepsForeign
  <2>2. ASSUME NEW p \in Procs, Continue(p) \/ RenameFails(p) \/ Fault(p) PROVE KeepsForeign
    BY <2>2, MarkerCall DEF KeepsForeign
  <2>3. ASSUME NEW n \in Names, UserFile(n) PROVE KeepsForeign
    BY <2>3 DEF UserFile, KeepsForeign
  <2> QED BY <2>1, <2>2, <2>3 DEF Next
<1> QED BY <1>1, <1>2, <1>3, TypeCorrect, PTL DEF Spec, ForeignFilesKept

-------------------------------------------------------------------------------
\* Hypotheses on how dz is used.  The code takes no lock across processes and
\* deletes the directory of a digest it installs again: without these, the
\* properties below do not hold (store_reinstall).

\* At most one dz process at a time.
Solo == \A p, q \in Procs : p = q

\* Processes that run at the same time install different digests, nothing is
\* removed while they do, and none is killed.
Apart ==
    /\ \A p, q \in Procs : p # q => Fetches[p] \cap Fetches[q] = {}
    /\ "remove" \notin Commands /\ MaxFaults = 0

\* The active digest is not installed again, and only one process that is never
\* killed rolls back: a removal or an install that is cut short can leave a
\* directory with its metadata but not all of its files, which rollback takes
\* for a version.
Orderly ==
    /\ ~ReinstallCurrent
    /\ Solo \/ Apart
    /\ "rollback" \in Commands => Solo /\ MaxFaults = 0

-------------------------------------------------------------------------------
\* The inductive invariants

RemovePCs == {"unshimRead", "unshimRemove", "wipe"}
WrapPCs   == {"wrapCheck", "wrapTruncate", "wrapWrite"}
DoctorPCs == {"scanBin", "fixWrappers", "fixLinks"}

\* The digest directory the job of p is about.
Target(p) == dir[job[p].name][job[p].dig]

\* What runs is what the process may run.
Owned(p) ==
    /\ pc[p] \in BuildPCs \cup ActivatePCs =>
          /\ Solo \/ job[p].dig \in Fetches[p]
          /\ job[p].cmd \in Commands
    /\ pc[p] \in RemovePCs => Solo /\ "remove" \in Commands

\* How far the digest directory has come.
Built(p) ==
    /\ pc[p] = "copying" => Target(p).made /\ Target(p).rootfs # "none"
    /\ pc[p] \in {"stamp", "writeMeta"} => Target(p).made /\ Target(p).rootfs = "full"
    /\ pc[p] = "writeMeta" => Target(p).meta.state = "torn"
    /\ pc[p] \in {"stat", "symlink", "rename"} => Complete(job[p].name, job[p].dig)

\* The directory being built is not the active one.
Fresh(p) ==
    pc[p] \in BuildPCs \cup {"stat", "symlink"} => link[job[p].name] # job[p].dig

\* Where rollbacks happen, metadata stand for a whole directory, but for one
\* that is being built or removed.
Whole(p) ==
    "rollback" \in Commands =>
        \A n \in Names, d \in Digests : Readable(n, d) /\ ~Complete(n, d) =>
            /\ n = job[p].name
            /\ pc[p] = "wipe" \/ (pc[p] \in BuildPCs /\ d = job[p].dig)

\* The link a process is about to make current is its own or that of another
\* process that is about to do the same.
Offered(p) ==
    pc[p] = "rename" /\ tmp[job[p].name] # NoLink =>
        \E q \in Procs : /\ pc[q] = "rename" /\ job[q].name = job[p].name
                         /\ job[q].dig = tmp[job[p].name]

BuildInv == \A p \in Procs : Owned(p) /\ Built(p) /\ Fresh(p) /\ Whole(p) /\ Offered(p)

Marked(n) == isDropzoneWrapper(wrapper[n])
Dangling(n) == link[n] # NoLink /\ ~Exists(n, link[n])

\* A directory that is not there holds no files.
DirShape == \A n \in Names, d \in Digests : ~dir[n][d].made => dir[n][d].rootfs = "none"

\* The wrapper a process is about to write launches the version it has made
\* current; what it is about to delete has no wrapper left; what it has
\* reported is what is broken.
Launching(p) ==
    pc[p] \in WrapPCs => link[job[p].name] = job[p].dig /\ Target(p).rootfs = "full"
Unshimmed(p) == pc[p] = "wipe" => ~Marked(job[p].name)
Reported(p) ==
    pc[p] \in DoctorPCs =>
        /\ \A n \in report[p].broken : ~Marked(n) /\ (link[n] = NoLink \/ Dangling(n))
        /\ \A n \in pkgDir : Dangling(n) => n \in report[p].broken

ShimInv ==
    /\ DirShape /\ RunnableShim
    /\ \A p \in Procs : Launching(p) /\ Unshimmed(p) /\ Reported(p)

\* A wrapper that is not that of the current version is about to be replaced.
MatchInv ==
    faults = 0 => \A n \in Names : Marked(n) /\ link[n] # NoLink =>
        \/ wrapper[n] = link[n]
        \/ \E p \in Procs : pc[p] \in WrapPCs /\ job[p].name = n

-------------------------------------------------------------------------------
\* What a step of one process can change

Act(p) == Start(p) \/ Continue(p) \/ RenameFails(p) \/ Fault(p)

\* The other processes stay where they are.
LEMMA OthersStay ==
  ASSUME TypeOK, NEW p \in Procs, Act(p), NEW q \in Procs \ {p}
  PROVE  pc'[q] = pc[q] /\ job'[q] = job[q] /\ report'[q] = report[q]
<1> DEFINE Stays == pc'[q] = pc[q] /\ job'[q] = job[q] /\ report'[q] = report[q]
<1>1. ASSUME NEW l, Step(p, l) PROVE Stays
  BY <1>1 DEF Step, Goto, TypeOK
<1>2. ASSUME Return(p) PROVE Stays
  BY <1>2 DEF Return, Goto, TypeOK
<1>3. ASSUME NEW l, NEW j, Begin(p, l, j) PROVE Stays
  BY <1>3 DEF Begin, Goto, TypeOK
<1>4. CASE Start(p)
  <2>1. CASE StartInstall(p) \/ ApplyUpdate(p) \/ StartRemove(p) \/ Rollback(p)
    <3>1. \E l, j : Begin(p, l, j)
      BY <2>1 DEF StartInstall, ApplyUpdate, InstallPackage, StartRemove, Rollback
    <3> QED BY <1>3, <3>1
  <2>2. CASE Doctor(p)
    BY <2>2 DEF Doctor, Goto, TypeOK
  <2> QED BY <1>4, <2>1, <2>2 DEF Start
<1>5. CASE Continue(p)
  <2>1. CASE \/ MakeParent(p) \/ CleanStale(p) \/ MakeDigestDir(p)
             \/ MoveRootfs(p) \/ CopyRootfs(p) \/ FinishCopy(p)
             \/ StampMetadata(p) \/ WriteMetadata(p)
    <3>1. (\E l : Step(p, l)) \/ (\E l, j : Begin(p, l, j)) \/ Return(p)
            \/ UNCHANGED <<pc, job, report>>
      BY <2>1 DEF MakeParent, CleanStale, MakeDigestDir, MoveRootfs, CopyRootfs, FinishCopy,
                  StampMetadata, WriteMetadata
    <3> QED BY <1>1, <1>2, <1>3, <3>1
  <2>2. CASE \/ RemoveStaleTmp(p) \/ SymlinkTmp(p) \/ SwapCurrent(p) \/ DropTmp(p)
             \/ CheckWrapper(p) \/ TruncateWrapper(p) \/ WriteWrapper(p)
             \/ ReadWrapper(p) \/ UnlinkWrapper(p) \/ WipePackage(p)
    <3>1. (\E l : Step(p, l)) \/ Return(p) \/ UNCHANGED <<pc, job, report>>
      BY <2>2 DEF RemoveStaleTmp, SymlinkTmp, SwapCurrent, DropTmp, CheckWrapper,
                  TruncateWrapper, WriteWrapper, ReadWrapper, UnlinkWrapper, WipePackage
    <3> QED BY <1>1, <1>2, <3>1
  <2>3. CASE ScanBin(p) \/ FixWrappers(p) \/ FixLinks(p)
    BY <1>2, <2>3 DEF ScanBin, FixWrappers, FixLinks, Goto, TypeOK
  <2> QED BY <1>5, <2>1, <2>2, <2>3 DEF Continue
<1>6. CASE RenameFails(p) \/ Fault(p)
  <2>1. (\E l : Step(p, l)) \/ Return(p)
    BY <1>6 DEF RenameFails, Fault
  <2> QED BY <1>1, <1>2, <2>1
<1> QED BY <1>4, <1>5, <1>6 DEF Act

\* A digest directory is written by the process that builds it and by the one
\* that removes the package.
LEMMA DirWrites ==
  ASSUME TypeOK, NEW p \in Procs, Act(p), NEW n \in Names, NEW d \in Digests
  PROVE  \/ dir'[n][d] = dir[n][d]
         \/ pc[p] \in BuildPCs /\ n = job[p].name /\ d = job[p].dig
         \/ pc[p] = "wipe" /\ n = job[p].name
<1> USE JobFields
<1>2. CASE \/ CleanStale(p) \/ MakeDigestDir(p)
           \/ MoveRootfs(p) \/ CopyRootfs(p) \/ FinishCopy(p)
           \/ StampMetadata(p) \/ WriteMetadata(p)
  <2>1. pc[p] \in BuildPCs
    BY <1>2 DEF CleanStale, MakeDigestDir, MoveRootfs, CopyRootfs, FinishCopy, StampMetadata,
                WriteMetadata, BuildPCs
  <2>2. \A m \in Names, e \in Digests :
          ~(m = job[p].name /\ e = job[p].dig) => dir'[m][e] = dir[m][e]
    <3>1. CASE CleanStale(p)
      BY <3>1, SMTT(30) DEF CleanStale, Wipe, TypeOK
    <3>2. CASE MakeDigestDir(p) \/ MoveRootfs(p)
      BY <3>2, SMTT(30) DEF MakeDigestDir, MoveRootfs, TypeOK
    <3>3. CASE CopyRootfs(p) \/ FinishCopy(p)
      BY <3>3, SMTT(30) DEF CopyRootfs, FinishCopy, TypeOK
    <3>4. CASE StampMetadata(p)
      BY <3>4, SMTT(30) DEF StampMetadata, TypeOK
    <3>5. CASE WriteMetadata(p)
      BY <3>5, SMTT(30) DEF WriteMetadata, TypeOK
    <3> QED BY <1>2, <3>1, <3>2, <3>3, <3>4, <3>5
  <2> QED BY <2>1, <2>2
<1>3. CASE WipePackage(p)
  <2>1. pc[p] = "wipe" /\ \A m \in Names, e \in Digests :
          m # job[p].name => dir'[m][e] = dir[m][e]
    BY <1>3 DEF WipePackage, Wipe, Entries, TypeOK
  <2> QED BY <2>1
<1>4. CASE Start(p) \/ RenameFails(p) \/ Fault(p)
  BY <1>4 DEF Start, StartInstall, ApplyUpdate, InstallPackage, StartRemove, Rollback, Doctor,
         RenameFails, Fault, store
<1>5. CASE
      \/ MakeParent(p)
      \/ RemoveStaleTmp(p) \/ SymlinkTmp(p) \/ SwapCurrent(p) \/ DropTmp(p)
      \/ CheckWrapper(p) \/ TruncateWrapper(p) \/ WriteWrapper(p)
      \/ ReadWrapper(p) \/ UnlinkWrapper(p)
      \/ ScanBin(p) \/ FixWrappers(p) \/ FixLinks(p)
  BY <1>5 DEF MakeParent, RemoveStaleTmp, SymlinkTmp, SwapCurrent, DropTmp, CheckWrapper,
         TruncateWrapper, WriteWrapper, ReadWrapper, UnlinkWrapper, ScanBin, FixWrappers,
         FixLinks, store
<1> QED BY <1>2, <1>3, <1>4, <1>5 DEF Act, Continue

\* current is moved by the swap of an install and taken away by a removal and
\* by doctor --fix.
LEMMA LinkWrites ==
  ASSUME TypeOK, NEW p \in Procs, Act(p), NEW n \in Names
  PROVE  \/ link'[n] = link[n]
         \/ /\ SwapCurrent(p) /\ pc[p] = "rename" /\ n = job[p].name
            /\ tmp[n] # NoLink /\ link'[n] = tmp[n] /\ UNCHANGED dir
         \/ /\ link'[n] = NoLink
            /\ \/ pc[p] = "wipe" /\ n = job[p].name
               \/ pc[p] = "fixLinks" /\ n \in report[p].broken
<1> USE JobFields
<1>2. CASE SwapCurrent(p)
  BY <1>2 DEF SwapCurrent, TypeOK
<1>3. CASE WipePackage(p)
  BY <1>3 DEF WipePackage, TypeOK
<1>4. CASE FixLinks(p)
  BY <1>4 DEF FixLinks, TypeOK
<1>5. CASE Start(p) \/ RenameFails(p) \/ Fault(p)
  BY <1>5 DEF Start, StartInstall, ApplyUpdate, InstallPackage, StartRemove, Rollback, Doctor,
         RenameFails, Fault, store
<1>6. CASE
      \/ MakeParent(p) \/ CleanStale(p) \/ MakeDigestDir(p)
      \/ MoveRootfs(p) \/ CopyRootfs(p) \/ FinishCopy(p)
      \/ StampMetadata(p) \/ WriteMetadata(p)
      \/ RemoveStaleTmp(p) \/ SymlinkTmp(p) \/ DropTmp(p)
      \/ CheckWrapper(p) \/ TruncateWrapper(p) \/ WriteWrapper(p)
      \/ ReadWrapper(p) \/ UnlinkWrapper(p)
      \/ ScanBin(p) \/ FixWrappers(p)
  BY <1>6 DEF MakeParent, CleanStale, MakeDigestDir, MoveRootfs, CopyRootfs, FinishCopy,
         StampMetadata, WriteMetadata, RemoveStaleTmp, SymlinkTmp, DropTmp, CheckWrapper,
         TruncateWrapper, WriteWrapper, ReadWrapper, UnlinkWrapper, ScanBin, FixWrappers, store
<1> QED BY <1>2, <1>3, <1>4, <1>5, <1>6 DEF Act, Continue

\* A process goes on to another call, its job as it was.
LEMMA StepAt ==
  ASSUME TypeOK, NEW p \in Procs, NEW l, Step(p, l)
  PROVE  pc'[p] = l /\ job' = job /\ report' = report
BY DEF Step, Goto, TypeOK

LEMMA ReturnAt ==
  ASSUME TypeOK, NEW p \in Procs, Return(p)
  PROVE  pc'[p] = "idle" /\ job'[p] = NoJob /\ report'[p] = NoReport
BY DEF Return, Goto, TypeOK

LEMMA BeginAt ==
  ASSUME TypeOK, NEW p \in Procs, NEW l, NEW j, Begin(p, l, j)
  PROVE  pc'[p] = l /\ job'[p] = j /\ report' = report
BY DEF Begin, Goto, TypeOK

-------------------------------------------------------------------------------
\* Building: BuildInv is inductive

\* What BuildInv says of the process that moves.
OwnInv(p) == Owned(p) /\ Built(p) /\ Fresh(p)

LEMMA AwayOwn ==
  ASSUME NEW p \in Procs, pc'[p] \notin BuildPCs \cup ActivatePCs \cup RemovePCs
  PROVE  OwnInv(p)'
BY DEF OwnInv, Owned, Built, Fresh, BuildPCs, ActivatePCs, RemovePCs

LEMMA ReturnOwn ==
  ASSUME TypeOK, NEW p \in Procs, Return(p)
  PROVE  OwnInv(p)'
BY ReturnAt, AwayOwn DEF BuildPCs, ActivatePCs, RemovePCs

LEMMA StartOwn ==
  ASSUME TypeOK, Orderly, NEW p \in Procs, Whole(p), Start(p)
  PROVE  OwnInv(p)'
<1>1. ASSUME NEW c \in Commands, NEW n \in Names, NEW d \in Digests,
             NEW r, NEW a, InstallPackage(p, c, n, d, r, a)
      PROVE  OwnInv(p)'
  <2>1. PICK v \in BOOLEAN :
           Begin(p, "parent", [cmd |-> c, name |-> n, dig |-> d, reg |-> r,
                               verified |-> v, at |-> 0])
    BY <1>1 DEF InstallPackage, verifyImage
  <2>2. /\ pc'[p] = "parent" /\ job'[p].cmd = c /\ job'[p].name = n /\ job'[p].dig = d
    BY <2>1, BeginAt
  <2>3. d \in Fetches[p] /\ link[n] # d /\ link' = link
    BY <1>1 DEF InstallPackage, Orderly, store
  <2> QED BY <2>2, <2>3 DEF OwnInv, Owned, Built, Fresh, BuildPCs, ActivatePCs, RemovePCs
<1>2. CASE StartInstall(p) \/ ApplyUpdate(p)
  BY <1>1, <1>2 DEF StartInstall, ApplyUpdate
<1>3. CASE StartRemove(p)
  <2>1. pc'[p] = "unshimRead"
    BY <1>3, BeginAt DEF StartRemove
  <2>2. Solo /\ "remove" \in Commands
    BY <1>3 DEF StartRemove, Orderly, Apart
  <2>3. Solo'
    BY <2>2 DEF Solo
  <2> QED BY <2>1, <2>2, <2>3 DEF OwnInv, Owned, Built, Fresh, BuildPCs, ActivatePCs, RemovePCs
<1>4. CASE Rollback(p)
  <2>1. PICK n \in Names : \E d \in Candidates(n) :
          Begin(p, "stat", [NoJob EXCEPT !.cmd = "rollback", !.name = n, !.dig = d])
    BY <1>4 DEF Rollback
  <2>2. PICK d \in Candidates(n) :
          Begin(p, "stat", [NoJob EXCEPT !.cmd = "rollback", !.name = n, !.dig = d])
    BY <2>1
  <2>3. /\ pc'[p] = "stat"
        /\ job'[p].cmd = "rollback" /\ job'[p].name = n /\ job'[p].dig = d
    <3>1. job'[p] = [NoJob EXCEPT !.cmd = "rollback", !.name = n, !.dig = d]
      BY <2>2, BeginAt
    <3> QED BY <2>2, <3>1, BeginAt DEF NoJob
  <2>4. d # link[n] /\ Readable(n, d) /\ d \in Digests
    BY <2>2 DEF Candidates
  <2>5. /\ Solo /\ pc[p] = "idle" /\ "rollback" \in Commands /\ UNCHANGED <<dir, link>>
    BY <1>4 DEF Rollback, Orderly, store
  <2>6. Complete(n, d)
    BY <2>4, <2>5 DEF Whole, BuildPCs
  <2>7. Complete(n, d)'
    BY <2>5, <2>6 DEF Complete, Readable, Exists
  <2>8. Solo'
    BY <2>5 DEF Solo
  <2> QED BY <2>3, <2>4, <2>5, <2>7, <2>8
          DEF OwnInv, Owned, Built, Fresh, BuildPCs, ActivatePCs, RemovePCs
<1>5. CASE Doctor(p)
  <2>1. pc'[p] = "scanBin"
    BY <1>5 DEF Doctor, Goto, TypeOK
  <2> QED BY <2>1, AwayOwn DEF BuildPCs, ActivatePCs, RemovePCs
<1> QED BY <1>2, <1>3, <1>4, <1>5 DEF Start

\* The directory a process is building stays the one that is not active.
LEMMA GoOnOwn ==
  ASSUME TypeOK, NEW p \in Procs, OwnInv(p), pc[p] \in BuildPCs \cup {"stat", "symlink"},
         pc'[p] \in BuildPCs \cup {"stat", "symlink", "rename"},
         job'[p].name = job[p].name, job'[p].dig = job[p].dig, job'[p].cmd = job[p].cmd,
         UNCHANGED link, Built(p)'
  PROVE  OwnInv(p)'
<1>1. /\ pc[p] \in BuildPCs \cup ActivatePCs
      /\ pc'[p] \in (BuildPCs \cup ActivatePCs) \ RemovePCs
  BY DEF BuildPCs, ActivatePCs, RemovePCs
<1>2. (Solo \/ job[p].dig \in Fetches[p]) /\ job[p].cmd \in Commands
  BY <1>1 DEF OwnInv, Owned
<1>3. link[job[p].name] # job[p].dig
  BY DEF OwnInv, Fresh
<1> QED BY <1>1, <1>2, <1>3 DEF OwnInv, Owned, Fresh, Solo

\* Build and StoreMetadata: each call leaves what the next one needs.
LEMMA BuildOwn ==
  ASSUME TypeOK, NEW p \in Procs, OwnInv(p),
         \/ MakeParent(p) \/ CleanStale(p) \/ MakeDigestDir(p)
         \/ MoveRootfs(p) \/ CopyRootfs(p) \/ FinishCopy(p)
         \/ StampMetadata(p) \/ WriteMetadata(p)
  PROVE  OwnInv(p)'
<1> DEFINE n == job[p].name  d == job[p].dig  x == dir[n][d]
<1>1. n \in Names /\ d \in Digests /\ x \in [made: BOOLEAN, rootfs: Rootfs, meta: Metadata]
  BY JobFields, DirFields DEF DigestDir
<1>2. Built(p)
  BY DEF OwnInv
<1>3. CASE MakeParent(p) \/ CleanStale(p) \/ MakeDigestDir(p)
  <2>1. /\ pc[p] \in {"parent", "clean", "mkdir"} /\ UNCHANGED <<link, job>>
        /\ pc'[p] \in {"clean", "mkdir", "move"}
    BY <1>3, StepAt DEF MakeParent, CleanStale, MakeDigestDir
  <2>2. Built(p)'
    BY <2>1 DEF Built
  <2> QED BY <2>1, <2>2, GoOnOwn DEF BuildPCs
<1>4. CASE MoveRootfs(p)
  <2>1. /\ pc[p] = "move" /\ UNCHANGED <<link, job>> /\ pc'[p] = "stamp"
    BY <1>4, StepAt DEF MoveRootfs
  <2>2. dir'[n][d].made /\ dir'[n][d].rootfs = "full"
    BY <1>1, <1>4 DEF MoveRootfs, TypeOK
  <2>3. Built(p)'
    BY <2>1, <2>2 DEF Built, Target
  <2> QED BY <2>1, <2>3, GoOnOwn DEF BuildPCs
<1>5. CASE CopyRootfs(p)
  <2>1. /\ pc[p] = "move" /\ UNCHANGED <<link, job>> /\ pc'[p] = "copying"
    BY <1>5, StepAt DEF CopyRootfs
  <2>2. dir'[n][d].made /\ dir'[n][d].rootfs = "partial"
    BY <1>1, <1>5 DEF CopyRootfs, TypeOK
  <2>3. Built(p)'
    BY <2>1, <2>2 DEF Built, Target
  <2> QED BY <2>1, <2>3, GoOnOwn DEF BuildPCs
<1>6. CASE FinishCopy(p)
  <2>1. /\ pc[p] = "copying" /\ UNCHANGED <<link, job>> /\ pc'[p] = "stamp"
    BY <1>6, StepAt DEF FinishCopy
  <2>2. x.made /\ x.rootfs # "none"
    BY <1>2, <2>1 DEF Built, Target
  <2>3. dir' = [dir EXCEPT ![n][d].rootfs = "full"]
    BY <1>6, <2>2 DEF FinishCopy
  <2>4. dir'[n][d].made /\ dir'[n][d].rootfs = "full"
    BY <1>1, <2>2, <2>3 DEF TypeOK
  <2>5. Built(p)'
    BY <2>1, <2>4 DEF Built, Target
  <2> QED BY <2>1, <2>5, GoOnOwn DEF BuildPCs
<1>7. CASE StampMetadata(p)
  <2>1. pc[p] = "stamp" /\ UNCHANGED link
    BY <1>7 DEF StampMetadata
  <2>2. x.made /\ x.rootfs = "full"
    BY <1>2, <2>1 DEF Built, Target
  <2>3. /\ dir' = [dir EXCEPT ![n][d].meta = [NoMeta EXCEPT !.state = "torn"]]
        /\ Begin(p, "writeMeta", [job[p] EXCEPT !.at = clock])
    BY <1>7, <2>2 DEF StampMetadata
  <2>4. /\ pc'[p] = "writeMeta"
        /\ job'[p].name = n /\ job'[p].dig = d /\ job'[p].cmd = job[p].cmd
    BY <2>3, BeginAt, JobFields DEF Jobs
  <2>5. /\ dir'[n][d].made /\ dir'[n][d].rootfs = "full"
        /\ dir'[n][d].meta.state = "torn"
    <3>1. dir'[n][d] = [x EXCEPT !.meta = [NoMeta EXCEPT !.state = "torn"]]
      BY <1>1, <2>3 DEF TypeOK
    <3> QED BY <1>1, <2>2, <3>1 DEF NoMeta
  <2>6. Built(p)'
    BY <2>4, <2>5 DEF Built, Target
  <2> QED BY <2>1, <2>4, <2>6, GoOnOwn DEF BuildPCs
<1>8. CASE WriteMetadata(p)
  <2>1. pc[p] = "writeMeta" /\ UNCHANGED <<link, job>> /\ pc'[p] = "stat"
    BY <1>8, StepAt DEF WriteMetadata
  <2>2. x.made /\ x.rootfs = "full" /\ x.meta.state = "torn"
    BY <1>2, <2>1 DEF Built, Target
  <2>3. dir' = [dir EXCEPT ![n][d].meta =
                   [state |-> "ok", at |-> job[p].at,
                    verified |-> job[p].verified, reg |-> job[p].reg]]
    BY <1>8, <2>2 DEF WriteMetadata
  <2>4. /\ dir'[n][d].made /\ dir'[n][d].rootfs = "full"
        /\ dir'[n][d].meta.state = "ok"
    <3>1. dir'[n][d] = [x EXCEPT !.meta =
                           [state |-> "ok", at |-> job[p].at,
                            verified |-> job[p].verified, reg |-> job[p].reg]]
      BY <1>1, <2>3 DEF TypeOK
    <3> QED BY <1>1, <2>2, <3>1
  <2>5. Built(p)'
    BY <1>1, <2>1, <2>4 DEF Built, Target, Complete, Readable, Exists
  <2> QED BY <2>1, <2>5, GoOnOwn DEF BuildPCs
<1> QED BY <1>3, <1>4, <1>5, <1>6, <1>7, <1>8

\* SetCurrent and InstallWrapper go on with a job that is theirs.
LEMMA ActivateOwn ==
  ASSUME TypeOK, NEW p \in Procs, OwnInv(p),
         \/ RemoveStaleTmp(p) \/ SymlinkTmp(p) \/ SwapCurrent(p) \/ DropTmp(p)
         \/ CheckWrapper(p) \/ TruncateWrapper(p) \/ WriteWrapper(p)
         \/ RenameFails(p)
  PROVE  OwnInv(p)'
<1>1. CASE Return(p)
  BY <1>1, ReturnOwn
<1>2. CASE \/ RemoveStaleTmp(p) /\ Step(p, "symlink")
           \/ SymlinkTmp(p) /\ Step(p, "rename")
  <2>1. /\ pc[p] \in {"stat", "symlink"} /\ pc'[p] \in {"symlink", "rename"}
        /\ UNCHANGED <<dir, link, job>>
    BY <1>2, StepAt DEF RemoveStaleTmp, SymlinkTmp
  <2>2. Complete(job[p].name, job[p].dig)
    BY <2>1 DEF OwnInv, Built
  <2>3. Built(p)'
    BY <2>1, <2>2 DEF Built, Complete, Readable, Exists
  <2> QED BY <2>1, <2>3, GoOnOwn
<1>3. ASSUME NEW l \in {"dropTmp", "wrapCheck", "wrapTruncate", "wrapWrite"}, Step(p, l),
             pc[p] \in ActivatePCs
      PROVE  OwnInv(p)'
  <2>1. pc'[p] = l /\ job' = job
    BY <1>3, StepAt
  <2>2. (Solo \/ job[p].dig \in Fetches[p]) /\ job[p].cmd \in Commands
    BY <1>3 DEF OwnInv, Owned
  <2> QED BY <2>1, <2>2 DEF OwnInv, Owned, Built, Fresh, BuildPCs, ActivatePCs, RemovePCs, Solo
<1>4. \/ Return(p)
      \/ RemoveStaleTmp(p) /\ Step(p, "symlink")
      \/ SymlinkTmp(p) /\ Step(p, "rename")
      \/ /\ pc[p] \in ActivatePCs
         /\ \E l \in {"dropTmp", "wrapCheck", "wrapTruncate", "wrapWrite"} : Step(p, l)
  BY DEF RemoveStaleTmp, SymlinkTmp, SwapCurrent, DropTmp, CheckWrapper, TruncateWrapper,
         WriteWrapper, RenameFails, ActivatePCs
<1> QED BY <1>1, <1>2, <1>3, <1>4

LEMMA OtherCommandsOwn ==
  ASSUME TypeOK, NEW p \in Procs, OwnInv(p),
         \/ ReadWrapper(p) \/ UnlinkWrapper(p) \/ WipePackage(p)
         \/ ScanBin(p) \/ FixWrappers(p) \/ FixLinks(p)
  PROVE  OwnInv(p)'
<1>1. CASE Return(p)
  BY <1>1, ReturnOwn
<1>2. CASE ReadWrapper(p) \/ UnlinkWrapper(p) \/ WipePackage(p)
  <2>1. CASE (\E l \in {"unshimRemove", "wipe"} : Step(p, l)) \/ UNCHANGED <<pc, job, report>>
    <3>1. pc[p] \in RemovePCs /\ pc'[p] \in RemovePCs
      BY <1>2, <2>1, StepAt DEF ReadWrapper, UnlinkWrapper, WipePackage, RemovePCs
    <3>2. Solo /\ "remove" \in Commands
      BY <3>1 DEF OwnInv, Owned
    <3> QED BY <3>1, <3>2 DEF OwnInv, Owned, Built, Fresh, BuildPCs, ActivatePCs, RemovePCs
  <2> QED BY <1>1, <1>2, <2>1 DEF ReadWrapper, UnlinkWrapper, WipePackage
<1>3. CASE ScanBin(p) \/ FixWrappers(p) \/ FixLinks(p)
  <2>1. CASE pc'[p] \in DoctorPCs
    BY <2>1, AwayOwn DEF DoctorPCs, BuildPCs, ActivatePCs, RemovePCs
  <2> QED BY <1>1, <1>3, <2>1 DEF ScanBin, FixWrappers, FixLinks, Goto, TypeOK, DoctorPCs
<1> QED BY <1>2, <1>3

LEMMA ActOwn ==
  ASSUME TypeOK, Orderly, BuildInv, NEW p \in Procs, Act(p)
  PROVE  OwnInv(p)'
<1>1. OwnInv(p) /\ Whole(p)
  BY DEF BuildInv, OwnInv
<1>2. CASE Start(p)
  BY <1>1, <1>2, StartOwn
<1>3. CASE Continue(p) \/ RenameFails(p)
  BY <1>1, <1>3, BuildOwn, ActivateOwn, OtherCommandsOwn DEF Continue
<1>4. CASE Fault(p)
  BY <1>4, ReturnOwn DEF Fault
<1> QED BY <1>2, <1>3, <1>4 DEF Act

\* Where a step is taken from rename, and where one gets there.
LEMMA RenameActs ==
  ASSUME TypeOK, NEW p \in Procs, Act(p)
  PROVE  /\ pc[p] = "rename" => SwapCurrent(p) \/ RenameFails(p) \/ Fault(p)
         /\ pc'[p] = "rename" =>
               /\ UNCHANGED job /\ pc[p] = "symlink"
               /\ tmp' = [tmp EXCEPT ![job[p].name] = job[p].dig]
<1>1. ASSUME pc[p] = "rename" PROVE SwapCurrent(p) \/ RenameFails(p) \/ Fault(p)
  BY <1>1 DEF Act, Start, StartInstall, ApplyUpdate, InstallPackage, StartRemove, Rollback, Doctor,
     Continue, MakeParent, CleanStale, MakeDigestDir, MoveRootfs, CopyRootfs, FinishCopy,
     StampMetadata, WriteMetadata, RemoveStaleTmp, SymlinkTmp, DropTmp, CheckWrapper,
     TruncateWrapper, WriteWrapper, ReadWrapper, UnlinkWrapper, WipePackage, ScanBin,
     FixWrappers, FixLinks
<1>2. ASSUME pc'[p] = "rename"
      PROVE  /\ UNCHANGED job /\ pc[p] = "symlink"
             /\ tmp' = [tmp EXCEPT ![job[p].name] = job[p].dig]
  <2>1. ~Return(p)
    BY <1>2, ReturnAt
  <2>2. \A l : Step(p, l) => l = "rename"
    BY <1>2, StepAt
  <2>3. \A l, j : Begin(p, l, j) => l = "rename"
    BY <1>2, BeginAt
  <2>4. CASE Start(p)
    <3>1. CASE Doctor(p)
      BY <1>2, <3>1 DEF Doctor, Goto, TypeOK
    <3> QED BY <2>3, <2>4, <3>1 DEF Start, StartInstall, ApplyUpdate, InstallPackage,
               StartRemove, Rollback
  <2>5. CASE \/ MakeParent(p) \/ CleanStale(p) \/ MakeDigestDir(p)
             \/ MoveRootfs(p) \/ CopyRootfs(p) \/ FinishCopy(p)
             \/ StampMetadata(p) \/ WriteMetadata(p)
    BY <1>2, <2>1, <2>2, <2>3, <2>5 DEF MakeParent, CleanStale, MakeDigestDir, MoveRootfs,
       CopyRootfs, FinishCopy, StampMetadata, WriteMetadata
  <2>6. CASE SymlinkTmp(p)
    BY <2>1, <2>6 DEF SymlinkTmp, Step
  <2>7. CASE \/ RemoveStaleTmp(p) \/ SwapCurrent(p) \/ DropTmp(p)
             \/ CheckWrapper(p) \/ TruncateWrapper(p) \/ WriteWrapper(p)
             \/ RenameFails(p) \/ Fault(p)
    BY <1>2, <2>1, <2>2, <2>7 DEF RemoveStaleTmp, SwapCurrent, DropTmp, CheckWrapper,
       TruncateWrapper, WriteWrapper, RenameFails, Fault
  <2>8. CASE ReadWrapper(p) \/ UnlinkWrapper(p) \/ WipePackage(p)
    BY <1>2, <2>1, <2>2, <2>8 DEF ReadWrapper, UnlinkWrapper, WipePackage
  <2>9. CASE ScanBin(p) \/ FixWrappers(p) \/ FixLinks(p)
    BY <1>2, <2>1, <2>9 DEF ScanBin, FixWrappers, FixLinks, Goto, TypeOK
  <2> QED BY <2>4, <2>5, <2>6, <2>7, <2>8, <2>9 DEF Act, Continue
<1> QED BY <1>1, <1>2

\* A link at current.new is made by SymlinkTmp alone.
LEMMA TmpWrites ==
  ASSUME TypeOK, NEW p \in Procs, Act(p), NEW n \in Names
  PROVE  \/ tmp'[n] \in {tmp[n], NoLink}
         \/ /\ pc'[p] = "rename" /\ job'[p] = job[p] /\ n = job[p].name
            /\ tmp'[n] = job[p].dig
<1>1. CASE UNCHANGED tmp
  BY <1>1
<1>2. CASE SymlinkTmp(p)
  <2>1. CASE Step(p, "rename") /\ tmp' = [tmp EXCEPT ![job[p].name] = job[p].dig]
    <3>1. pc'[p] = "rename" /\ job'[p] = job[p]
      BY <2>1, StepAt
    <3> QED BY <2>1, <3>1 DEF TypeOK
  <2> QED BY <1>1, <1>2, <2>1 DEF SymlinkTmp
<1>3. CASE RemoveStaleTmp(p) \/ SwapCurrent(p) \/ DropTmp(p) \/ WipePackage(p)
  BY <1>3 DEF RemoveStaleTmp, SwapCurrent, DropTmp, WipePackage, TypeOK
<1>4. CASE Start(p) \/ RenameFails(p) \/ Fault(p)
  BY <1>4 DEF Start, StartInstall, ApplyUpdate, InstallPackage, StartRemove, Rollback, Doctor,
         RenameFails, Fault, store
<1>5. CASE
      \/ MakeParent(p) \/ CleanStale(p) \/ MakeDigestDir(p)
      \/ MoveRootfs(p) \/ CopyRootfs(p) \/ FinishCopy(p)
      \/ StampMetadata(p) \/ WriteMetadata(p)
      \/ CheckWrapper(p) \/ TruncateWrapper(p) \/ WriteWrapper(p)
      \/ ReadWrapper(p) \/ UnlinkWrapper(p)
      \/ ScanBin(p) \/ FixWrappers(p) \/ FixLinks(p)
  BY <1>5 DEF MakeParent, CleanStale, MakeDigestDir, MoveRootfs, CopyRootfs, FinishCopy,
         StampMetadata, WriteMetadata, CheckWrapper, TruncateWrapper, WriteWrapper,
         ReadWrapper, UnlinkWrapper, ScanBin, FixWrappers, FixLinks, store
<1> QED BY <1>2, <1>3, <1>4, <1>5 DEF Act, Continue

\* What a process swaps in is whole, and no one builds it.
LEMMA SwappedIn ==
  ASSUME TypeOK, BuildInv, NEW p \in Procs, pc[p] = "rename", tmp[job[p].name] # NoLink
  PROVE  /\ Complete(job[p].name, tmp[job[p].name])
         /\ \E r \in Procs : /\ pc[r] = "rename" /\ job[r].name = job[p].name
                             /\ job[r].dig = tmp[job[p].name]
                             /\ Solo \/ job[r].dig \in Fetches[r]
<1>1. PICK r \in Procs : /\ pc[r] = "rename" /\ job[r].name = job[p].name
                         /\ job[r].dig = tmp[job[p].name]
  BY DEF BuildInv, Offered
<1>2. (Solo \/ job[r].dig \in Fetches[r]) /\ Complete(job[r].name, job[r].dig)
  BY <1>1 DEF BuildInv, Owned, Built, ActivatePCs
<1> QED BY <1>1, <1>2

LEMMA OthersOwn ==
  ASSUME TypeOK, Orderly, BuildInv, NEW p \in Procs, Act(p), NEW q \in Procs \ {p}
  PROVE  OwnInv(q)'
<1>1. pc'[q] = pc[q] /\ job'[q] = job[q]
  BY OthersStay
<1>2. ~Solo /\ \A r \in Procs \ {q} : Fetches[r] \cap Fetches[q] = {}
  BY DEF Orderly, Solo, Apart
<1>3. job[q].name \in Names /\ job[q].dig \in Digests
  BY JobFields
<1>4. OwnInv(q) /\ OwnInv(p)
  BY DEF BuildInv, OwnInv
<1>5. CASE pc[q] \in BuildPCs \cup {"stat", "symlink", "rename"}
  <2>1. job[q].dig \in Fetches[q]
    BY <1>2, <1>4, <1>5 DEF OwnInv, Owned, BuildPCs, ActivatePCs
  <2>2. Target(q)' = Target(q)
    <3>1. ~(pc[p] \in BuildPCs /\ job[q].dig = job[p].dig)
      BY <1>2, <1>4, <2>1 DEF OwnInv, Owned
    <3>2. pc[p] # "wipe"
      BY <1>2, <1>4 DEF OwnInv, Owned, RemovePCs
    <3> QED BY <1>1, <1>3, <3>1, <3>2, DirWrites DEF Target
  <2>3. Built(q)'
    <3>1. Built(q) /\ Target(q) = dir[job[q].name][job[q].dig]
                   /\ Target(q)' = dir'[job[q].name][job[q].dig]
      BY <1>1, <1>4 DEF OwnInv, Target
    <3> QED BY <1>1, <2>2, <3>1 DEF Built, Complete, Readable, Exists
  <2>4. ASSUME pc[q] \in BuildPCs \cup {"stat", "symlink"}
        PROVE  link'[job[q].name] # job[q].dig
    <3>1. link[job[q].name] # job[q].dig
      BY <1>4, <2>4 DEF OwnInv, Fresh
    <3>2. CASE link'[job[q].name] = NoLink
      BY <1>3, <3>2, ConstantsAssumption
    <3>3. CASE /\ pc[p] = "rename" /\ job[q].name = job[p].name
               /\ tmp[job[q].name] # NoLink /\ link'[job[q].name] = tmp[job[q].name]
      <4>1. PICK r \in Procs : /\ pc[r] = "rename" /\ job[r].dig = tmp[job[q].name]
                               /\ job[r].dig \in Fetches[r]
        BY <1>2, <3>3, SwappedIn
      <4>2. r # q
        BY <2>4, <4>1 DEF BuildPCs
      <4> QED BY <1>2, <2>1, <3>3, <4>1, <4>2
    <3> QED BY <1>3, <3>1, <3>2, <3>3, LinkWrites
  <2> QED BY <1>1, <1>4, <2>3, <2>4 DEF OwnInv, Owned, Fresh
<1>6. CASE pc[q] \notin BuildPCs \cup {"stat", "symlink", "rename"}
  BY <1>1, <1>4, <1>6 DEF OwnInv, Owned, Fresh, Built, BuildPCs
<1> QED BY <1>5, <1>6

LEMMA OfferedStep ==
  ASSUME TypeOK, Orderly, BuildInv, NEW p \in Procs, Act(p), NEW q \in Procs
  PROVE  Offered(q)'
<1> DEFINE n == job'[q].name
<1> SUFFICES ASSUME pc'[q] = "rename", tmp'[n] # NoLink
             PROVE  \E r \in Procs : /\ pc'[r] = "rename" /\ job'[r].name = n
                                     /\ job'[r].dig = tmp'[n]
  BY DEF Offered
<1>1. CASE q = p
  <2>1. job' = job /\ tmp' = [tmp EXCEPT ![job[p].name] = job[p].dig]
    BY <1>1, RenameActs
  <2>2. tmp'[n] = job[p].dig
    BY <1>1, <2>1, JobFields DEF TypeOK
  <2> QED BY <1>1, <2>1, <2>2
<1>2. CASE q # p
  <2>1. pc[q] = "rename" /\ job[q].name = n /\ n \in Names
    BY <1>2, OthersStay, JobFields
  <2>2. CASE tmp'[n] = tmp[n]
    <3>1. PICK r \in Procs : /\ pc[r] = "rename" /\ job[r].name = n /\ job[r].dig = tmp[n]
      BY <2>1, <2>2 DEF BuildInv, Offered
    <3>2. CASE r # p
      <4>1. pc'[r] = pc[r] /\ job'[r] = job[r]
        BY <3>2, OthersStay
      <4> QED BY <2>2, <3>1, <4>1
    <3>3. CASE r = p
      <4>1. ~RenameFails(p) /\ ~Fault(p)
        <5>1. MaxFaults = 0
          BY <1>2 DEF Orderly, Solo, Apart
        <5> QED BY <5>1 DEF RenameFails, Fault, TypeOK
      <4>2. SwapCurrent(p)
        BY <3>1, <3>3, <4>1, RenameActs
      <4>3. tmp'[n] = NoLink
        BY <2>1, <2>2, <3>1, <3>3, <4>2 DEF SwapCurrent, TypeOK
      <4> QED BY <4>3
    <3> QED BY <3>2, <3>3
  <2>3. CASE /\ pc'[p] = "rename" /\ job'[p] = job[p] /\ n = job[p].name
             /\ tmp'[n] = job[p].dig
    BY <2>3
  <2> QED BY <2>1, <2>2, <2>3, TmpWrites
<1> QED BY <1>1, <1>2

\* The steps of the model: a process moves, or the user puts a file.
LEMMA StepCases ==
  ASSUME [Next]_vars
  PROVE  \/ \E p \in Procs : Act(p)
         \/ \E n \in Names : UserFile(n)
         \/ UNCHANGED vars
BY DEF Next, Act

\* A build that is not cut short ends with the directory whole.
LEMMA BuildGoesOn ==
  ASSUME TypeOK, NEW p \in Procs, OwnInv(p), Act(p), ~Fault(p), pc[p] \in BuildPCs
  PROVE  /\ pc'[p] \in BuildPCs \cup {"stat"}
         /\ job'[p].name = job[p].name /\ job'[p].dig = job[p].dig
<1>1. \/ MakeParent(p) \/ CleanStale(p) \/ MakeDigestDir(p)
      \/ MoveRootfs(p) \/ CopyRootfs(p) \/ FinishCopy(p)
      \/ StampMetadata(p) \/ WriteMetadata(p)
  BY DEF Act, Start, StartInstall, ApplyUpdate, InstallPackage, StartRemove, Rollback, Doctor,
     Continue, RenameFails, RemoveStaleTmp, SymlinkTmp, SwapCurrent, DropTmp, CheckWrapper,
     TruncateWrapper, WriteWrapper, ReadWrapper, UnlinkWrapper, WipePackage, ScanBin,
     FixWrappers, FixLinks, BuildPCs
<1>2. CASE StampMetadata(p)
  <2>1. dir[job[p].name][job[p].dig].made
    BY <1>2 DEF StampMetadata, OwnInv, Built, Target
  <2>2. Begin(p, "writeMeta", [job[p] EXCEPT !.at = clock])
    BY <1>2, <2>1 DEF StampMetadata
  <2>3. job[p] \in Jobs
    BY DEF TypeOK
  <2> QED BY <2>2, <2>3, BeginAt DEF BuildPCs, Jobs
<1>3. CASE \/ MakeParent(p) \/ CleanStale(p) \/ MakeDigestDir(p)
           \/ MoveRootfs(p) \/ CopyRootfs(p) \/ FinishCopy(p) \/ WriteMetadata(p)
  <2>1. (\E l \in BuildPCs \cup {"stat"} : Step(p, l)) \/ UNCHANGED <<pc, job, report>>
    BY <1>3 DEF MakeParent, CleanStale, MakeDigestDir, MoveRootfs, CopyRootfs, FinishCopy,
                WriteMetadata, BuildPCs
  <2> QED BY <2>1, StepAt
<1> QED BY <1>1, <1>2, <1>3

LEMMA WholeStep ==
  ASSUME TypeOK, Orderly, BuildInv, NEW p \in Procs, Act(p), OwnInv(p)', NEW q \in Procs
  PROVE  Whole(q)'
<1> SUFFICES ASSUME "rollback" \in Commands, NEW n \in Names, NEW d \in Digests,
                    Readable(n, d)', ~Complete(n, d)'
             PROVE  /\ n = job'[p].name
                    /\ pc'[p] = "wipe" \/ (pc'[p] \in BuildPCs /\ d = job'[p].dig)
  <2>1. p = q \/ "rollback" \notin Commands
    BY DEF Orderly, Solo
  <2> QED BY <2>1 DEF Whole
<1>1. ~Fault(p)
  BY DEF Orderly, Fault, TypeOK
<1>2. CASE /\ pc[p] \in BuildPCs /\ n = job[p].name /\ d = job[p].dig
  <2>1. OwnInv(p)
    BY DEF BuildInv, OwnInv
  <2>2. /\ pc'[p] \in BuildPCs \cup {"stat"}
        /\ job'[p].name = n /\ job'[p].dig = d
    BY <1>1, <1>2, <2>1, BuildGoesOn
  <2>3. pc'[p] # "stat"
    BY <2>2 DEF OwnInv, Built
  <2> QED BY <2>2, <2>3
<1>3. CASE pc[p] = "wipe" /\ n = job[p].name
  <2>1. WipePackage(p)
    BY <1>1, <1>3 DEF Act, Start, StartInstall, ApplyUpdate, InstallPackage, StartRemove,
       Rollback, Doctor, Continue, MakeParent, CleanStale, MakeDigestDir, MoveRootfs,
       CopyRootfs, FinishCopy, StampMetadata, WriteMetadata, RenameFails, RemoveStaleTmp,
       SymlinkTmp, SwapCurrent, DropTmp, CheckWrapper, TruncateWrapper, WriteWrapper,
       ReadWrapper, UnlinkWrapper, ScanBin, FixWrappers, FixLinks
  <2>2. ~(Entries(n) = {} /\ UNCHANGED dir)
    BY DEF Readable, Exists, Entries
  <2>3. UNCHANGED <<pc, job>>
    BY <1>3, <2>1, <2>2 DEF WipePackage
  <2> QED BY <1>3, <2>3
<1>4. CASE dir'[n][d] = dir[n][d]
  <2>1. Readable(n, d) /\ ~Complete(n, d)
    BY <1>4 DEF Complete, Readable, Exists
  <2>2. /\ n = job[p].name
        /\ pc[p] = "wipe" \/ (pc[p] \in BuildPCs /\ d = job[p].dig)
    BY <2>1 DEF BuildInv, Whole
  <2> QED BY <1>2, <1>3, <2>2
<1> QED BY <1>2, <1>3, <1>4, DirWrites

LEMMA BuildStep ==
  ASSUME TypeOK, Orderly, BuildInv, [Next]_vars
  PROVE  BuildInv'
<1>1. ASSUME NEW p \in Procs, Act(p) PROVE BuildInv'
  <2> SUFFICES ASSUME NEW q \in Procs PROVE OwnInv(q)' /\ Whole(q)' /\ Offered(q)'
    BY DEF BuildInv, OwnInv
  <2>1. OwnInv(p)'
    BY <1>1, ActOwn
  <2> QED BY <1>1, <2>1, OthersOwn, WholeStep, OfferedStep
<1>2. ASSUME UNCHANGED <<dir, link, tmp, pc, job>> PROVE BuildInv'
  <2> SUFFICES ASSUME NEW q \in Procs
               PROVE  (Owned(q) /\ Built(q) /\ Fresh(q) /\ Whole(q) /\ Offered(q))'
    BY DEF BuildInv
  <2>1. Owned(q) /\ Built(q) /\ Fresh(q) /\ Whole(q) /\ Offered(q)
    BY DEF BuildInv
  <2>2. \A n \in Names, d \in Digests :
          /\ Readable(n, d)' <=> Readable(n, d)
          /\ Complete(n, d)' <=> Complete(n, d)
    BY <1>2 DEF Complete, Readable, Exists
  <2>3. (Owned(q) /\ Fresh(q))'
    BY <1>2, <2>1 DEF Owned, Fresh, Solo
  <2>4. Built(q)'
    BY <1>2, <2>1 DEF Built, Target, Complete, Readable, Exists
  <2>5. Whole(q)'
    BY <1>2, <2>1, <2>2 DEF Whole
  <2>6. Offered(q)'
    BY <1>2, <2>1 DEF Offered
  <2> QED BY <2>3, <2>4, <2>5, <2>6
<1>3. ASSUME NEW n \in Names, UserFile(n) PROVE BuildInv'
  BY <1>2, <1>3 DEF UserFile
<1>4. CASE UNCHANGED vars
  BY <1>2, <1>4 DEF vars
<1> QED BY <1>1, <1>3, <1>4, StepCases

LEMMA BuildInit == Init => BuildInv
BY DEF Init, BuildInv, Owned, Built, Fresh, Whole, Offered, Readable, Exists, NoDir, BuildPCs,
       ActivatePCs, RemovePCs

-------------------------------------------------------------------------------
\* The active directory

\* An active directory is written by nobody but a removal.
LEMMA ActiveWrites ==
  ASSUME TypeOK, BuildInv, NEW p \in Procs, Act(p), NEW n \in Names, link[n] # NoLink
  PROVE  \/ dir'[n][link[n]] = dir[n][link[n]]
         \/ pc[p] = "wipe" /\ n = job[p].name /\ Solo /\ "remove" \in Commands
<1>1. link[n] \in Digests
  BY DEF TypeOK
<1>2. ~(pc[p] \in BuildPCs /\ n = job[p].name /\ link[n] = job[p].dig)
  BY DEF BuildInv, Fresh
<1>3. pc[p] = "wipe" => Solo /\ "remove" \in Commands
  BY DEF BuildInv, Owned, RemovePCs
<1> QED BY <1>1, <1>2, <1>3, DirWrites

LEMMA CurrentStep ==
  ASSUME TypeOK, "remove" \notin Commands, BuildInv, CurrentComplete, [Next]_vars
  PROVE  CurrentComplete'
<1>1. ASSUME NEW p \in Procs, Act(p) PROVE CurrentComplete'
  <2> SUFFICES ASSUME NEW n \in Names, link'[n] # NoLink
               PROVE  Complete(n, link[n])'
    BY DEF CurrentComplete
  <2>1. CASE link'[n] = link[n]
    <3>1. Complete(n, link[n])
      BY <2>1 DEF CurrentComplete
    <3>2. dir'[n][link[n]] = dir[n][link[n]]
      BY <1>1, <2>1, ActiveWrites
    <3> QED BY <2>1, <3>1, <3>2 DEF Complete, Readable, Exists
  <2>2. CASE /\ pc[p] = "rename" /\ n = job[p].name
             /\ tmp[n] # NoLink /\ link'[n] = tmp[n] /\ UNCHANGED dir
    <3>1. Complete(n, tmp[n])
      BY <2>2, SwappedIn
    <3> QED BY <2>2, <3>1 DEF Complete, Readable, Exists
  <2> QED BY <1>1, <2>1, <2>2, LinkWrites
<1>2. ASSUME UNCHANGED <<dir, link>> PROVE CurrentComplete'
  BY <1>2 DEF CurrentComplete, Complete, Readable, Exists
<1> QED BY <1>1, <1>2, StepCases DEF UserFile, vars

\* While nothing is removed and the active digest is not installed again,
\* current never leads to a directory that is not wholly there: not at any call
\* of an install or update, not with several processes that install different
\* digests and doctor --fix among them, not where the only process is killed,
\* and not after a rollback of a process that is not (Build, StoreMetadata and
\* SetCurrent in this order, SetCurrent by rename).
THEOREM CurrentCompleteCorrect ==
  ASSUME Orderly, "remove" \notin Commands
  PROVE  Spec => []CurrentComplete
<1>1. Init => CurrentComplete
  BY DEF Init, CurrentComplete
<1>2. TypeOK /\ BuildInv /\ [Next]_vars => BuildInv'
  BY BuildStep
<1>3. TypeOK /\ BuildInv /\ CurrentComplete /\ [Next]_vars => CurrentComplete'
  BY CurrentStep
<1> QED BY <1>1, <1>2, <1>3, BuildInit, TypeCorrect, PTL DEF Spec

\* Under the same conditions the files of the active version do not change
\* under a command that is using them: an install writes to the directory of
\* another digest (Build).
THEOREM ActiveImmutableCorrect ==
  ASSUME Orderly, "remove" \notin Commands
  PROVE  Spec => ActiveImmutable
<1>1. TypeOK /\ BuildInv /\ [Next]_vars => BuildInv'
  BY BuildStep
<1>2. TypeOK /\ BuildInv /\ [Next]_vars =>
        [\A n \in Names, d \in Digests :
            link[n] = d /\ link'[n] = d => dir'[n][d] = dir[n][d]]_vars
  <2> SUFFICES ASSUME TypeOK, BuildInv, [Next]_vars, NEW n \in Names, NEW d \in Digests,
                      link[n] = d
               PROVE  dir'[n][d] = dir[n][d]
    OBVIOUS
  <2>1. ASSUME NEW p \in Procs, Act(p) PROVE dir'[n][d] = dir[n][d]
    BY <2>1, ActiveWrites, ConstantsAssumption
  <2> QED BY <2>1, StepCases DEF UserFile, vars
<1> QED BY <1>1, <1>2, BuildInit, TypeCorrect, PTL DEF Spec, ActiveImmutable

-------------------------------------------------------------------------------
\* Wrappers: ShimInv is inductive for one process

\* Where the calls of a command lead to.
LEMMA Arrivals ==
  ASSUME TypeOK, NEW p \in Procs, Act(p)
  PROVE  /\ pc'[p] \in WrapPCs =>
               \/ SwapCurrent(p) /\ tmp[job[p].name] # NoLink /\ job' = job
               \/ CheckWrapper(p) /\ job' = job
               \/ TruncateWrapper(p) /\ job' = job
         /\ pc'[p] = "wipe" => /\ ReadWrapper(p) \/ UnlinkWrapper(p) \/ WipePackage(p)
                               /\ job' = job
         /\ pc'[p] \in DoctorPCs =>
               Doctor(p) \/ ScanBin(p) \/ FixWrappers(p) \/ FixLinks(p)
<1> DEFINE Goal ==
      /\ pc'[p] \in WrapPCs =>
               \/ SwapCurrent(p) /\ tmp[job[p].name] # NoLink /\ job' = job
               \/ CheckWrapper(p) /\ job' = job
               \/ TruncateWrapper(p) /\ job' = job
      /\ pc'[p] = "wipe" => /\ ReadWrapper(p) \/ UnlinkWrapper(p) \/ WipePackage(p)
                            /\ job' = job
      /\ pc'[p] \in DoctorPCs =>
               Doctor(p) \/ ScanBin(p) \/ FixWrappers(p) \/ FixLinks(p)
<1>1. ASSUME pc'[p] \notin WrapPCs \cup DoctorPCs \cup {"wipe"} PROVE Goal
  BY <1>1
<1>2. ASSUME Return(p) PROVE Goal
  BY <1>1, <1>2, ReturnAt DEF WrapPCs, DoctorPCs
<1>3. ASSUME NEW l, NEW j, Begin(p, l, j), l \notin WrapPCs \cup DoctorPCs \cup {"wipe"}
      PROVE  Goal
  BY <1>1, <1>3, BeginAt
<1>4. ASSUME NEW l, Step(p, l), l \notin WrapPCs \cup DoctorPCs \cup {"wipe"}
      PROVE  Goal
  BY <1>1, <1>4, StepAt
<1>5. CASE Doctor(p) \/ ScanBin(p) \/ FixWrappers(p) \/ FixLinks(p)
  <2>1. Return(p) \/ pc'[p] \in DoctorPCs \/ UNCHANGED pc
    BY <1>5 DEF Doctor, ScanBin, FixWrappers, FixLinks, Goto, DoctorPCs, TypeOK
  <2>2. pc[p] \in DoctorPCs \cup {"idle"}
    BY <1>5 DEF Doctor, ScanBin, FixWrappers, FixLinks, DoctorPCs
  <2> QED BY <1>2, <1>5, <2>1, <2>2 DEF WrapPCs, DoctorPCs
<1>6. CASE StartInstall(p) \/ ApplyUpdate(p) \/ StartRemove(p) \/ Rollback(p)
  <2>1. \E l \in {"parent", "unshimRead", "stat"} : \E j : Begin(p, l, j)
    BY <1>6 DEF StartInstall, ApplyUpdate, InstallPackage, StartRemove, Rollback
  <2> QED BY <1>3, <2>1 DEF WrapPCs, DoctorPCs
<1>7. CASE \/ MakeParent(p) \/ CleanStale(p) \/ MakeDigestDir(p)
           \/ MoveRootfs(p) \/ CopyRootfs(p) \/ FinishCopy(p)
           \/ StampMetadata(p) \/ WriteMetadata(p)
  <2>1. \/ \E l \in BuildPCs \cup {"stat"} : Step(p, l)
        \/ \E j : Begin(p, "writeMeta", j)
        \/ Return(p)
        \/ UNCHANGED pc /\ pc[p] = "clean"
    BY <1>7 DEF MakeParent, CleanStale, MakeDigestDir, MoveRootfs, CopyRootfs, FinishCopy,
                StampMetadata, WriteMetadata, BuildPCs
  <2> QED BY <1>1, <1>2, <1>3, <1>4, <2>1 DEF BuildPCs, WrapPCs, DoctorPCs
<1>8. CASE RemoveStaleTmp(p) \/ SymlinkTmp(p) \/ DropTmp(p) \/ WriteWrapper(p)
           \/ RenameFails(p) \/ Fault(p)
  <2>1. (\E l \in {"symlink", "rename", "dropTmp"} : Step(p, l)) \/ Return(p)
    BY <1>8 DEF RemoveStaleTmp, SymlinkTmp, DropTmp, WriteWrapper, RenameFails, Fault
  <2> QED BY <1>2, <1>4, <2>1 DEF WrapPCs, DoctorPCs
<1>9. CASE SwapCurrent(p)
  <2>1. Return(p) \/ Step(p, "dropTmp") \/ (Step(p, "wrapCheck") /\ tmp[job[p].name] # NoLink)
    BY <1>9 DEF SwapCurrent
  <2>2. CASE Step(p, "wrapCheck") /\ tmp[job[p].name] # NoLink
    <3>1. pc'[p] = "wrapCheck" /\ job' = job
      BY <2>2, StepAt
    <3> QED BY <1>9, <2>2, <3>1 DEF DoctorPCs
  <2> QED BY <1>2, <1>4, <2>1, <2>2 DEF WrapPCs, DoctorPCs
<1>10. CASE CheckWrapper(p) \/ TruncateWrapper(p)
  <2>1. Return(p) \/ \E l \in {"wrapTruncate", "wrapWrite"} : Step(p, l)
    BY <1>10 DEF CheckWrapper, TruncateWrapper
  <2>2. ASSUME NEW l \in {"wrapTruncate", "wrapWrite"}, Step(p, l) PROVE Goal
    <3>1. pc'[p] = l /\ job' = job
      BY <2>2, StepAt
    <3> QED BY <1>10, <2>2, <3>1 DEF DoctorPCs
  <2> QED BY <1>2, <2>1, <2>2
<1>11. CASE ReadWrapper(p) \/ UnlinkWrapper(p) \/ WipePackage(p)
  <2>1. \/ Return(p)
        \/ \E l \in {"unshimRemove", "wipe"} : Step(p, l)
        \/ UNCHANGED <<pc, job>> /\ pc[p] = "wipe"
    BY <1>11 DEF ReadWrapper, UnlinkWrapper, WipePackage
  <2>2. CASE \/ \E l \in {"unshimRemove", "wipe"} : Step(p, l)
             \/ UNCHANGED <<pc, job>> /\ pc[p] = "wipe"
    <3>1. pc'[p] \in {"unshimRemove", "wipe"} /\ job' = job
      BY <2>2, StepAt
    <3> QED BY <1>11, <3>1 DEF WrapPCs, DoctorPCs
  <2> QED BY <1>2, <2>1, <2>2
<1> QED BY <1>5, <1>6, <1>7, <1>8, <1>9, <1>10, <1>11 DEF Act, Start, Continue

\* A marked wrapper is made by WriteWrapper alone.
LEMMA WrapperWrites ==
  ASSUME TypeOK, NEW p \in Procs, Act(p), NEW n \in Names
  PROVE  \/ wrapper'[n] = wrapper[n]
         \/ wrapper'[n] \in {NoFile, EmptyFile} /\ UNCHANGED link
         \/ /\ pc[p] = "wrapWrite" /\ n = job[p].name /\ wrapper'[n] = job[p].dig
            /\ UNCHANGED <<dir, link>>
<1>1. CASE UNCHANGED wrapper
  BY <1>1
<1>2. CASE TruncateWrapper(p) \/ WriteWrapper(p) \/ UnlinkWrapper(p) \/ FixWrappers(p)
  BY <1>2 DEF TruncateWrapper, WriteWrapper, UnlinkWrapper, FixWrappers, TypeOK
<1>3. CASE Start(p) \/ RenameFails(p) \/ Fault(p)
  BY <1>3 DEF Start, StartInstall, ApplyUpdate, InstallPackage, StartRemove, Rollback, Doctor,
         RenameFails, Fault, store
<1>4. CASE
      \/ MakeParent(p) \/ CleanStale(p) \/ MakeDigestDir(p)
      \/ MoveRootfs(p) \/ CopyRootfs(p) \/ FinishCopy(p)
      \/ StampMetadata(p) \/ WriteMetadata(p)
      \/ RemoveStaleTmp(p) \/ SymlinkTmp(p) \/ SwapCurrent(p) \/ DropTmp(p)
      \/ CheckWrapper(p) \/ ReadWrapper(p) \/ WipePackage(p)
      \/ ScanBin(p) \/ FixLinks(p)
  BY <1>4 DEF MakeParent, CleanStale, MakeDigestDir, MoveRootfs, CopyRootfs, FinishCopy,
         StampMetadata, WriteMetadata, RemoveStaleTmp, SymlinkTmp, SwapCurrent, DropTmp,
         CheckWrapper, ReadWrapper, WipePackage, ScanBin, FixLinks, store
<1> QED BY <1>2, <1>3, <1>4 DEF Act, Continue

\* No call writes files into a directory that is not there.
LEMMA ShapeStep ==
  ASSUME TypeOK, DirShape, NEW p \in Procs, Act(p)
  PROVE  DirShape'
<1> USE JobFields
<1>1. ASSUME NEW n \in Names, NEW d \in Digests, NEW x \in DigestDir,
             dir' = [dir EXCEPT ![n][d] = x], ~x.made => x.rootfs = "none"
      PROVE  DirShape'
  BY <1>1 DEF DirShape, TypeOK
<1>2. ASSUME NEW n \in Names, NEW d \in Digests, Wipe(n, d) PROVE DirShape'
  <2> DEFINE x == dir[n][d]
  <2>1. /\ x \in [made: BOOLEAN, rootfs: Rootfs, meta: Metadata] /\ x.made
        /\ \A r \in Rootfs : [x EXCEPT !.rootfs = r] \in DigestDir
        /\ [x EXCEPT !.meta = NoMeta] \in DigestDir
    BY <1>2, DirFields, NullTypes DEF Wipe, DigestDir
  <2>2. \/ \E r \in Rootfs : dir' = [dir EXCEPT ![n][d] = [x EXCEPT !.rootfs = r]]
        \/ dir' = [dir EXCEPT ![n][d] = [x EXCEPT !.meta = NoMeta]]
        \/ dir' = [dir EXCEPT ![n][d] = NoDir]
    BY <1>2 DEF Wipe, Rootfs
  <2>3. /\ \A r \in Rootfs : [x EXCEPT !.rootfs = r].made
        /\ [x EXCEPT !.meta = NoMeta].made
    BY <2>1
  <2>4. NoDir \in DigestDir /\ NoDir.rootfs = "none"
    BY NullTypes DEF NoDir
  <2> HIDE DEF x
  <2> QED BY <1>1, <2>1, <2>2, <2>3, <2>4
<1>3. CASE UNCHANGED dir
  BY <1>3 DEF DirShape
<1>4. CASE CleanStale(p) \/ WipePackage(p)
  BY <1>2, <1>3, <1>4 DEF CleanStale, WipePackage, Entries
<1>5. CASE \/ MakeDigestDir(p) \/ MoveRootfs(p) \/ CopyRootfs(p) \/ FinishCopy(p)
           \/ StampMetadata(p) \/ WriteMetadata(p)
  <2> DEFINE n == job[p].name  d == job[p].dig  x == dir[n][d]
  <2>1. n \in Names /\ d \in Digests /\ x \in [made: BOOLEAN, rootfs: Rootfs, meta: Metadata]
    BY DirFields DEF DigestDir
  <2>2. ~x.made => x.rootfs = "none"
    BY <2>1 DEF DirShape
  <2>3. /\ [x EXCEPT !.made = TRUE] \in DigestDir
        /\ \A r \in Rootfs : [x EXCEPT !.rootfs = r] \in DigestDir
        /\ \A r \in Rootfs : [x EXCEPT !.made = TRUE, !.rootfs = r] \in DigestDir
        /\ \A m \in Metadata : [x EXCEPT !.meta = m] \in DigestDir
    BY <2>1, DirFields
  <2>4. /\ [x EXCEPT !.made = TRUE].made
        /\ \A r : [x EXCEPT !.rootfs = r].made = x.made
        /\ \A r : [x EXCEPT !.made = TRUE, !.rootfs = r].made
        /\ \A m : /\ [x EXCEPT !.meta = m].made = x.made
                  /\ [x EXCEPT !.meta = m].rootfs = x.rootfs
    BY <2>1
  <2>5. "partial" \in Rootfs /\ "full" \in Rootfs /\ [NoMeta EXCEPT !.state = "torn"] \in Metadata
    BY NullTypes DEF Rootfs, Metadata
  <2>6. ASSUME NEW y \in DigestDir, dir' = [dir EXCEPT ![n][d] = y], y.made \/ y.rootfs = "none"
        PROVE  DirShape'
    BY <1>1, <2>1, <2>6
  <2>7. CASE MakeDigestDir(p)
    <3>1. dir' = [dir EXCEPT ![n][d] = [x EXCEPT !.made = TRUE]]
      BY <2>7 DEF MakeDigestDir
    <3> HIDE DEF n, d, x
    <3> QED BY <2>3, <2>4, <2>6, <3>1
  <2>8. CASE MoveRootfs(p)
    <3>1. dir' = [dir EXCEPT ![n][d] = [x EXCEPT !.rootfs = "full"]] /\ x.made
      BY <2>8 DEF MoveRootfs
    <3> HIDE DEF n, d, x
    <3> QED BY <2>3, <2>4, <2>5, <2>6, <3>1
  <2>9. ASSUME NEW r \in Rootfs, dir' = [dir EXCEPT ![n][d].made = TRUE, ![n][d].rootfs = r]
        PROVE  DirShape'
    <3>1. dir' = [dir EXCEPT ![n][d] = [x EXCEPT !.made = TRUE, !.rootfs = r]]
      BY <2>1, <2>9 DEF TypeOK
    <3> HIDE DEF n, d, x
    <3> QED BY <2>3, <2>4, <2>6, <3>1
  <2>10. CASE CopyRootfs(p)
    BY <2>5, <2>9, <2>10 DEF CopyRootfs
  <2>11. CASE FinishCopy(p)
    <3>1. CASE x.rootfs # "none" /\ dir' = [dir EXCEPT ![n][d].rootfs = "full"]
      <4>1. dir' = [dir EXCEPT ![n][d] = [x EXCEPT !.rootfs = "full"]] /\ x.made
        BY <2>1, <2>2, <3>1
      <4> HIDE DEF n, d, x
      <4> QED BY <2>3, <2>4, <2>5, <2>6, <4>1
    <3> QED BY <1>3, <2>5, <2>9, <2>11, <3>1 DEF FinishCopy
  <2>12. ASSUME NEW m \in Metadata, dir' = [dir EXCEPT ![n][d].meta = m] PROVE DirShape'
    <3>1. dir' = [dir EXCEPT ![n][d] = [x EXCEPT !.meta = m]]
      BY <2>12
    <3>2. [x EXCEPT !.meta = m].made \/ [x EXCEPT !.meta = m].rootfs = "none"
      BY <2>1, <2>2
    <3> HIDE DEF n, d, x
    <3> QED BY <2>3, <2>6, <3>1, <3>2
  <2>13. CASE StampMetadata(p)
    BY <1>3, <2>5, <2>12, <2>13 DEF StampMetadata
  <2>14. CASE WriteMetadata(p)
    <3>1. [state |-> "ok", at |-> job[p].at, verified |-> job[p].verified,
           reg |-> job[p].reg] \in Metadata
      BY DEF Metadata
    <3> QED BY <1>3, <2>5, <2>12, <2>14, <3>1 DEF WriteMetadata
  <2> QED BY <1>5, <2>7, <2>8, <2>10, <2>11, <2>13, <2>14
<1>7. CASE Start(p) \/ RenameFails(p) \/ Fault(p)
  BY <1>3, <1>7 DEF Start, StartInstall, ApplyUpdate, InstallPackage, StartRemove, Rollback,
         Doctor, RenameFails, Fault, store
<1>8. CASE
      \/ MakeParent(p)
      \/ RemoveStaleTmp(p) \/ SymlinkTmp(p) \/ SwapCurrent(p) \/ DropTmp(p)
      \/ CheckWrapper(p) \/ TruncateWrapper(p) \/ WriteWrapper(p)
      \/ ReadWrapper(p) \/ UnlinkWrapper(p)
      \/ ScanBin(p) \/ FixWrappers(p) \/ FixLinks(p)
  BY <1>3, <1>8 DEF MakeParent, RemoveStaleTmp, SymlinkTmp, SwapCurrent, DropTmp, CheckWrapper,
         TruncateWrapper, WriteWrapper, ReadWrapper, UnlinkWrapper, ScanBin, FixWrappers,
         FixLinks, store
<1> QED BY <1>4, <1>5, <1>7, <1>8 DEF Act, Continue

\* A marked wrapper stays runnable: what is removed, or taken off by doctor
\* --fix, has lost its wrapper before.
LEMMA RunnableStep ==
  ASSUME TypeOK, BuildInv, ShimInv, NEW p \in Procs, Act(p)
  PROVE  RunnableShim'
<1> SUFFICES ASSUME NEW n \in Names, isDropzoneWrapper(wrapper'[n])
             PROVE  link'[n] # NoLink /\ dir'[n][link'[n]].rootfs = "full"
  BY DEF RunnableShim, isDropzoneWrapper
<1>1. CASE wrapper'[n] = wrapper[n]
  <2>1. Marked(n) /\ link[n] # NoLink /\ dir[n][link[n]].rootfs = "full"
    BY <1>1 DEF ShimInv, RunnableShim, Marked, isDropzoneWrapper
  <2>2. ~(pc[p] = "wipe" /\ n = job[p].name)
    BY <2>1 DEF ShimInv, Unshimmed
  <2>3. ~(pc[p] = "fixLinks" /\ n \in report[p].broken)
    BY <2>1 DEF ShimInv, Reported, DoctorPCs
  <2>4. CASE link'[n] = link[n]
    <3>1. dir'[n][link[n]] = dir[n][link[n]]
      BY <2>1, <2>2, ActiveWrites
    <3> QED BY <2>1, <2>4, <3>1
  <2>5. CASE /\ pc[p] = "rename" /\ n = job[p].name
             /\ tmp[n] # NoLink /\ link'[n] = tmp[n] /\ UNCHANGED dir
    <3>1. Complete(n, tmp[n])
      BY <2>5, SwappedIn
    <3> QED BY <2>5, <3>1 DEF Complete
  <2> QED BY <2>2, <2>3, <2>4, <2>5, LinkWrites
<1>2. CASE wrapper'[n] \in {NoFile, EmptyFile}
  BY <1>2, ConstantsAssumption DEF isDropzoneWrapper
<1>3. CASE /\ pc[p] = "wrapWrite" /\ n = job[p].name /\ wrapper'[n] = job[p].dig
           /\ UNCHANGED <<dir, link>>
  <2>1. link[n] = job[p].dig /\ dir[n][job[p].dig].rootfs = "full"
    BY <1>3 DEF ShimInv, Launching, WrapPCs, Target
  <2>2. job[p].dig # NoLink
    BY JobFields, ConstantsAssumption
  <2> QED BY <1>3, <2>1, <2>2
<1> QED BY <1>1, <1>2, <1>3, WrapperWrites

\* With one process, what it makes current is what it has built.
LEMMA LaunchingStep ==
  ASSUME TypeOK, Solo, BuildInv, ShimInv, NEW p \in Procs, Act(p)
  PROVE  Launching(p)'
<1> SUFFICES ASSUME pc'[p] \in WrapPCs
             PROVE  /\ link'[job'[p].name] = job'[p].dig
                    /\ dir'[job'[p].name][job'[p].dig].rootfs = "full"
  BY DEF Launching, Target
<1>1. CASE SwapCurrent(p) /\ tmp[job[p].name] # NoLink /\ job' = job
  <2>1. pc[p] = "rename"
    BY <1>1 DEF SwapCurrent
  <2>2. PICK r \in Procs : job[r].dig = tmp[job[p].name]
    BY <1>1, <2>1, SwappedIn
  <2>3. job[p].dig = tmp[job[p].name] /\ Complete(job[p].name, job[p].dig)
    BY <1>1, <2>1, <2>2, SwappedIn DEF Solo
  <2>4. link'[job[p].name] = job[p].dig /\ dir' = dir
    BY <1>1, <2>3, JobFields DEF SwapCurrent, TypeOK
  <2> QED BY <1>1, <2>3, <2>4 DEF Complete
<1>2. CASE (CheckWrapper(p) \/ TruncateWrapper(p)) /\ job' = job
  <2>1. pc[p] \in WrapPCs /\ UNCHANGED <<dir, link>>
    BY <1>2 DEF CheckWrapper, TruncateWrapper, WrapPCs, store
  <2> QED BY <1>2, <2>1 DEF ShimInv, Launching, Target
<1> QED BY <1>1, <1>2, Arrivals

LEMMA UnshimmedStep ==
  ASSUME TypeOK, ShimInv, NEW p \in Procs, Act(p)
  PROVE  Unshimmed(p)'
<1> SUFFICES ASSUME pc'[p] = "wipe" PROVE wrapper'[job'[p].name] \notin Digests
  BY DEF Unshimmed, Marked, isDropzoneWrapper
<1> USE JobFields
<1>1. job' = job
  BY Arrivals
<1>2. CASE ReadWrapper(p)
  <2>1. ~Return(p) /\ ~Step(p, "unshimRemove")
    BY StepAt, ReturnAt
  <2>2. wrapper[job[p].name] = NoFile /\ wrapper' = wrapper
    BY <1>2, <2>1 DEF ReadWrapper, store
  <2> QED BY <1>1, <2>2, ConstantsAssumption
<1>3. CASE UnlinkWrapper(p)
  <2>1. wrapper'[job[p].name] = NoFile
    BY <1>3 DEF UnlinkWrapper, TypeOK
  <2> QED BY <1>1, <2>1, ConstantsAssumption
<1>4. CASE WipePackage(p)
  <2>1. pc[p] = "wipe" /\ wrapper' = wrapper
    BY <1>4 DEF WipePackage
  <2> QED BY <1>1, <2>1 DEF ShimInv, Unshimmed, Marked, isDropzoneWrapper
<1> QED BY <1>2, <1>3, <1>4, Arrivals

\* The report of doctor --fix stays true while it works through it.
LEMMA ReportedStep ==
  ASSUME TypeOK, ShimInv, NEW p \in Procs, Act(p)
  PROVE  Reported(p)'
<1> USE JobFields
<1> DEFINE Astray(n) == link'[n] # NoLink /\ ~dir'[n][link'[n]].made
           Lists(b) ==
             /\ \A n \in b : /\ wrapper'[n] \notin Digests
                             /\ link'[n] = NoLink \/ Astray(n)
             /\ \A n \in pkgDir' : Astray(n) => n \in b
<1>1. ASSUME pc'[p] \in DoctorPCs => Lists(report'[p].broken) PROVE Reported(p)'
  <2> SUFFICES ASSUME pc'[p] \in DoctorPCs
               PROVE  /\ \A n \in report'[p].broken :
                            ~Marked(n)' /\ (link'[n] = NoLink \/ Dangling(n)')
                      /\ \A n \in pkgDir' : Dangling(n)' => n \in report'[p].broken
    BY DEF Reported
  <2>1. TypeOK'
    BY TypeStep DEF Next, Act
  <2>2. /\ report'[p].broken \subseteq Names /\ pkgDir' \subseteq Names
        /\ \A n \in Names : link'[n] # NoLink => link'[n] \in Digests
    BY <2>1 DEF TypeOK, Reports
  <2>3. \A n \in Names : Dangling(n)' <=> Astray(n)
    BY <2>2 DEF Dangling, Exists
  <2>4. \A n \in Names : Marked(n)' <=> wrapper'[n] \in Digests
    BY DEF Marked, isDropzoneWrapper
  <2> HIDE DEF Astray
  <2> QED BY <1>1, <2>2, <2>3, <2>4
<1>2. CASE Doctor(p)
  <2>1. report'[p].broken = Broken /\ UNCHANGED store
    BY <1>2 DEF Doctor, TypeOK
  <2>2. \A n \in Broken : wrapper[n] \notin Digests
    BY DEF Broken, Exists, ShimInv, DirShape, RunnableShim, isDropzoneWrapper, TypeOK
  <2>3. Lists(report'[p].broken)
    BY <2>1, <2>2 DEF Broken, Exists, store, TypeOK
  <2> QED BY <1>1, <2>3
<1>3. CASE ScanBin(p) \/ FixWrappers(p) \/ FixLinks(p)
  <2>1. /\ pc[p] \in DoctorPCs
        /\ \A n \in report[p].broken : /\ wrapper[n] \notin Digests
                                       /\ \/ link[n] = NoLink
                                          \/ link[n] # NoLink /\ ~dir[n][link[n]].made
        /\ \A n \in pkgDir :
              link[n] # NoLink /\ ~dir[n][link[n]].made => n \in report[p].broken
    <3>1. pc[p] \in DoctorPCs
      BY <1>3 DEF ScanBin, FixWrappers, FixLinks, DoctorPCs
    <3>2. \A n \in Names : Dangling(n) <=> link[n] # NoLink /\ ~dir[n][link[n]].made
      BY DEF Dangling, Exists, TypeOK
    <3>3. Reported(p)
      BY DEF ShimInv
    <3> QED BY <3>1, <3>2, <3>3 DEF Reported, Marked, isDropzoneWrapper, TypeOK
  <2>2. CASE ScanBin(p)
    <3>1. report'[p].broken = report[p].broken /\ UNCHANGED store
      BY <2>2 DEF ScanBin, TypeOK, Reports
    <3> QED BY <1>1, <2>1, <3>1 DEF store
  <2>3. CASE FixWrappers(p)
    <3>1. report'[p].broken = report[p].broken /\ UNCHANGED <<pkgDir, dir, link>>
      BY <2>3 DEF FixWrappers, TypeOK, Reports
    <3>2. \A n \in Names : wrapper'[n] \in {wrapper[n], NoFile}
      BY <2>3 DEF FixWrappers, TypeOK
    <3> QED BY <1>1, <2>1, <3>1, <3>2, ConstantsAssumption
  <2>4. CASE FixLinks(p)
    <3>1. CASE Return(p)
      <4>1. pc'[p] \notin DoctorPCs
        BY <3>1, ReturnAt DEF DoctorPCs
      <4> QED BY <1>1, <4>1
    <3>2. ASSUME NEW n \in report[p].broken,
                 report' = [report EXCEPT ![p].broken = @ \ {n}],
                 link' = [link EXCEPT ![n] = NoLink]
          PROVE  Lists(report'[p].broken)
      <4>1. report'[p].broken = report[p].broken \ {n}
        BY <3>2 DEF TypeOK, Reports
      <4>2. UNCHANGED <<pkgDir, dir, wrapper>>
        BY <2>4 DEF FixLinks
      <4>3. link'[n] = NoLink /\ \A m \in Names \ {n} : link'[m] = link[m]
        BY <3>2 DEF TypeOK
      <4> QED BY <2>1, <4>1, <4>2, <4>3 DEF TypeOK
    <3> QED BY <1>1, <2>4, <3>1, <3>2 DEF FixLinks
  <2> QED BY <1>3, <2>2, <2>3, <2>4
<1> QED BY <1>1, <1>2, <1>3, Arrivals

LEMMA ShimStep ==
  ASSUME TypeOK, Solo, BuildInv, ShimInv, [Next]_vars
  PROVE  ShimInv'
<1>1. ASSUME NEW p \in Procs, Act(p) PROVE ShimInv'
  <2>1. \A q \in Procs : q = p
    BY DEF Solo
  <2> QED BY <1>1, <2>1, ShapeStep, RunnableStep, LaunchingStep, UnshimmedStep, ReportedStep
          DEF ShimInv
<1>2. ASSUME UNCHANGED <<pkgDir, dir, link, pc, job, report>>,
             \A n \in Names : wrapper'[n] \in Digests => wrapper'[n] = wrapper[n]
      PROVE  ShimInv'
  <2>1. DirShape' /\ RunnableShim'
    BY <1>2 DEF ShimInv, DirShape, RunnableShim, isDropzoneWrapper
  <2>2. ASSUME NEW p \in Procs PROVE Launching(p)' /\ Unshimmed(p)' /\ Reported(p)'
    <3>1. Launching(p)'
      BY <1>2 DEF ShimInv, Launching, Target
    <3>2. \A n \in Names : isDropzoneWrapper(wrapper'[n]) => isDropzoneWrapper(wrapper[n])
      BY <1>2 DEF isDropzoneWrapper
    <3> QED BY <1>2, <3>1, <3>2, JobFields
            DEF ShimInv, Unshimmed, Reported, Marked, Dangling, Exists
  <2> QED BY <2>1, <2>2 DEF ShimInv
<1>3. ASSUME NEW n \in Names, UserFile(n) PROVE ShimInv'
  <2>1. \A m \in Names : wrapper'[m] \in Digests => wrapper'[m] = wrapper[m]
    BY <1>3, ConstantsAssumption DEF UserFile, TypeOK
  <2> QED BY <1>2, <1>3, <2>1 DEF UserFile
<1>4. CASE UNCHANGED vars
  BY <1>2, <1>4 DEF vars
<1> QED BY <1>1, <1>3, <1>4, StepCases

LEMMA ShimInit == Init => ShimInv
<1> SUFFICES ASSUME Init PROVE ShimInv
  OBVIOUS
<1>1. DirShape
  BY DEF Init, DirShape, NoDir
<1>2. RunnableShim
  BY ConstantsAssumption DEF Init, RunnableShim, isDropzoneWrapper
<1> QED BY <1>1, <1>2
        DEF Init, ShimInv, Launching, Unshimmed, Reported, WrapPCs, DoctorPCs

\* Where nothing is removed, a link is not taken away either: there is none
\* that leads nowhere, so doctor reports none.
KeptInv ==
    /\ RunnableShim
    /\ \A p \in Procs : /\ pc[p] \in WrapPCs => link[job[p].name] # NoLink
                        /\ pc[p] \in DoctorPCs => report[p].broken = {}

LEMMA KeptLink ==
  ASSUME TypeOK, "remove" \notin Commands, BuildInv, KeptInv, NEW p \in Procs, Act(p),
         NEW n \in Names, link[n] # NoLink
  PROVE  link'[n] # NoLink
<1>1. pc[p] # "wipe"
  BY DEF BuildInv, Owned, RemovePCs
<1>2. ~(pc[p] = "fixLinks" /\ n \in report[p].broken)
  BY DEF KeptInv, DoctorPCs
<1> QED BY <1>1, <1>2, LinkWrites

LEMMA KeptAct ==
  ASSUME TypeOK, "remove" \notin Commands, BuildInv, CurrentComplete, CurrentComplete',
         KeptInv, NEW p \in Procs, Act(p)
  PROVE  KeptInv'
<1> USE JobFields
<1>1. RunnableShim'
  <2> SUFFICES ASSUME NEW n \in Names, wrapper'[n] \in Digests PROVE link'[n] # NoLink
    BY DEF RunnableShim, CurrentComplete, Complete, isDropzoneWrapper
  <2>1. CASE wrapper'[n] = wrapper[n]
    BY <2>1, KeptLink DEF KeptInv, RunnableShim, isDropzoneWrapper
  <2>2. CASE wrapper'[n] \in {NoFile, EmptyFile}
    BY <2>2, ConstantsAssumption
  <2>3. CASE pc[p] = "wrapWrite" /\ n = job[p].name /\ UNCHANGED link
    BY <2>3 DEF KeptInv, WrapPCs
  <2> QED BY <2>1, <2>2, <2>3, WrapperWrites
<1>2. ASSUME NEW q \in Procs, pc'[q] \in WrapPCs PROVE link'[job'[q].name] # NoLink
  <2>1. CASE q # p
    <3>1. pc[q] \in WrapPCs /\ job'[q] = job[q]
      BY <1>2, <2>1, OthersStay
    <3> QED BY <3>1, KeptLink DEF KeptInv
  <2>2. CASE q = p
    <3>1. CASE SwapCurrent(p) /\ tmp[job[p].name] # NoLink /\ job' = job
      BY <2>2, <3>1 DEF SwapCurrent, TypeOK
    <3>2. CASE (CheckWrapper(p) \/ TruncateWrapper(p)) /\ job' = job
      <4>1. pc[p] \in WrapPCs
        BY <3>2 DEF CheckWrapper, TruncateWrapper, WrapPCs
      <4> QED BY <2>2, <3>2, <4>1, KeptLink DEF KeptInv
    <3> QED BY <1>2, <2>2, <3>1, <3>2, Arrivals
  <2> QED BY <2>1, <2>2
<1>3. ASSUME NEW q \in Procs, pc'[q] \in DoctorPCs PROVE report'[q].broken = {}
  <2>1. CASE q # p
    <3>1. pc[q] \in DoctorPCs /\ report'[q] = report[q]
      BY <1>3, <2>1, OthersStay
    <3> QED BY <3>1 DEF KeptInv
  <2>2. CASE Doctor(p) /\ q = p
    <3>1. Broken = {}
      BY DEF Broken, CurrentComplete, Complete, Readable, TypeOK
    <3> QED BY <2>2, <3>1 DEF Doctor, TypeOK
  <2>3. CASE (ScanBin(p) \/ FixWrappers(p)) /\ q = p
    <3>1. pc[p] \in DoctorPCs
      BY <2>3 DEF ScanBin, FixWrappers, DoctorPCs
    <3>2. report[p].broken = {}
      BY <3>1 DEF KeptInv
    <3> QED BY <2>3, <3>2 DEF ScanBin, FixWrappers, TypeOK, Reports
  <2>4. CASE FixLinks(p) /\ q = p
    <3>1. report[p].broken = {}
      BY <2>4 DEF KeptInv, FixLinks, DoctorPCs
    <3>2. Return(p)
      BY <2>4, <3>1 DEF FixLinks
    <3> QED BY <1>3, <2>4, <3>2, ReturnAt DEF DoctorPCs
  <2> QED BY <1>3, <2>1, <2>2, <2>3, <2>4, Arrivals
<1> QED BY <1>1, <1>2, <1>3 DEF KeptInv

LEMMA KeptStep ==
  ASSUME TypeOK, "remove" \notin Commands, BuildInv, CurrentComplete, CurrentComplete',
         KeptInv, [Next]_vars
  PROVE  KeptInv'
<1>1. ASSUME UNCHANGED <<dir, link, pc, job, report>>,
             \A n \in Names : wrapper'[n] \in Digests => wrapper'[n] = wrapper[n]
      PROVE  KeptInv'
  BY <1>1 DEF KeptInv, RunnableShim, isDropzoneWrapper
<1>2. ASSUME NEW n \in Names, UserFile(n) PROVE KeptInv'
  <2>1. \A m \in Names : wrapper'[m] \in Digests => wrapper'[m] = wrapper[m]
    BY <1>2, ConstantsAssumption DEF UserFile, TypeOK
  <2> QED BY <1>1, <1>2, <2>1 DEF UserFile
<1>3. CASE UNCHANGED vars
  BY <1>1, <1>3 DEF vars
<1> QED BY <1>2, <1>3, KeptAct, StepCases

LEMMA KeptInit == Init => KeptInv
BY ConstantsAssumption
   DEF Init, KeptInv, RunnableShim, isDropzoneWrapper, WrapPCs, DoctorPCs

\* A marked wrapper always leads to a whole rootfs, with one dz process that is
\* killed at any call and any number of times, or with several that install
\* different digests: removal takes the wrapper away first, an install writes
\* it last, and doctor --fix takes off only links that lead nowhere
\* (RemovePackage, InstallPackage, FixDoctor).
THEOREM RunnableShimCorrect ==
  ASSUME Orderly
  PROVE  Spec => []RunnableShim
<1>1. TypeOK /\ BuildInv /\ [Next]_vars => BuildInv'
  BY BuildStep
<1>2. CASE Solo
  <2>1. TypeOK /\ BuildInv /\ ShimInv /\ [Next]_vars => ShimInv'
    BY <1>2, ShimStep
  <2>2. ShimInv => RunnableShim
    BY DEF ShimInv
  <2> QED BY <1>1, <2>1, <2>2, BuildInit, ShimInit, TypeCorrect, PTL DEF Spec
<1>3. CASE "remove" \notin Commands
  <2>1. TypeOK /\ BuildInv /\ CurrentComplete /\ CurrentComplete' /\ KeptInv /\ [Next]_vars
          => KeptInv'
    BY <1>3, KeptStep
  <2>2. KeptInv => RunnableShim
    BY DEF KeptInv
  <2>3. Spec => []CurrentComplete
    BY <1>3, CurrentCompleteCorrect
  <2> QED BY <1>1, <2>1, <2>2, <2>3, BuildInit, KeptInit, TypeCorrect, PTL DEF Spec
<1> QED BY <1>2, <1>3 DEF Orderly, Apart

-------------------------------------------------------------------------------
\* doctor --fix

\* Where a step is taken from the last calls of a command.
LEMMA LateActs ==
  ASSUME NEW p \in Procs, Act(p)
  PROVE  /\ pc[p] \in WrapPCs =>
               CheckWrapper(p) \/ TruncateWrapper(p) \/ WriteWrapper(p) \/ Fault(p)
         /\ pc[p] = "fixLinks" => FixLinks(p) \/ Fault(p)
         /\ pc[p] = "wipe" => WipePackage(p) \/ Fault(p)
BY DEF Act, Start, StartInstall, ApplyUpdate, InstallPackage, StartRemove, Rollback, Doctor,
   Continue, MakeParent, CleanStale, MakeDigestDir, MoveRootfs, CopyRootfs, FinishCopy,
   StampMetadata, WriteMetadata, RemoveStaleTmp, SymlinkTmp, SwapCurrent, DropTmp,
   CheckWrapper, TruncateWrapper, WriteWrapper, ReadWrapper, UnlinkWrapper, WipePackage,
   ScanBin, FixWrappers, FixLinks, RenameFails, WrapPCs

\* A doctor --fix that returns has nothing left to take off.
LEMMA DoctorReturns ==
  ASSUME TypeOK, NEW p \in Procs, [Next]_vars,
         pc[p] = "fixLinks", pc'[p] = "idle", UNCHANGED faults
  PROVE  report[p].broken = {} /\ UNCHANGED <<pkgDir, dir, link, wrapper>>
<1>1. ASSUME NEW q \in Procs, Act(q)
      PROVE  report[p].broken = {} /\ UNCHANGED <<pkgDir, dir, link, wrapper>>
  <2>1. q = p
    BY <1>1, OthersStay
  <2>2. ~Fault(p)
    BY DEF Fault, TypeOK
  <2>3. FixLinks(p)
    BY <1>1, <2>1, <2>2, LateActs
  <2> QED BY <2>3 DEF FixLinks
<1>2. CASE UNCHANGED pc
  BY <1>2
<1> QED BY <1>1, <1>2, StepCases DEF UserFile, vars

LEMMA RepairsStep ==
  ASSUME TypeOK, [Next]_vars, RunnableShim,
         ASSUME NEW p \in Procs, pc[p] = "fixLinks", report[p].broken = {}
         PROVE  \A n \in pkgDir : link[n] # NoLink => dir[n][link[n]].made
  PROVE  [LeavesRepaired]_vars
<1> SUFFICES ASSUME NEW p \in Procs, pc[p] = "fixLinks", pc'[p] = "idle", faults' = faults,
                    NEW n \in Names
             PROVE  /\ n \in pkgDir' /\ link'[n] # NoLink => dir'[n][link'[n]].made
                    /\ isDropzoneWrapper(wrapper'[n]) => link'[n] # NoLink
  BY DEF LeavesRepaired
<1>1. report[p].broken = {} /\ UNCHANGED <<pkgDir, dir, link, wrapper>>
  BY DoctorReturns
<1> QED BY <1>1 DEF RunnableShim

\* When doctor --fix returns uncut, no current leads nowhere and no marked
\* wrapper is left without a link (FixDoctor).  Orderly leaves no broken link that
\* another could mend or make while the report is in memory: one process is alone
\* after any kills, and several neither remove nor fail.  An orphan may be stale;
\* of an orphan nothing is said but that it is gone.
THEOREM DoctorRepairsCorrect ==
  ASSUME Orderly
  PROVE  Spec => DoctorRepairs
<1>1. TypeOK /\ BuildInv /\ [Next]_vars => BuildInv'
  BY BuildStep
<1>2. CASE Solo
  <2>1. TypeOK /\ BuildInv /\ ShimInv /\ [Next]_vars => ShimInv'
    BY <1>2, ShimStep
  <2>2. TypeOK /\ ShimInv /\ [Next]_vars => [LeavesRepaired]_vars
    <3> SUFFICES ASSUME TypeOK, ShimInv, [Next]_vars PROVE [LeavesRepaired]_vars
      OBVIOUS
    <3>1. ASSUME NEW p \in Procs, pc[p] = "fixLinks", report[p].broken = {}
          PROVE  \A n \in pkgDir : link[n] # NoLink => dir[n][link[n]].made
      BY <3>1 DEF ShimInv, Reported, DoctorPCs, Dangling, Exists, TypeOK
    <3>2. RunnableShim
      BY DEF ShimInv
    <3> QED BY <3>1, <3>2, RepairsStep
  <2> QED BY <1>1, <2>1, <2>2, BuildInit, ShimInit, TypeCorrect, PTL DEF Spec, DoctorRepairs
<1>3. CASE "remove" \notin Commands
  <2>1. TypeOK /\ CurrentComplete /\ RunnableShim /\ [Next]_vars => [LeavesRepaired]_vars
    <3> SUFFICES ASSUME TypeOK, CurrentComplete, RunnableShim, [Next]_vars
                 PROVE  [LeavesRepaired]_vars
      OBVIOUS
    <3>1. ASSUME NEW p \in Procs, pc[p] = "fixLinks", report[p].broken = {}
          PROVE  \A n \in pkgDir : link[n] # NoLink => dir[n][link[n]].made
      BY <3>1 DEF CurrentComplete, Complete, Readable, Exists, TypeOK
    <3> QED BY <3>1, RepairsStep
  <2>2. Spec => []CurrentComplete
    BY <1>3, CurrentCompleteCorrect
  <2> QED BY <2>1, <2>2, RunnableShimCorrect, TypeCorrect, PTL DEF Spec, DoctorRepairs
<1> QED BY <1>2, <1>3 DEF Orderly, Apart

-------------------------------------------------------------------------------
\* The wrapper and the current version

\* A crash or a failed call is never forgotten.
LEMMA FaultsKept ==
  ASSUME TypeOK, [Next]_vars, faults' = 0
  PROVE  faults = 0 /\ \A p \in Procs : ~Fault(p) /\ ~RenameFails(p)
<1>1. \A p \in Procs : ~Fault(p) /\ ~RenameFails(p)
  BY DEF Fault, RenameFails, TypeOK
<1>2. ASSUME NEW p \in Procs, Start(p) PROVE UNCHANGED faults
  BY <1>2 DEF Start, StartInstall, ApplyUpdate, InstallPackage, StartRemove, Rollback, Doctor
<1>3. ASSUME NEW p \in Procs, Continue(p) PROVE UNCHANGED faults
  BY <1>3 DEF Continue, MakeParent, CleanStale, MakeDigestDir, MoveRootfs, CopyRootfs, FinishCopy,
     StampMetadata, WriteMetadata, RemoveStaleTmp, SymlinkTmp, SwapCurrent, DropTmp,
     CheckWrapper, TruncateWrapper, WriteWrapper, ReadWrapper, UnlinkWrapper, WipePackage,
     ScanBin, FixWrappers, FixLinks
<1>4. UNCHANGED faults
  BY <1>1, <1>2, <1>3, StepCases DEF Act, UserFile, vars
<1> QED BY <1>1, <1>4

LEMMA MatchAct ==
  ASSUME TypeOK, Solo, "rollback" \notin Commands, BuildInv, ShimInv, MatchInv, NEW p \in Procs, Act(p)
  PROVE  MatchInv'
<1> USE JobFields
<1> SUFFICES ASSUME faults' = 0, NEW n \in Names, wrapper'[n] \in Digests, link'[n] # NoLink
             PROVE  \/ wrapper'[n] = link'[n]
                    \/ pc'[p] \in WrapPCs /\ job'[p].name = n
  BY DEF MatchInv, Marked, isDropzoneWrapper
<1>1. faults = 0 /\ ~Fault(p) /\ ~RenameFails(p)
  BY FaultsKept DEF Next, Act
<1>2. CASE wrapper'[n] = wrapper[n] /\ link'[n] = link[n]
  <2>1. CASE wrapper[n] = link[n]
    BY <1>2, <2>1
  <2>2. CASE wrapper[n] # link[n]
    <3>1. pc[p] \in WrapPCs /\ job[p].name = n
      BY <1>1, <1>2, <2>2 DEF MatchInv, Marked, isDropzoneWrapper, Solo
    <3>2. CASE CheckWrapper(p)
      <4>1. Step(p, "wrapTruncate")
        BY <1>2, <3>1, <3>2 DEF CheckWrapper, isDropzoneWrapper
      <4> QED BY <3>1, <4>1, StepAt DEF WrapPCs
    <3>3. CASE TruncateWrapper(p)
      BY <3>1, <3>3, ConstantsAssumption DEF TruncateWrapper, TypeOK
    <3>4. CASE WriteWrapper(p)
      <4>1. wrapper'[n] = job[p].dig
        BY <1>2, <3>1, <3>4, ConstantsAssumption DEF WriteWrapper, TypeOK
      <4>2. link[n] = job[p].dig
        BY <3>1 DEF ShimInv, Launching
      <4> QED BY <1>2, <4>1, <4>2
    <3> QED BY <1>1, <3>1, <3>2, <3>3, <3>4, LateActs
  <2> QED BY <2>1, <2>2
<1>3. CASE SwapCurrent(p) /\ pc[p] = "rename" /\ n = job[p].name /\ tmp[n] # NoLink
  <2>1. job[p].cmd # "rollback"
    BY <1>3 DEF BuildInv, Owned, ActivatePCs
  <2>2. Step(p, "wrapCheck")
    BY <1>3, <2>1 DEF SwapCurrent
  <2> QED BY <1>3, <2>2, StepAt DEF WrapPCs
<1>4. CASE /\ pc[p] = "wrapWrite" /\ n = job[p].name /\ wrapper'[n] = job[p].dig
           /\ UNCHANGED <<dir, link>>
  BY <1>4 DEF ShimInv, Launching, WrapPCs
<1>5. \/ link'[n] = link[n]
      \/ SwapCurrent(p) /\ pc[p] = "rename" /\ n = job[p].name /\ tmp[n] # NoLink
  BY LinkWrites
<1>6. wrapper'[n] \notin {NoFile, EmptyFile}
  BY ConstantsAssumption
<1> QED BY <1>2, <1>3, <1>4, <1>5, <1>6, WrapperWrites

LEMMA MatchStep ==
  ASSUME TypeOK, Solo, "rollback" \notin Commands, BuildInv, ShimInv, MatchInv, [Next]_vars
  PROVE  MatchInv'
<1>1. ASSUME UNCHANGED <<link, pc, job, faults>>,
             \A n \in Names : wrapper'[n] \in Digests => wrapper'[n] = wrapper[n]
      PROVE  MatchInv'
  BY <1>1 DEF MatchInv, Marked, isDropzoneWrapper
<1>2. ASSUME NEW n \in Names, UserFile(n) PROVE MatchInv'
  <2>1. \A m \in Names : wrapper'[m] \in Digests => wrapper'[m] = wrapper[m]
    BY <1>2, ConstantsAssumption DEF UserFile, TypeOK
  <2> QED BY <1>1, <1>2, <2>1 DEF UserFile
<1>3. CASE UNCHANGED vars
  BY <1>1, <1>3 DEF vars
<1> QED BY <1>2, <1>3, MatchAct, StepCases

LEMMA MatchInit == Init => MatchInv
BY ConstantsAssumption DEF Init, MatchInv, Marked, isDropzoneWrapper

\* With one dz process, no call that fails and no rollback (which leaves the
\* wrapper as it is), a command under bin/ launches the version that is current
\* whenever none is running: InstallWrapper writes what Build baked in for the
\* digest SetCurrent has just flipped to.
THEOREM WrapperMatchesCurrentCorrect ==
  ASSUME Orderly, Solo, "rollback" \notin Commands
  PROVE  Spec => []WrapperMatchesCurrent
<1>1. TypeOK /\ BuildInv /\ [Next]_vars => BuildInv'
  BY BuildStep
<1>2. TypeOK /\ BuildInv /\ ShimInv /\ [Next]_vars => ShimInv'
  BY ShimStep
<1>3. TypeOK /\ BuildInv /\ ShimInv /\ MatchInv /\ [Next]_vars => MatchInv'
  BY MatchStep
<1>4. MatchInv => WrapperMatchesCurrent
  BY DEF MatchInv, WrapperMatchesCurrent, Quiescent, Marked, WrapPCs
<1> QED BY <1>1, <1>2, <1>3, <1>4, BuildInit, ShimInit, MatchInit, TypeCorrect, PTL DEF Spec

-------------------------------------------------------------------------------
\* The store implements PackageLifecycle

\* One deletion never makes a directory whole.
LEMMA WipeLoses ==
  ASSUME TypeOK, NEW n \in Names, NEW d \in Digests, Wipe(n, d),
         NEW m \in Names, NEW e \in Digests, Complete(m, e)'
  PROVE  Complete(m, e)
<1>1. Complete(m, e)' <=> /\ dir'[m][e].made /\ dir'[m][e].meta.state = "ok"
                          /\ dir'[m][e].rootfs = "full"
  BY DEF Complete, Readable, Exists
<1>2. CASE m = n /\ e = d
  <2> DEFINE x == dir[n][d]
  <2>1. x \in [made: BOOLEAN, rootfs: Rootfs, meta: Metadata]
    BY DirFields DEF DigestDir
  <2>2. \/ dir'[n][d] = [x EXCEPT !.rootfs = "partial"]
        \/ dir'[n][d] = [x EXCEPT !.rootfs = "none"]
        \/ dir'[n][d] = [x EXCEPT !.meta = NoMeta]
        \/ dir'[n][d] = NoDir
    <3>1. \/ dir' = [dir EXCEPT ![n][d] = [x EXCEPT !.rootfs = "partial"]]
          \/ dir' = [dir EXCEPT ![n][d] = [x EXCEPT !.rootfs = "none"]]
          \/ dir' = [dir EXCEPT ![n][d] = [x EXCEPT !.meta = NoMeta]]
          \/ dir' = [dir EXCEPT ![n][d] = NoDir]
      BY DEF Wipe
    <3>2. ASSUME NEW y, dir' = [dir EXCEPT ![n][d] = y] PROVE dir'[n][d] = y
      BY <3>2 DEF TypeOK
    <3> HIDE DEF x
    <3> QED BY <3>1, <3>2
  <2>3. /\ [x EXCEPT !.rootfs = "partial"].rootfs = "partial"
        /\ [x EXCEPT !.rootfs = "none"].rootfs = "none"
        /\ [x EXCEPT !.meta = NoMeta].meta.state = "none"
        /\ NoDir.rootfs = "none"
    BY <2>1 DEF NoMeta, NoDir
  <2> HIDE DEF x
  <2> QED BY <1>1, <1>2, <2>2, <2>3
<1>3. CASE ~(m = n /\ e = d)
  <2>1. dir'[m][e] = dir[m][e]
    BY <1>3 DEF Wipe, TypeOK
  <2> QED BY <1>1, <2>1 DEF Complete, Readable, Exists
<1> QED BY <1>2, <1>3

\* The active version of one name.
Version(n) == IF link[n] # NoLink /\ Complete(n, link[n]) THEN link[n] ELSE NoLink

LEMMA ActiveVersion ==
  /\ activeVersion = [m \in Names |-> activeVersion[m]]
  /\ activeVersion' = [m \in Names |-> activeVersion'[m]]
  /\ \A m \in Names : activeVersion[m] = Version(m)
BY DEF activeVersion, Version

LEMMA NextVersion == ASSUME NEW m \in Names PROVE activeVersion'[m] = Version(m)'
BY DEF activeVersion, Version

\* What a step does to the active version of a name.
LEMMA VersionStep ==
  ASSUME TypeOK, BuildInv, ShimInv, NEW p \in Procs, Act(p), NEW n \in Names
  PROVE  \/ Version(n)' = Version(n)
         \/ /\ SwapCurrent(p) /\ pc[p] = "rename" /\ n = job[p].name
            /\ tmp[n] # NoLink /\ Version(n)' = tmp[n]
         \/ WipePackage(p) /\ pc[p] = "wipe" /\ n = job[p].name /\ Version(n)' = NoLink
<1>1. ASSUME link'[n] = link[n], dir'[n][link[n]] = dir[n][link[n]]
      PROVE  Version(n)' = Version(n)
  BY <1>1 DEF Version, Complete, Readable, Exists
<1>2. CASE link'[n] = link[n] /\ link[n] = NoLink
  BY <1>2 DEF Version
<1>3. CASE pc[p] = "wipe" /\ n = job[p].name
  <2>1. WipePackage(p) \/ UNCHANGED <<dir, link>>
    BY <1>3, LateActs DEF Fault, store
  <2>2. CASE WipePackage(p)
    <3>1. link'[n] \in {link[n], NoLink}
      BY <1>3, <2>2 DEF WipePackage, TypeOK
    <3>2. CASE link'[n] = NoLink
      BY <1>3, <2>2, <3>2 DEF Version
    <3>3. CASE link'[n] = link[n] /\ link[n] # NoLink
      <4>1. link[n] \in Digests
        BY <3>3 DEF TypeOK
      <4>2. Complete(n, link[n])' => Complete(n, link[n])
        <5>1. CASE UNCHANGED dir
          BY <3>3, <5>1 DEF Complete, Readable, Exists
        <5>2. CASE \E e \in Digests : Wipe(n, e)
          <6>1. \A e \in Digests : (link'[n] = e /\ Complete(n, e)') => Complete(n, e)
            BY <5>2, WipeLoses
          <6> QED BY <3>3, <4>1, <6>1
        <5> QED BY <1>3, <2>2, <5>1, <5>2 DEF WipePackage, Entries
      <4> QED BY <1>3, <2>2, <3>3, <4>2 DEF Version
    <3> QED BY <3>1, <3>2, <3>3
  <2> QED BY <1>1, <2>1, <2>2
<1>4. CASE link'[n] = link[n] /\ link[n] # NoLink /\ ~(pc[p] = "wipe" /\ n = job[p].name)
  BY <1>1, <1>4, ActiveWrites
<1>5. CASE /\ SwapCurrent(p) /\ pc[p] = "rename" /\ n = job[p].name
           /\ tmp[n] # NoLink /\ link'[n] = tmp[n] /\ UNCHANGED dir
  <2>1. Complete(n, tmp[n])
    BY <1>5, SwappedIn
  <2>2. Version(n)' = tmp[n]
    BY <1>5, <2>1 DEF Version, Complete, Readable, Exists
  <2> QED BY <1>5, <2>2
<1>6. CASE link'[n] = NoLink /\ pc[p] = "fixLinks" /\ n \in report[p].broken
  <2>1. link[n] = NoLink \/ Dangling(n)
    BY <1>6 DEF ShimInv, Reported, DoctorPCs
  <2>2. Version(n) = NoLink
    BY <2>1 DEF Version, Dangling, Complete, Readable
  <2> QED BY <1>6, <2>2 DEF Version
<1> QED BY <1>2, <1>3, <1>4, <1>5, <1>6, LinkWrites

\* What a step of one process is to the abstract store.
LEMMA LifecycleAct ==
  ASSUME TypeOK, Solo, BuildInv, ShimInv, TrustInv, NEW p \in Procs, Act(p)
  PROVE  Lifecycle!Next \/ UNCHANGED <<activeVersion, underRemoval>>
<1> USE JobFields
<1> DEFINE n == job[p].name
<1>1. /\ underRemoval = IF pc[p] = "wipe" THEN {n} ELSE {}
      /\ underRemoval' = IF pc'[p] = "wipe" THEN {job'[p].name} ELSE {}
  BY DEF underRemoval, Solo
<1>0. ASSUME NEW m \in Names
      PROVE  \/ activeVersion'[m] = activeVersion[m]
             \/ /\ SwapCurrent(p) /\ pc[p] = "rename" /\ m = n
                /\ tmp[n] # NoLink /\ activeVersion'[n] = tmp[n]
             \/ WipePackage(p) /\ pc[p] = "wipe" /\ m = n /\ activeVersion'[n] = NoLink
  BY VersionStep, ActiveVersion, NextVersion
<1>2. CASE pc[p] # "wipe" /\ pc'[p] # "wipe"
  <2>1. underRemoval = {} /\ UNCHANGED underRemoval
    BY <1>1, <1>2
  <2>2. CASE activeVersion'[n] = activeVersion[n]
    <3>1. \A m \in Names : activeVersion'[m] = activeVersion[m]
      BY <1>0, <1>2, <2>2
    <3> QED BY <2>1, <3>1, ActiveVersion
  <2>3. CASE tmp[n] # NoLink /\ activeVersion'[n] = tmp[n] /\ activeVersion[n] # tmp[n]
    <3>1. tmp[n] \in Digests /\ Admissible(tmp[n])
      BY <2>3 DEF TrustInv, TmpTrusted, TypeOK
    <3>2. \A m \in Names \ {n} : activeVersion'[m] = activeVersion[m]
      BY <1>0
    <3>3. activeVersion' = [activeVersion EXCEPT ![n] = tmp[n]]
      BY <2>3, <3>2, ActiveVersion
    <3>4. Lifecycle!Publish(n, tmp[n])
      BY <2>1, <2>3, <3>1, <3>3 DEF Lifecycle!Publish
    <3> QED BY <3>1, <3>4 DEF Lifecycle!Next
  <2> QED BY <1>0, <1>2, <2>2, <2>3
<1>3. CASE pc[p] # "wipe" /\ pc'[p] = "wipe"
  <2>1. job' = job /\ ~SwapCurrent(p)
    <3>1. ReadWrapper(p) \/ UnlinkWrapper(p)
      BY <1>3, Arrivals DEF WipePackage
    <3>2. pc[p] # "rename"
      BY <3>1 DEF ReadWrapper, UnlinkWrapper
    <3> QED BY <1>3, <3>2, Arrivals DEF SwapCurrent
  <2>2. UNCHANGED activeVersion
    <3>1. \A m \in Names : activeVersion'[m] = activeVersion[m]
      BY <1>0, <1>3, <2>1
    <3> QED BY <3>1, ActiveVersion
  <2>3. Lifecycle!BeginRemove(n)
    BY <1>1, <1>3, <2>1, <2>2 DEF Lifecycle!BeginRemove
  <2> QED BY <2>3 DEF Lifecycle!Next
<1>4. CASE pc[p] = "wipe" /\ pc'[p] = "wipe"
  <2>1. UNCHANGED underRemoval /\ n \in underRemoval
    BY <1>1, <1>4, Arrivals
  <2>2. \A m \in Names \ {n} : activeVersion'[m] = activeVersion[m]
    BY <1>0
  <2>3. CASE activeVersion'[n] = activeVersion[n]
    <3>1. \A m \in Names : activeVersion'[m] = activeVersion[m]
      BY <2>2, <2>3
    <3> QED BY <2>1, <3>1, ActiveVersion
  <2>4. CASE activeVersion'[n] = NoLink /\ activeVersion[n] # NoLink
    <3>1. activeVersion' = [activeVersion EXCEPT ![n] = NoLink]
      BY <2>2, <2>4, ActiveVersion
    <3>2. Lifecycle!Withdraw(n)
      BY <2>1, <2>4, <3>1 DEF Lifecycle!Withdraw
    <3> QED BY <3>2 DEF Lifecycle!Next
  <2> QED BY <1>0, <1>4, <2>3, <2>4
<1>5. CASE pc[p] = "wipe" /\ pc'[p] # "wipe"
  <2>1. UNCHANGED <<dir, link>>
    <3>1. WipePackage(p) \/ Fault(p)
      BY <1>5, LateActs
    <3> QED BY <1>5, <3>1 DEF WipePackage, Fault, store
  <2>2. UNCHANGED activeVersion
    BY <2>1 DEF activeVersion, Complete, Readable, Exists
  <2>3. Lifecycle!EndRemove(n)
    BY <1>1, <1>5, <2>2 DEF Lifecycle!EndRemove
  <2> QED BY <2>3 DEF Lifecycle!Next
<1> QED BY <1>2, <1>3, <1>4, <1>5

LEMMA LifecycleStep ==
  ASSUME TypeOK, Solo, BuildInv, ShimInv, TrustInv, [Next]_vars
  PROVE  [Lifecycle!Next]_(Lifecycle!vars)
<1>1. ASSUME UNCHANGED <<dir, link, pc, job>>
      PROVE  UNCHANGED <<activeVersion, underRemoval>>
  BY <1>1 DEF activeVersion, underRemoval, Complete, Readable, Exists
<1> QED BY <1>1, LifecycleAct, StepCases DEF UserFile, vars, Lifecycle!vars

LEMMA LifecycleInit == Init => Lifecycle!Init
BY DEF Init, Lifecycle!Init, activeVersion, underRemoval

\* Where nothing is removed, a version changes only as current is swapped.
LEMMA KeptVersion ==
  ASSUME TypeOK, "remove" \notin Commands, BuildInv, KeptInv, NEW p \in Procs, Act(p),
         NEW n \in Names
  PROVE  \/ Version(n)' = Version(n)
         \/ n = job[p].name /\ tmp[n] # NoLink /\ Version(n)' = tmp[n]
<1>1. pc[p] # "wipe" /\ ~(pc[p] = "fixLinks" /\ n \in report[p].broken)
  BY DEF BuildInv, Owned, RemovePCs, KeptInv, DoctorPCs
<1>2. CASE link'[n] = link[n] /\ link[n] = NoLink
  BY <1>2 DEF Version
<1>3. CASE link'[n] = link[n] /\ link[n] # NoLink
  <2>1. dir'[n][link[n]] = dir[n][link[n]]
    BY <1>1, <1>3, ActiveWrites
  <2> QED BY <1>3, <2>1 DEF Version, Complete, Readable, Exists
<1>4. CASE /\ pc[p] = "rename" /\ n = job[p].name
           /\ tmp[n] # NoLink /\ link'[n] = tmp[n] /\ UNCHANGED dir
  <2>1. Complete(n, tmp[n])
    BY <1>4, SwappedIn
  <2>2. Version(n)' = tmp[n]
    BY <1>4, <2>1 DEF Version, Complete, Readable, Exists
  <2> QED BY <1>4, <2>2
<1> QED BY <1>1, <1>2, <1>3, <1>4, LinkWrites

LEMMA KeptLifecycleStep ==
  ASSUME TypeOK, "remove" \notin Commands, BuildInv, BuildInv', KeptInv, TrustInv, [Next]_vars
  PROVE  [Lifecycle!Next]_(Lifecycle!vars)
<1>1. underRemoval = {} /\ UNCHANGED underRemoval
  BY DEF underRemoval, BuildInv, Owned, RemovePCs
<1>2. ASSUME UNCHANGED <<dir, link>> PROVE UNCHANGED activeVersion
  BY <1>2 DEF activeVersion, Complete, Readable, Exists
<1>3. ASSUME NEW p \in Procs, Act(p) PROVE [Lifecycle!Next]_(Lifecycle!vars)
  <2> DEFINE n == job[p].name
  <2>1. n \in Names
    BY JobFields
  <2>2. ASSUME NEW m \in Names
        PROVE  \/ activeVersion'[m] = activeVersion[m]
               \/ m = n /\ tmp[n] # NoLink /\ activeVersion'[n] = tmp[n]
    BY <1>3, KeptVersion, ActiveVersion, NextVersion
  <2>3. CASE activeVersion'[n] = activeVersion[n]
    <3>1. \A m \in Names : activeVersion'[m] = activeVersion[m]
      BY <2>2, <2>3
    <3> QED BY <1>1, <3>1, ActiveVersion DEF Lifecycle!vars
  <2>4. CASE activeVersion'[n] # activeVersion[n]
    <3>1. tmp[n] # NoLink /\ activeVersion'[n] = tmp[n]
      BY <2>1, <2>2, <2>4
    <3>2. tmp[n] \in Digests /\ Admissible(tmp[n])
      BY <2>1, <3>1 DEF TrustInv, TmpTrusted, TypeOK
    <3>3. \A m \in Names \ {n} : activeVersion'[m] = activeVersion[m]
      BY <2>2
    <3>4. activeVersion' = [activeVersion EXCEPT ![n] = tmp[n]]
      BY <2>1, <3>1, <3>3, ActiveVersion
    <3>5. Lifecycle!Publish(n, tmp[n])
      BY <1>1, <2>4, <3>1, <3>2, <3>4 DEF Lifecycle!Publish
    <3> QED BY <2>1, <3>2, <3>5 DEF Lifecycle!Next
  <2> QED BY <2>3, <2>4
<1> QED BY <1>1, <1>2, <1>3, StepCases DEF UserFile, vars, Lifecycle!vars

\* A user sees only what PackageLifecycle allows, with one dz process that is
\* killed anywhere or with several that install different digests: the active
\* version is replaced in one step by one that passed verification, is never
\* half there, and goes away only by a removal.
THEOREM ImplementsLifecycleCorrect ==
  ASSUME Orderly
  PROVE  Spec => ImplementsLifecycle
<1>1. TypeOK /\ BuildInv /\ [Next]_vars => BuildInv'
  BY BuildStep
<1>2. CASE Solo
  <2>1. TypeOK /\ BuildInv /\ ShimInv /\ [Next]_vars => ShimInv'
    BY <1>2, ShimStep
  <2>2. TypeOK /\ BuildInv /\ ShimInv /\ TrustInv /\ [Next]_vars =>
          [Lifecycle!Next]_(Lifecycle!vars)
    BY <1>2, LifecycleStep
  <2> QED BY <1>1, <2>1, <2>2, BuildInit, ShimInit, LifecycleInit, TypeCorrect, TrustCorrect, PTL
          DEF Spec, ImplementsLifecycle, Lifecycle!Spec
<1>3. CASE "remove" \notin Commands
  <2>1. TypeOK /\ BuildInv /\ CurrentComplete /\ CurrentComplete' /\ KeptInv /\ [Next]_vars
          => KeptInv'
    BY <1>3, KeptStep
  <2>2. TypeOK /\ BuildInv /\ BuildInv' /\ KeptInv /\ TrustInv /\ [Next]_vars =>
          [Lifecycle!Next]_(Lifecycle!vars)
    BY <1>3, KeptLifecycleStep
  <2>3. Spec => []CurrentComplete
    BY <1>3, CurrentCompleteCorrect
  <2> QED BY <1>1, <2>1, <2>2, <2>3, BuildInit, KeptInit, LifecycleInit, TypeCorrect,
             TrustCorrect, PTL
          DEF Spec, ImplementsLifecycle, Lifecycle!Spec
<1> QED BY <1>2, <1>3 DEF Orderly, Apart
===============================================================================
