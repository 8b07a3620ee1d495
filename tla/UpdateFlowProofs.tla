---------------------------- MODULE UpdateFlowProofs ----------------------------
(***************************************************************************)
(* What a check announces and what an apply installs, for any number of     *)
(* processes, packages, registries and tags, and however upstream and other *)
(* commands move in between.                                                *)
(***************************************************************************)
EXTENDS UpdateFlow, WellFoundedInduction, TLAPS

-------------------------------------------------------------------------------
\* Two hypotheses on the registries.  What happens without them is for the
\* runs to show: update_index refutes the documentation with an index.

\* A host-shaped registry name in the configuration is the name of its host:
\* checkOne looks in the configuration first, Resolve at the host.
NamesAgree == \A r \in Configured \cap HostShaped : ConfigUrl[r] = OwnHost[r]

\* Registries serve images, no indexes: Digest and Pull see the same digest.
PlainImages == \A m \in Manifests : HostImage[m] \in {m, NoMatch}

-------------------------------------------------------------------------------
\* The inductive invariants

InfosFunction == infos = [p \in Procs |-> infos[p]]

\* A process has only packages of its scan to do.
TodoListed == \A p \in Procs : todo[p] \subseteq DOMAIN infos[p]

TypeInv == TypeOK /\ InfosFunction /\ TodoListed

Looked(u) == u.unreachable \/ u.current # Absent

\* What the scan has behind it is looked up or reported.
Scanned(p) ==
    /\ pc[p] \in {"digest", "tags"} =>
          \A n \in DOMAIN infos[p] : n \in todo[p] \/ Looked(infos[p][n])
    /\ pc[p] \in {"prompt", "apply", "pull", "activate"} =>
          \A n \in DOMAIN infos[p] : Looked(infos[p][n])

ScanInv == \A p \in Procs : Scanned(p)

\* What a package of the scan is announced to move to comes after its tag.
NewerSound(u) == u.newer \subseteq newerTagsThan(u.meta.tag, Tags)

\* The apply works on what the check announced.
Announced(p, n) == n \in DOMAIN infos[p] /\ HasUpdate(infos[p][n])

JobSound(p) ==
    /\ \A n \in DOMAIN infos[p] : NewerSound(infos[p][n])
    /\ pc[p] \in {"apply", "pull", "activate"} => \A n \in todo[p] : Announced(p, n)
    /\ pc[p] \in {"pull", "activate"} =>
          /\ Announced(p, job[p].name)
          /\ job[p].tag = targetTag(infos[p][job[p].name])

JobInv == \A p \in Procs : JobSound(p)

\* Images come from where Resolve sends their registry.
SourceInv ==
    /\ \A n \in Installed : installed[n].from \in InstallHosts(installed[n].reg)
    /\ \A p \in Procs : pc[p] = "activate" => job[p].from \in InstallHosts(job[p].reg)

-------------------------------------------------------------------------------
\* Tags and registries

\* Of the tags a scan has found one is the last.
LEMMA MaxOf ==
  ASSUME NEW S \in SUBSET Tags, S # {}
  PROVE  Max(S) \in S /\ \A s \in S : s <= Max(S)
<1> DEFINE Less == OpToRel(<, Nat)
           Gaps == {LastTag - s : s \in S}
<1>1. S \subseteq Nat /\ LastTag \in Nat /\ \A s \in S : s <= LastTag
  BY UpdateAssumption
<1>2. Gaps \subseteq Nat /\ Gaps # {}
  <2>1. \A s \in S : LastTag - s \in Nat
    BY <1>1
  <2> QED BY <2>1
<1>3. PICK g \in Gaps : \A y \in Gaps : ~(<<y, g>> \in Less)
  <2> HIDE DEF Less, Gaps
  <2> QED BY <1>2, NatLessThanWellFounded, WFMin DEF Less
<1>4. \A y \in Gaps : ~(y < g)
  BY <1>2, <1>3 DEF OpToRel
<1>5. PICK t \in S : g = LastTag - t
  OBVIOUS
<1>6. \A s \in S : s <= t
  <2> SUFFICES ASSUME NEW s \in S PROVE s <= t
    OBVIOUS
  <2>1. ~(LastTag - s < LastTag - t)
    BY <1>4, <1>5
  <2> HIDE DEF Less, Gaps
  <2> QED BY <2>1, <1>1, SMT
<1> QED BY <1>6 DEF Max

\* The job of no install is typed like any other.
LEMMA NoJobType ==
  NoJob \in [name: Names, reg: RegNames, tag: Tags, dig: Manifests, from: Hosts]
<1>1. (CHOOSE n \in Names : TRUE) \in Names
  BY UpdateAssumption
<1> QED BY <1>1, UpdateAssumption DEF NoJob, RegNames

LEMMA HostsType ==
  ASSUME NEW r \in RegNames
  PROVE  InstallHosts(r) \subseteq Hosts /\ CheckHosts(r) \subseteq Hosts
BY UpdateAssumption DEF InstallHosts, CheckHosts, RegNames

\* What is asked for an update is where the image would be installed from.
LEMMA SameHosts ==
  ASSUME NamesAgree, NEW r \in RegNames
  PROVE  CheckHosts(r) = InstallHosts(r) /\ \E h \in Hosts : InstallHosts(r) = {h}
BY UpdateAssumption DEF NamesAgree, InstallHosts, CheckHosts, RegNames

LEMMA ResolvedType ==
  ASSUME NEW ref \in ResolvedRefs
  PROVE  /\ ref = <<ref[1], ref[2]>> /\ ref[1] \in RegNames /\ ref[2] \in Hosts
         /\ NamesAgree => ref[2] \in InstallHosts(ref[1])
<1>1. CASE ref = <<Default, ConfigUrl[Default]>>
  BY <1>1, UpdateAssumption DEF RegNames, InstallHosts, NamesAgree
<1>2. CASE \E r \in RegNames : ref \in {r} \X InstallHosts(r)
  BY <1>2, HostsType
<1> QED BY <1>1, <1>2 DEF ResolvedRefs

\* What newerTagsThan returns comes after the tag it is given, and a tag list
\* has no more of it than all tags together.
LEMMA NewerTags ==
  ASSUME NEW t \in Tags, NEW T \in SUBSET Tags
  PROVE  /\ newerTagsThan(t, T) \subseteq T
         /\ newerTagsThan(t, T) \subseteq newerTagsThan(t, Tags)
BY DEF newerTagsThan

\* The tag an update is applied with.
LEMMA TargetType ==
  ASSUME NEW u \in UpdateInfo
  PROVE  targetTag(u) \in Tags
BY MaxOf DEF targetTag, UpdateInfo, PackageMetadata

-------------------------------------------------------------------------------
\* Types

Job == [name: Names, reg: RegNames, tag: Tags, dig: Manifests, from: Hosts]
Labels == {"idle", "digest", "tags", "prompt", "apply", "pull", "activate"}

InfosType ==
    /\ InfosFunction
    /\ \A p \in Procs : /\ DOMAIN infos[p] \subseteq Names
                        /\ infos[p] \in [DOMAIN infos[p] -> UpdateInfo]

CommandType ==
    /\ pc \in [Procs -> Labels] /\ todo \in [Procs -> SUBSET Names]
    /\ InfosType /\ job \in [Procs -> Job] /\ TodoListed

WorldType ==
    /\ served \in [Hosts -> [Names -> [Tags -> Manifests \cup {Absent}]]]
    /\ online \subseteq Hosts
    /\ installed \in [Names -> PackageMetadata \cup {Absent}]
    /\ pushes \in 0..MaxPushes

LEMMA TypeParts == TypeInv <=> WorldType /\ CommandType
BY DEF TypeInv, TypeOK, WorldType, CommandType, InfosType, Labels, Job

LEMMA NoInfosType == DOMAIN NoInfos = {} /\ NoInfos \in [DOMAIN NoInfos -> UpdateInfo]
BY DEF NoInfos

\* The infos of one process replaced by typed ones.
LEMMA InfosStep ==
  ASSUME InfosType, NEW p \in Procs, NEW f, infos' = [infos EXCEPT ![p] = f],
         DOMAIN f \subseteq Names, f \in [DOMAIN f -> UpdateInfo]
  PROVE  InfosType' /\ infos'[p] = f /\ \A q \in Procs \ {p} : infos'[q] = infos[q]
<1>1. /\ infos' = [q \in Procs |-> IF q = p THEN f ELSE infos[q]]
      /\ infos'[p] = f /\ \A q \in Procs \ {p} : infos'[q] = infos[q]
  BY DEF InfosType, InfosFunction
<1>2. InfosFunction'
  BY <1>1 DEF InfosFunction
<1> QED BY <1>1, <1>2 DEF InfosType

\* One field of the info of one package of the scan filled in.
LEMMA InfoFieldStep ==
  ASSUME InfosType, NEW p \in Procs, NEW n \in DOMAIN infos[p], NEW u \in UpdateInfo,
         infos' = [infos EXCEPT ![p] = [infos[p] EXCEPT ![n] = u]]
  PROVE  /\ InfosType'
         /\ DOMAIN infos'[p] = DOMAIN infos[p] /\ infos'[p][n] = u
         /\ \A k \in DOMAIN infos[p] \ {n} : infos'[p][k] = infos[p][k]
         /\ \A q \in Procs \ {p} : infos'[q] = infos[q]
<1> DEFINE f == [infos[p] EXCEPT ![n] = u]
<1>1. /\ DOMAIN f = DOMAIN infos[p] /\ f[n] = u
      /\ \A k \in DOMAIN infos[p] \ {n} : f[k] = infos[p][k]
  BY DEF InfosType
<1>2. DOMAIN f \subseteq Names /\ f \in [DOMAIN f -> UpdateInfo]
  BY DEF InfosType
<1>3. infos' = [infos EXCEPT ![p] = f]
  OBVIOUS
<1> HIDE DEF f
<1> QED BY <1>1, <1>2, <1>3, InfosStep

LEMMA ReturnType ==
  ASSUME CommandType, NEW p \in Procs, Return(p)
  PROVE  CommandType'
<1>1. InfosType'
  BY InfosStep, NoInfosType DEF CommandType, Return
<1>2. job' \in [Procs -> Job]
  BY NoJobType DEF CommandType, Return, Job
<1>3. pc' \in [Procs -> Labels] /\ todo' \in [Procs -> SUBSET Names]
  BY DEF CommandType, Return, Goto, Labels
<1>4. TodoListed'
  <2>1. \A q \in Procs \ {p} : todo'[q] = todo[q] /\ infos'[q] = infos[q]
    BY InfosStep, NoInfosType DEF CommandType, Return
  <2>2. todo'[p] = {}
    BY DEF CommandType, Return
  <2> QED BY <2>1, <2>2 DEF CommandType, TodoListed
<1> QED BY <1>1, <1>2, <1>3, <1>4 DEF CommandType

LEMMA NextApplyType ==
  ASSUME CommandType, NEW p \in Procs, NEW n \in Names, NextApply(p, n)
  PROVE  CommandType'
<1>1. CASE todo[p] = {n}
  BY <1>1, ReturnType DEF NextApply
<1>2. CASE todo[p] # {n}
  <2>1. /\ Goto(p, "apply") /\ todo' = [todo EXCEPT ![p] = @ \ {n}]
        /\ infos' = infos /\ job' = job
    BY <1>2 DEF NextApply
  <2>2. InfosType'
    BY <2>1 DEF CommandType, InfosType, InfosFunction
  <2>3. TodoListed'
    BY <2>1 DEF CommandType, TodoListed
  <2> QED BY <2>1, <2>2, <2>3 DEF CommandType, Goto, Labels
<1> QED BY <1>1, <1>2

LEMMA InitType == Init => TypeInv
<1> SUFFICES ASSUME Init PROVE TypeInv
  OBVIOUS
<1>1. WorldType
  BY UpdateAssumption DEF Init, WorldType
<1>2. job \in [Procs -> Job]
  BY NoJobType DEF Init, Job
<1>3. InfosType
  BY NoInfosType DEF Init, InfosType, InfosFunction
<1>4. TodoListed
  BY DEF Init, TodoListed
<1>5. pc \in [Procs -> Labels] /\ todo \in [Procs -> SUBSET Names]
  BY DEF Init, Labels
<1> QED BY <1>1, <1>2, <1>3, <1>4, <1>5, TypeParts DEF CommandType

LEMMA BeginCheckType ==
  ASSUME TypeInv, NEW p \in Procs, NEW S \in SUBSET Installed, BeginCheck(p, S)
  PROVE  CommandType'
<1> DEFINE f == [n \in S |-> InfoOf(installed[n])]
<1>1. CommandType /\ WorldType
  BY TypeParts
<1>2. \A n \in S : InfoOf(installed[n]) \in UpdateInfo
  BY <1>1 DEF WorldType, Installed, InfoOf, UpdateInfo
<1>3. DOMAIN f \subseteq Names /\ f \in [DOMAIN f -> UpdateInfo] /\ DOMAIN f = S
  BY <1>2 DEF Installed
<1>4. infos' = [infos EXCEPT ![p] = f]
  BY DEF BeginCheck
<1> HIDE DEF f
<1>5. InfosType' /\ infos'[p] = f /\ \A q \in Procs \ {p} : infos'[q] = infos[q]
  BY <1>1, <1>3, <1>4, InfosStep DEF CommandType
<1>6. /\ todo'[p] = S /\ \A q \in Procs \ {p} : todo'[q] = todo[q]
      /\ pc' \in [Procs -> Labels] /\ todo' \in [Procs -> SUBSET Names] /\ job' = job
  BY <1>1 DEF CommandType, BeginCheck, Goto, Labels, Installed
<1>7. TodoListed'
  BY <1>1, <1>3, <1>5, <1>6 DEF TodoListed, CommandType
<1> QED BY <1>1, <1>5, <1>6, <1>7 DEF CommandType

\* What checkOne has found out about n.
Found(u, c) == [u EXCEPT !.current = c]
Newer(u, T) == [u EXCEPT !.newer = T]
Unreached(u) == [u EXCEPT !.unreachable = TRUE]

Noted(p, n, u) == infos' = [infos EXCEPT ![p] = [infos[p] EXCEPT ![n] = u]]

LEMMA InfoFields ==
  ASSUME NEW u \in UpdateInfo, NEW c \in Manifests, NEW T \in SUBSET Tags
  PROVE  Found(u, c) \in UpdateInfo /\ Newer(u, T) \in UpdateInfo /\ Unreached(u) \in UpdateInfo
BY DEF UpdateInfo, Found, Newer, Unreached

\* checkOne's two halves, as what they note of the package they are about.
LEMMA LookupDigestNotes ==
  ASSUME TypeInv, NEW p \in Procs, LookupDigest(p)
  PROVE  /\ pc[p] = "digest" /\ UNCHANGED <<upstream, installed, job>>
         /\ \E n \in todo[p] :
              \/ /\ \E c \in Manifests : Noted(p, n, Found(infos[p][n], c))
                 /\ Goto(p, "tags") /\ UNCHANGED todo
              \/ Noted(p, n, Unreached(infos[p][n])) /\ NextCheck(p, n)
<1>1. CommandType /\ WorldType
  BY TypeParts
<1>2. PICK n \in todo[p] :
         \/ \E h \in CheckHosts(infos[p][n].meta.reg) :
              /\ served[h][n][infos[p][n].meta.tag] # Absent
              /\ infos' = [infos EXCEPT ![p][n].current =
                              served[h][n][infos[p][n].meta.tag]]
              /\ Goto(p, "tags") /\ UNCHANGED todo
         \/ /\ infos' = [infos EXCEPT ![p][n].unreachable = TRUE]
            /\ NextCheck(p, n)
  BY DEF LookupDigest
<1>3. n \in Names /\ infos[p][n] \in UpdateInfo
  BY <1>1 DEF CommandType, InfosType, TodoListed
<1>4. ASSUME NEW h \in CheckHosts(infos[p][n].meta.reg),
             served[h][n][infos[p][n].meta.tag] # Absent
      PROVE  served[h][n][infos[p][n].meta.tag] \in Manifests
  <2>1. infos[p][n].meta.reg \in RegNames /\ infos[p][n].meta.tag \in Tags
    BY <1>3 DEF UpdateInfo, PackageMetadata
  <2>2. h \in Hosts
    BY <2>1, HostsType
  <2> QED BY <1>1, <1>3, <1>4, <2>1, <2>2 DEF WorldType
<1>5. CASE \E h \in CheckHosts(infos[p][n].meta.reg) :
              /\ served[h][n][infos[p][n].meta.tag] # Absent
              /\ infos' = [infos EXCEPT ![p][n].current =
                              served[h][n][infos[p][n].meta.tag]]
              /\ Goto(p, "tags") /\ UNCHANGED todo
  <2>1. PICK c \in Manifests : /\ infos' = [infos EXCEPT ![p][n].current = c]
                               /\ Goto(p, "tags") /\ UNCHANGED todo
    BY <1>4, <1>5
  <2>2. Noted(p, n, Found(infos[p][n], c))
    BY <2>1 DEF Noted, Found
  <2> QED BY <2>1, <2>2 DEF LookupDigest
<1>6. CASE /\ infos' = [infos EXCEPT ![p][n].unreachable = TRUE]
           /\ NextCheck(p, n)
  <2>1. Noted(p, n, Unreached(infos[p][n]))
    BY <1>6 DEF Noted, Unreached
  <2> QED BY <1>6, <2>1 DEF LookupDigest
<1> QED BY <1>2, <1>5, <1>6

LEMMA ListTagsNotes ==
  ASSUME TypeInv, NEW p \in Procs, ListTags(p)
  PROVE  /\ pc[p] = "tags" /\ UNCHANGED <<upstream, installed, job>>
         /\ \E n \in todo[p] :
              /\ infos[p][n].current # Absent
              /\ NextCheck(p, n)
              /\ \/ \E T \in SUBSET Tags : Noted(p, n, Newer(infos[p][n],
                                             newerTagsThan(infos[p][n].meta.tag, T)))
                 \/ Noted(p, n, Unreached(infos[p][n]))
<1>1. PICK n \in todo[p] :
         /\ infos[p][n].current # Absent
         /\ NextCheck(p, n)
         /\ \E h \in CheckHosts(infos[p][n].meta.reg) :
              infos' = IF h \in online
                       THEN [infos EXCEPT ![p][n].newer =
                                newerTagsThan(infos[p][n].meta.tag, TagsAt(h, n))]
                       ELSE [infos EXCEPT ![p][n].unreachable = TRUE]
  BY DEF ListTags
<1>2. PICK h \in CheckHosts(infos[p][n].meta.reg) :
              infos' = IF h \in online
                       THEN [infos EXCEPT ![p][n].newer =
                                newerTagsThan(infos[p][n].meta.tag, TagsAt(h, n))]
                       ELSE [infos EXCEPT ![p][n].unreachable = TRUE]
  BY <1>1
<1>3. CASE h \in online
  <2>1. Noted(p, n, Newer(infos[p][n], newerTagsThan(infos[p][n].meta.tag, TagsAt(h, n))))
    BY <1>2, <1>3 DEF Noted, Newer
  <2> QED BY <1>1, <2>1 DEF ListTags, TagsAt
<1>4. CASE h \notin online
  <2>1. Noted(p, n, Unreached(infos[p][n]))
    BY <1>2, <1>4 DEF Noted, Unreached
  <2> QED BY <1>1, <2>1 DEF ListTags
<1> QED BY <1>3, <1>4

\* A check step notes one thing of one package and has no more to do than before.
LEMMA NotedType ==
  ASSUME CommandType, NEW p \in Procs, NEW n \in todo[p], NEW u \in UpdateInfo,
         Noted(p, n, u), UNCHANGED job,
         \/ Goto(p, "tags") /\ UNCHANGED todo
         \/ NextCheck(p, n)
  PROVE  /\ CommandType'
         /\ DOMAIN infos'[p] = DOMAIN infos[p] /\ infos'[p][n] = u
         /\ \A k \in DOMAIN infos[p] \ {n} : infos'[p][k] = infos[p][k]
         /\ \A q \in Procs \ {p} : infos'[q] = infos[q]
<1>1. n \in DOMAIN infos[p]
  BY DEF CommandType, TodoListed
<1>2. /\ InfosType'
      /\ DOMAIN infos'[p] = DOMAIN infos[p] /\ infos'[p][n] = u
      /\ \A k \in DOMAIN infos[p] \ {n} : infos'[p][k] = infos[p][k]
      /\ \A q \in Procs \ {p} : infos'[q] = infos[q]
  BY <1>1, InfoFieldStep DEF CommandType, Noted
<1>3. /\ pc' \in [Procs -> Labels] /\ todo' \in [Procs -> SUBSET Names]
      /\ \A q \in Procs : todo'[q] \subseteq todo[q]
  BY DEF CommandType, NextCheck, Goto, Labels
<1>4. TodoListed'
  <2>1. \A q \in Procs : DOMAIN infos'[q] = DOMAIN infos[q]
    BY <1>2
  <2> QED BY <1>3, <2>1 DEF TodoListed, CommandType
<1> QED BY <1>2, <1>3, <1>4 DEF CommandType

LEMMA LookupDigestType ==
  ASSUME TypeInv, NEW p \in Procs, LookupDigest(p)
  PROVE  CommandType'
<1>1. CommandType
  BY TypeParts
<1>2. PICK n \in todo[p] :
         \/ /\ \E c \in Manifests : Noted(p, n, Found(infos[p][n], c))
            /\ Goto(p, "tags") /\ UNCHANGED todo
         \/ Noted(p, n, Unreached(infos[p][n])) /\ NextCheck(p, n)
  BY LookupDigestNotes
<1>3. infos[p][n] \in UpdateInfo /\ UNCHANGED job
  BY <1>1, LookupDigestNotes DEF CommandType, InfosType, TodoListed
<1>4. CASE \E c \in Manifests : Noted(p, n, Found(infos[p][n], c))
                              /\ Goto(p, "tags") /\ UNCHANGED todo
  <2>1. PICK c \in Manifests : Noted(p, n, Found(infos[p][n], c))
    BY <1>4
  <2>2. Found(infos[p][n], c) \in UpdateInfo
    BY <1>3, InfoFields
  <2> QED BY <1>1, <1>3, <1>4, <2>1, <2>2, NotedType
<1>5. CASE Noted(p, n, Unreached(infos[p][n])) /\ NextCheck(p, n)
  <2>1. Unreached(infos[p][n]) \in UpdateInfo
    BY <1>3 DEF UpdateInfo, Unreached
  <2> QED BY <1>1, <1>3, <1>5, <2>1, NotedType
<1> QED BY <1>2, <1>4, <1>5

LEMMA ListTagsType ==
  ASSUME TypeInv, NEW p \in Procs, ListTags(p)
  PROVE  CommandType'
<1>1. CommandType
  BY TypeParts
<1>2. PICK n \in todo[p] :
         /\ NextCheck(p, n)
         /\ \/ \E T \in SUBSET Tags : Noted(p, n, Newer(infos[p][n],
                                        newerTagsThan(infos[p][n].meta.tag, T)))
            \/ Noted(p, n, Unreached(infos[p][n]))
  BY ListTagsNotes
<1>3. infos[p][n] \in UpdateInfo /\ UNCHANGED job
  BY <1>1, ListTagsNotes DEF CommandType, InfosType, TodoListed
<1>4. CASE \E T \in SUBSET Tags : Noted(p, n, Newer(infos[p][n],
                                    newerTagsThan(infos[p][n].meta.tag, T)))
  <2>1. PICK T \in SUBSET Tags : Noted(p, n, Newer(infos[p][n],
                                    newerTagsThan(infos[p][n].meta.tag, T)))
    BY <1>4
  <2>2. newerTagsThan(infos[p][n].meta.tag, T) \in SUBSET Tags
    BY DEF newerTagsThan
  <2>3. Newer(infos[p][n], newerTagsThan(infos[p][n].meta.tag, T)) \in UpdateInfo
    BY <1>3, <2>2 DEF UpdateInfo, Newer
  <2> QED BY <1>1, <1>2, <1>3, <2>1, <2>3, NotedType
<1>5. CASE Noted(p, n, Unreached(infos[p][n]))
  <2>1. Unreached(infos[p][n]) \in UpdateInfo
    BY <1>3 DEF UpdateInfo, Unreached
  <2> QED BY <1>1, <1>2, <1>3, <1>5, <2>1, NotedType
<1> QED BY <1>2, <1>4, <1>5

\* The job ApplyUpdate hands to the install.
ApplyJob(p, n) == [NoJob EXCEPT !.name = n, !.reg = installed[n].reg,
                                !.tag = targetTag(infos[p][n])]

LEMMA ApplyUpdateType ==
  ASSUME TypeInv, NEW p \in Procs, ApplyUpdate(p)
  PROVE  CommandType'
<1>1. CommandType /\ WorldType
  BY TypeParts
<1>2. PICK n \in todo[p] :
         \/ /\ n \in Installed
            /\ job' = [job EXCEPT ![p] = ApplyJob(p, n)]
            /\ Goto(p, "pull") /\ UNCHANGED <<todo, infos>>
         \/ NextApply(p, n)
  BY DEF ApplyUpdate, ApplyJob
<1>3. n \in Names /\ infos[p][n] \in UpdateInfo
  BY <1>1 DEF CommandType, InfosType, TodoListed
<1>4. CASE /\ n \in Installed
           /\ job' = [job EXCEPT ![p] = ApplyJob(p, n)]
           /\ Goto(p, "pull") /\ UNCHANGED <<todo, infos>>
  <2>1. installed[n].reg \in RegNames /\ targetTag(infos[p][n]) \in Tags
    BY <1>1, <1>3, <1>4, TargetType DEF WorldType, Installed, PackageMetadata
  <2>2. ApplyJob(p, n) \in Job
    BY <1>3, <2>1, NoJobType DEF ApplyJob, Job
  <2>3. InfosType' /\ TodoListed'
    BY <1>1, <1>4 DEF CommandType, InfosType, InfosFunction, TodoListed
  <2> QED BY <1>1, <1>4, <2>2, <2>3 DEF CommandType, Goto, Labels
<1>5. CASE NextApply(p, n)
  BY <1>1, <1>3, <1>5, NextApplyType
<1> QED BY <1>2, <1>4, <1>5

\* What Pull leaves in hand: the manifest it ran into and where it found it.
PulledJob(p, h, d) == [job[p] EXCEPT !.dig = d, !.from = h]

LEMMA PullNotes ==
  ASSUME TypeInv, NEW p \in Procs, Pull(p)
  PROVE  /\ pc[p] = "pull" /\ UNCHANGED <<upstream, installed>>
         /\ \/ /\ \E h \in InstallHosts(job[p].reg), d \in Manifests :
                     job' = [job EXCEPT ![p] = PulledJob(p, h, d)]
               /\ Goto(p, "activate") /\ UNCHANGED <<todo, infos>>
            \/ NextApply(p, job[p].name)
<1>1. CommandType /\ WorldType
  BY TypeParts
<1>2. job[p] \in Job
  BY <1>1 DEF CommandType
<1>3. ASSUME NEW h \in InstallHosts(job[p].reg),
             served[h][job[p].name][job[p].tag] # Absent,
             HostImage[served[h][job[p].name][job[p].tag]] # NoMatch
      PROVE  HostImage[served[h][job[p].name][job[p].tag]] \in Manifests
  <2>1. h \in Hosts
    BY <1>2, HostsType DEF Job
  <2>2. served[h][job[p].name][job[p].tag] \in Manifests
    BY <1>1, <1>2, <1>3, <2>1 DEF WorldType, Job
  <2> QED BY <1>3, <2>2, UpdateAssumption
<1>4. CASE \E h \in InstallHosts(job[p].reg) :
             LET m == served[h][job[p].name][job[p].tag] IN
             /\ h \in online /\ m # Absent /\ HostImage[m] # NoMatch
             /\ job' = [job EXCEPT ![p].dig = HostImage[m], ![p].from = h]
             /\ Goto(p, "activate") /\ UNCHANGED <<todo, infos>>
  <2>1. PICK h \in InstallHosts(job[p].reg) :
             LET m == served[h][job[p].name][job[p].tag] IN
             /\ h \in online /\ m # Absent /\ HostImage[m] # NoMatch
             /\ job' = [job EXCEPT ![p].dig = HostImage[m], ![p].from = h]
             /\ Goto(p, "activate") /\ UNCHANGED <<todo, infos>>
    BY <1>4
  <2> DEFINE d == HostImage[served[h][job[p].name][job[p].tag]]
  <2>2. d \in Manifests
    BY <1>3, <2>1
  <2>3. job' = [job EXCEPT ![p] = PulledJob(p, h, d)]
    BY <1>1, <2>1 DEF PulledJob, CommandType, Job
  <2> QED BY <2>1, <2>2, <2>3 DEF Pull
<1> QED BY <1>4 DEF Pull

LEMMA PullType ==
  ASSUME TypeInv, NEW p \in Procs, Pull(p)
  PROVE  CommandType'
<1>1. CommandType
  BY TypeParts
<1>2. job[p] \in Job
  BY <1>1 DEF CommandType
<1>3. CASE /\ \E h \in InstallHosts(job[p].reg), d \in Manifests :
                 job' = [job EXCEPT ![p] = PulledJob(p, h, d)]
           /\ Goto(p, "activate") /\ UNCHANGED <<todo, infos>>
  <2>1. PICK h \in InstallHosts(job[p].reg), d \in Manifests :
                 job' = [job EXCEPT ![p] = PulledJob(p, h, d)]
    BY <1>3
  <2>2. h \in Hosts
    BY <1>2, HostsType DEF Job
  <2>3. PulledJob(p, h, d) \in Job
    BY <1>2, <2>2 DEF PulledJob, Job
  <2>4. InfosType' /\ TodoListed'
    BY <1>1, <1>3 DEF CommandType, InfosType, InfosFunction, TodoListed
  <2> QED BY <1>1, <1>3, <2>1, <2>3, <2>4 DEF CommandType, Goto, Labels
<1>4. CASE NextApply(p, job[p].name)
  <2>1. job[p].name \in Names
    BY <1>2 DEF Job
  <2> QED BY <1>1, <1>4, <2>1, NextApplyType
<1> QED BY <1>3, <1>4, PullNotes

\* What another dz install records.
LEMMA InstallPackageNotes ==
  ASSUME TypeInv, NEW n \in Names, InstallPackage(n)
  PROVE  /\ \E m \in PackageMetadata :
              /\ installed' = [installed EXCEPT ![n] = m]
              /\ NamesAgree => m.from \in InstallHosts(m.reg)
         /\ UNCHANGED <<upstream, pc, todo, infos, job>>
<1>1. WorldType
  BY TypeParts
<1>2. PICK ref \in ResolvedRefs, t \in Tags :
         /\ served[ref[2]][n][t] # Absent
         /\ HostImage[served[ref[2]][n][t]] # NoMatch
         /\ installed' = [installed EXCEPT ![n] = [reg |-> ref[1], tag |-> t,
                              dig |-> HostImage[served[ref[2]][n][t]], from |-> ref[2]]]
  BY DEF InstallPackage
<1>3. /\ ref[1] \in RegNames /\ ref[2] \in Hosts
      /\ NamesAgree => ref[2] \in InstallHosts(ref[1])
  BY ResolvedType
<1>4. served[ref[2]][n][t] \in Manifests
  BY <1>1, <1>2, <1>3 DEF WorldType
<1>5. HostImage[served[ref[2]][n][t]] \in Manifests
  BY <1>2, <1>4, UpdateAssumption
<1> DEFINE m == [reg |-> ref[1], tag |-> t,
                 dig |-> HostImage[served[ref[2]][n][t]], from |-> ref[2]]
<1>6. m \in PackageMetadata /\ (NamesAgree => m.from \in InstallHosts(m.reg))
  BY <1>3, <1>5 DEF PackageMetadata
<1>7. installed' = [installed EXCEPT ![n] = m]
  BY <1>2
<1> QED BY <1>6, <1>7 DEF InstallPackage

LEMMA ActivateType ==
  ASSUME TypeInv, NEW p \in Procs, Activate(p)
  PROVE  WorldType' /\ CommandType'
<1>1. CommandType /\ WorldType
  BY TypeParts
<1>2. job[p] \in Job
  BY <1>1 DEF CommandType
<1>3. CommandType'
  BY <1>1, <1>2, NextApplyType DEF Activate, Job
<1>4. WorldType'
  BY <1>1, <1>2 DEF WorldType, Activate, upstream, Job, PackageMetadata
<1> QED BY <1>3, <1>4

\* Nothing of a process moves: its command is typed as before.
LEMMA CommandKept ==
  ASSUME CommandType, UNCHANGED <<pc, todo, infos, job>>
  PROVE  CommandType'
BY DEF CommandType, InfosType, InfosFunction, TodoListed

LEMMA TypeStep == TypeInv /\ [Next]_vars => TypeInv'
<1> SUFFICES ASSUME TypeInv, [Next]_vars PROVE TypeInv'
  OBVIOUS
<1>1. WorldType /\ CommandType
  BY TypeParts
<1> SUFFICES WorldType' /\ CommandType'
  BY DEF TypeInv, TypeOK, WorldType, CommandType, InfosType, Labels, Job
<1> USE <1>1
<1>2. ASSUME NEW p \in Procs, CheckUpdates(p) \/ CheckUpdate(p)
      PROVE  WorldType' /\ CommandType'
  <2>1. PICK S \in SUBSET Installed : BeginCheck(p, S)
    BY <1>2 DEF CheckUpdates, CheckUpdate
  <2>2. CommandType'
    BY <2>1, BeginCheckType
  <2> QED BY <2>1, <2>2 DEF WorldType, BeginCheck, upstream
<1>3. ASSUME NEW p \in Procs, LookupDigest(p) PROVE WorldType' /\ CommandType'
  <2>1. WorldType'
    BY <1>3 DEF WorldType, LookupDigest, upstream
  <2> QED BY <1>3, <2>1, LookupDigestType
<1>4. ASSUME NEW p \in Procs, ListTags(p) PROVE WorldType' /\ CommandType'
  <2>1. WorldType'
    BY <1>4 DEF WorldType, ListTags, upstream
  <2> QED BY <1>4, <2>1, ListTagsType
<1>5. ASSUME NEW p \in Procs, Decline(p) PROVE WorldType' /\ CommandType'
  <2>1. WorldType'
    BY <1>5 DEF WorldType, Decline, upstream
  <2> QED BY <1>5, <2>1, ReturnType DEF Decline
<1>6. ASSUME NEW p \in Procs, Confirm(p) PROVE WorldType' /\ CommandType'
  <2>1. WorldType'
    BY <1>6 DEF WorldType, Confirm, upstream
  <2>2. InfosType'
    BY <1>6 DEF CommandType, InfosType, InfosFunction, Confirm
  <2>3. /\ \A q \in Procs \ {p} : todo'[q] = todo[q]
        /\ todo'[p] \subseteq DOMAIN infos[p] /\ infos' = infos /\ job' = job
        /\ pc' \in [Procs -> Labels] /\ todo' \in [Procs -> SUBSET Names]
    BY <1>6 DEF CommandType, InfosType, Confirm, Goto, Labels, Applicable
  <2>4. TodoListed'
    BY <2>3 DEF CommandType, TodoListed
  <2> QED BY <2>1, <2>2, <2>3, <2>4 DEF CommandType
<1>7. ASSUME NEW p \in Procs, ApplyUpdate(p) PROVE WorldType' /\ CommandType'
  <2>1. WorldType'
    BY <1>7 DEF WorldType, ApplyUpdate, upstream
  <2> QED BY <1>7, <2>1, ApplyUpdateType
<1>8. ASSUME NEW p \in Procs, Pull(p) PROVE WorldType' /\ CommandType'
  <2>1. WorldType'
    BY <1>8 DEF WorldType, Pull, upstream
  <2> QED BY <1>8, <2>1, PullType
<1>9. ASSUME NEW p \in Procs, Activate(p) PROVE WorldType' /\ CommandType'
  BY <1>9, ActivateType
<1>10. ASSUME NEW n \in Names, InstallPackage(n) PROVE WorldType' /\ CommandType'
  <2>1. PICK m \in PackageMetadata : installed' = [installed EXCEPT ![n] = m]
    BY <1>10, InstallPackageNotes
  <2>2. UNCHANGED <<upstream, pc, todo, infos, job>>
    BY <1>10 DEF InstallPackage
  <2>3. WorldType'
    BY <2>1, <2>2 DEF WorldType, upstream
  <2> QED BY <2>2, <2>3, CommandKept
<1>11. ASSUME NEW n \in Names, RemovePackage(n) PROVE WorldType' /\ CommandType'
  <2>1. WorldType'
    BY <1>11 DEF WorldType, RemovePackage, upstream
  <2> QED BY <1>11, <2>1, CommandKept DEF RemovePackage
<1>12. ASSUME NEW h \in Hosts, NEW n \in Names, Push(h, n)
       PROVE  WorldType' /\ CommandType'
  <2>1. served' \in [Hosts -> [Names -> [Tags -> Manifests \cup {Absent}]]]
    BY <1>12 DEF WorldType, Push
  <2>2. pushes' \in 0..MaxPushes
    BY <1>12, UpdateAssumption DEF WorldType, Push
  <2>3. CommandType'
    BY <1>12, CommandKept DEF Push
  <2> QED BY <1>12, <2>1, <2>2, <2>3 DEF WorldType, Push
<1>13. ASSUME NEW h \in Hosts, Toggle(h) PROVE WorldType' /\ CommandType'
  <2>1. pushes' \in 0..MaxPushes
    BY <1>13, UpdateAssumption DEF WorldType, Toggle
  <2>2. CommandType'
    BY <1>13, CommandKept DEF Toggle
  <2> QED BY <1>13, <2>1, <2>2 DEF WorldType, Toggle
<1>14. CASE UNCHANGED vars
  <2>1. WorldType'
    BY <1>14 DEF WorldType, vars
  <2> QED BY <1>14, <2>1, CommandKept DEF vars
<1> QED BY <1>2, <1>3, <1>4, <1>5, <1>6, <1>7, <1>8, <1>9, <1>10, <1>11, <1>12,
           <1>13, <1>14 DEF Next

\* The check and the apply never mistake what they have in hand: every info of
\* a scan is one of an installed package, every job one of a package, a
\* registry, a tag and a manifest (UpdateInfo, PackageMetadata).
THEOREM TypeCorrect == Spec => []TypeOK
<1>1. TypeInv => TypeOK
  BY DEF TypeInv
<1> QED BY <1>1, InitType, TypeStep, PTL DEF Spec

-------------------------------------------------------------------------------
\* The scan

StepOf(p) ==
    \/ CheckUpdates(p) \/ CheckUpdate(p) \/ LookupDigest(p) \/ ListTags(p)
    \/ Decline(p) \/ Confirm(p)
    \/ ApplyUpdate(p) \/ Pull(p) \/ Activate(p)

Kept(q) ==
    pc'[q] = pc[q] /\ todo'[q] = todo[q] /\ infos'[q] = infos[q] /\ job'[q] = job[q]

\* A process moves nothing of another one.
LEMMA OthersKept ==
  ASSUME TypeInv, NEW p \in Procs, StepOf(p), NEW q \in Procs \ {p}
  PROVE  Kept(q)
<1>1. CommandType
  BY TypeParts
<1>2. ASSUME Return(p) PROVE Kept(q)
  BY <1>1, <1>2 DEF Return, Goto, Kept, CommandType, InfosType, InfosFunction
<1>3. ASSUME NEW n \in Names, NextApply(p, n) PROVE Kept(q)
  BY <1>1, <1>2, <1>3 DEF NextApply, Goto, Kept, CommandType
<1>4. ASSUME NEW n \in todo[p], NEW u \in UpdateInfo, Noted(p, n, u), UNCHANGED job,
             \/ Goto(p, "tags") /\ UNCHANGED todo
             \/ NextCheck(p, n)
      PROVE  Kept(q)
  <2>1. infos'[q] = infos[q]
    BY <1>1, <1>4, NotedType
  <2> QED BY <1>1, <1>4, <2>1 DEF NextCheck, Goto, Kept, CommandType
<1>5. \A n \in todo[p] : n \in Names /\ infos[p][n] \in UpdateInfo
  BY <1>1 DEF CommandType, InfosType, TodoListed
<1>6. CASE CheckUpdates(p) \/ CheckUpdate(p)
  <2>1. PICK S \in SUBSET Installed : BeginCheck(p, S)
    BY <1>6 DEF CheckUpdates, CheckUpdate
  <2> QED BY <1>1, <2>1 DEF BeginCheck, Goto, Kept, CommandType, InfosType, InfosFunction
<1>7. CASE LookupDigest(p)
  <2>1. PICK n \in todo[p] :
         \/ /\ \E c \in Manifests : Noted(p, n, Found(infos[p][n], c))
            /\ Goto(p, "tags") /\ UNCHANGED todo
         \/ Noted(p, n, Unreached(infos[p][n])) /\ NextCheck(p, n)
    BY <1>7, LookupDigestNotes
  <2>2. UNCHANGED job /\ Unreached(infos[p][n]) \in UpdateInfo
    BY <1>5, <1>7, LookupDigestNotes DEF UpdateInfo, Unreached
  <2>3. \A c \in Manifests : Found(infos[p][n], c) \in UpdateInfo
    BY <1>5, InfoFields
  <2> QED BY <1>4, <2>1, <2>2, <2>3
<1>8. CASE ListTags(p)
  <2>1. PICK n \in todo[p] :
           /\ NextCheck(p, n)
           /\ \/ \E T \in SUBSET Tags : Noted(p, n, Newer(infos[p][n],
                                          newerTagsThan(infos[p][n].meta.tag, T)))
              \/ Noted(p, n, Unreached(infos[p][n]))
    BY <1>8, ListTagsNotes
  <2>2. UNCHANGED job /\ Unreached(infos[p][n]) \in UpdateInfo
    BY <1>5, <1>8, ListTagsNotes DEF UpdateInfo, Unreached
  <2>3. \A T \in SUBSET Tags :
          Newer(infos[p][n], newerTagsThan(infos[p][n].meta.tag, T)) \in UpdateInfo
    BY <1>5 DEF UpdateInfo, Newer, newerTagsThan
  <2> QED BY <1>4, <2>1, <2>2, <2>3
<1>9. CASE Decline(p)
  BY <1>2, <1>9 DEF Decline
<1>10. CASE Confirm(p)
  BY <1>1, <1>10 DEF Confirm, Goto, Kept, CommandType
<1>11. CASE ApplyUpdate(p)
  <2>1. PICK n \in todo[p] :
         \/ /\ job' = [job EXCEPT ![p] = ApplyJob(p, n)]
            /\ Goto(p, "pull") /\ UNCHANGED <<todo, infos>>
         \/ NextApply(p, n)
    BY <1>11 DEF ApplyUpdate, ApplyJob
  <2> QED BY <1>1, <1>3, <1>5, <2>1 DEF Goto, Kept, CommandType
<1>12. CASE Pull(p)
  <2>1. CASE NextApply(p, job[p].name)
    BY <1>1, <1>3, <2>1 DEF CommandType, Job
  <2>2. CASE /\ \E h \in InstallHosts(job[p].reg), d \in Manifests :
                   job' = [job EXCEPT ![p] = PulledJob(p, h, d)]
             /\ Goto(p, "activate") /\ UNCHANGED <<todo, infos>>
    BY <1>1, <2>2 DEF Goto, Kept, CommandType
  <2> QED BY <1>12, <2>1, <2>2, PullNotes
<1>13. CASE Activate(p)
  <2>1. job[p].name \in Names /\ NextApply(p, job[p].name)
    BY <1>1, <1>13 DEF CommandType, Job, Activate
  <2> QED BY <1>3, <2>1
<1> QED BY <1>6, <1>7, <1>8, <1>9, <1>10, <1>11, <1>12, <1>13 DEF StepOf

LEMMA StepCases ==
  ASSUME [Next]_vars
  PROVE  (\E p \in Procs : StepOf(p)) \/ UNCHANGED <<pc, todo, infos, job>>
BY DEF Next, StepOf, InstallPackage, RemovePackage, Push, Toggle, vars

\* The apply loop leaves the infos alone until the command is over.
LEMMA NextApplyKeeps ==
  ASSUME CommandType, NEW p \in Procs, NEW n \in Names, NextApply(p, n)
  PROVE  \/ pc'[p] = "idle" /\ todo'[p] = {} /\ infos'[p] = NoInfos
         \/ pc'[p] = "apply" /\ todo'[p] \subseteq todo[p] /\ infos'[p] = infos[p]
BY DEF NextApply, Return, Goto, CommandType, InfosType, InfosFunction

\* What is noted of a package is looked up or reported; the others are as before.
LEMMA ScannedNote ==
  ASSUME TypeInv, NEW p \in Procs, Scanned(p), pc[p] \in {"digest", "tags"},
         NEW n \in todo[p], NEW u \in UpdateInfo, Noted(p, n, u), UNCHANGED job, Looked(u),
         \/ Goto(p, "tags") /\ UNCHANGED todo
         \/ NextCheck(p, n)
  PROVE  Scanned(p)'
<1>1. CommandType
  BY TypeParts
<1>2. /\ DOMAIN infos'[p] = DOMAIN infos[p] /\ infos'[p][n] = u
      /\ \A k \in DOMAIN infos[p] \ {n} : infos'[p][k] = infos[p][k]
  BY <1>1, NotedType
<1>3. \A k \in DOMAIN infos[p] : k \in todo[p] \ {n} \/ Looked(infos'[p][k])
  BY <1>2 DEF Scanned, Looked
<1>4. \/ pc'[p] \in {"digest", "tags"} /\ todo[p] \ {n} \subseteq todo'[p]
      \/ pc'[p] = "prompt" /\ todo[p] = {n}
  BY <1>1 DEF NextCheck, Goto, CommandType
<1> QED BY <1>2, <1>3, <1>4 DEF Scanned, Looked

LEMMA ScannedStep ==
  ASSUME TypeInv, NEW p \in Procs, Scanned(p), StepOf(p)
  PROVE  Scanned(p)'
<1>1. CommandType
  BY TypeParts
<1>2. \A n \in todo[p] : n \in Names /\ infos[p][n] \in UpdateInfo
  BY <1>1 DEF CommandType, InfosType, TodoListed
<1>3. ASSUME NEW n \in Names, NextApply(p, n), pc[p] \in {"apply", "pull", "activate"}
      PROVE  Scanned(p)'
  BY <1>1, <1>3, NextApplyKeeps DEF Scanned, Looked
<1>4. CASE CheckUpdates(p) \/ CheckUpdate(p)
  <2>1. PICK S \in SUBSET Installed : BeginCheck(p, S)
    BY <1>4 DEF CheckUpdates, CheckUpdate
  <2>2. pc'[p] = "digest" /\ todo'[p] = S /\ DOMAIN infos'[p] = S
    BY <1>1, <2>1 DEF BeginCheck, Goto, CommandType, InfosType, InfosFunction
  <2> QED BY <2>2 DEF Scanned, Looked
<1>5. CASE LookupDigest(p)
  <2>1. PICK n \in todo[p] :
         \/ /\ \E c \in Manifests : Noted(p, n, Found(infos[p][n], c))
            /\ Goto(p, "tags") /\ UNCHANGED todo
         \/ Noted(p, n, Unreached(infos[p][n])) /\ NextCheck(p, n)
    BY <1>5, LookupDigestNotes
  <2>2. /\ UNCHANGED job /\ pc[p] = "digest"
        /\ Unreached(infos[p][n]) \in UpdateInfo /\ Looked(Unreached(infos[p][n]))
    BY <1>2, <1>5, LookupDigestNotes DEF UpdateInfo, Unreached, Looked
  <2>3. \A c \in Manifests : /\ Found(infos[p][n], c) \in UpdateInfo
                             /\ Looked(Found(infos[p][n], c))
    BY <1>2, UpdateAssumption DEF UpdateInfo, Found, Looked
  <2> QED BY <2>1, <2>2, <2>3, ScannedNote
<1>6. CASE ListTags(p)
  <2>1. PICK n \in todo[p] :
           /\ infos[p][n].current # Absent
           /\ NextCheck(p, n)
           /\ \/ \E T \in SUBSET Tags : Noted(p, n, Newer(infos[p][n],
                                          newerTagsThan(infos[p][n].meta.tag, T)))
              \/ Noted(p, n, Unreached(infos[p][n]))
    BY <1>6, ListTagsNotes
  <2>2. /\ UNCHANGED job /\ pc[p] = "tags"
        /\ Unreached(infos[p][n]) \in UpdateInfo /\ Looked(Unreached(infos[p][n]))
    BY <1>2, <1>6, ListTagsNotes DEF UpdateInfo, Unreached, Looked
  <2>3. \A T \in SUBSET Tags :
          /\ Newer(infos[p][n], newerTagsThan(infos[p][n].meta.tag, T)) \in UpdateInfo
          /\ Looked(Newer(infos[p][n], newerTagsThan(infos[p][n].meta.tag, T)))
    BY <1>2, <2>1 DEF UpdateInfo, Newer, newerTagsThan, Looked
  <2> QED BY <2>1, <2>2, <2>3, ScannedNote
<1>7. CASE Decline(p)
  BY <1>1, <1>7 DEF Decline, Return, Goto, CommandType, Scanned
<1>8. CASE Confirm(p)
  BY <1>1, <1>8 DEF Confirm, Goto, CommandType, Scanned, Looked
<1>9. CASE ApplyUpdate(p)
  <2>1. PICK n \in todo[p] :
         \/ Goto(p, "pull") /\ UNCHANGED infos
         \/ NextApply(p, n)
    BY <1>9 DEF ApplyUpdate
  <2>2. pc[p] = "apply"
    BY <1>9 DEF ApplyUpdate
  <2> QED BY <1>1, <1>2, <1>3, <2>1, <2>2 DEF Goto, CommandType, Scanned, Looked
<1>10. CASE Pull(p)
  <2>1. CASE NextApply(p, job[p].name)
    BY <1>1, <1>3, <1>10, <2>1 DEF CommandType, Job, Pull
  <2>2. CASE Goto(p, "activate") /\ UNCHANGED infos
    BY <1>1, <1>10, <2>2 DEF Goto, CommandType, Scanned, Looked, Pull
  <2> QED BY <1>10, <2>1, <2>2, PullNotes
<1>11. CASE Activate(p)
  <2>1. job[p].name \in Names /\ NextApply(p, job[p].name) /\ pc[p] = "activate"
    BY <1>1, <1>11 DEF CommandType, Job, Activate
  <2> QED BY <1>3, <2>1
<1> QED BY <1>4, <1>5, <1>6, <1>7, <1>8, <1>9, <1>10, <1>11 DEF StepOf

\* "one offline registry doesn't hide updates available elsewhere": whatever
\* hosts and tags come and go during a scan, at the prompt every package of it
\* was looked up or is reported as unreachable (CheckUpdates).
THEOREM ScanCompleteCorrect == Spec => []ScanComplete
<1>1. Init => ScanInv
  BY NoInfosType DEF Init, ScanInv, Scanned
<1>2. TypeInv /\ ScanInv /\ [Next]_vars => ScanInv'
  <2> SUFFICES ASSUME TypeInv, ScanInv, [Next]_vars, NEW q \in Procs
               PROVE  Scanned(q)'
    BY DEF ScanInv
  <2>1. CASE UNCHANGED <<pc, todo, infos, job>>
    BY <2>1 DEF ScanInv, Scanned, Looked
  <2>2. ASSUME NEW p \in Procs, StepOf(p) PROVE Scanned(q)'
    <3>1. CASE p = q
      BY <2>2, <3>1, ScannedStep DEF ScanInv
    <3>2. CASE p # q
      <4>1. Kept(q)
        BY <2>2, <3>2, OthersKept
      <4> QED BY <4>1 DEF ScanInv, Scanned, Looked, Kept
    <3> QED BY <3>1, <3>2
  <2> QED BY <2>1, <2>2, StepCases
<1>3. ScanInv => ScanComplete
  BY DEF ScanInv, Scanned, Looked, ScanComplete
<1> QED BY <1>1, <1>2, <1>3, InitType, TypeStep, PTL DEF Spec

-------------------------------------------------------------------------------
\* What is announced, and what is applied

\* A check step announces for one package what newerTagsThan lets it.
LEMMA JobNote ==
  ASSUME TypeInv, NEW p \in Procs, JobSound(p),
         NEW n \in todo[p], NEW u \in UpdateInfo, Noted(p, n, u), UNCHANGED job,
         NewerSound(u),
         \/ Goto(p, "tags") /\ UNCHANGED todo
         \/ NextCheck(p, n)
  PROVE  JobSound(p)'
<1>1. CommandType
  BY TypeParts
<1>2. /\ DOMAIN infos'[p] = DOMAIN infos[p] /\ infos'[p][n] = u
      /\ \A k \in DOMAIN infos[p] \ {n} : infos'[p][k] = infos[p][k]
  BY <1>1, NotedType
<1>3. \A k \in DOMAIN infos'[p] : NewerSound(infos'[p][k])
  <2> SUFFICES ASSUME NEW k \in DOMAIN infos[p] PROVE NewerSound(infos'[p][k])
    BY <1>2
  <2>1. CASE k = n
    BY <1>2, <2>1
  <2>2. CASE k # n
    <3>1. infos'[p][k] = infos[p][k] /\ NewerSound(infos[p][k])
      BY <1>2, <2>2 DEF JobSound
    <3> QED BY <3>1
  <2> QED BY <2>1, <2>2
<1>4. pc'[p] \in {"tags", "digest", "prompt"}
  BY <1>1 DEF NextCheck, Goto, CommandType
<1> QED BY <1>3, <1>4 DEF JobSound, NewerSound

LEMMA JobNextApply ==
  ASSUME TypeInv, NEW p \in Procs, JobSound(p), NEW n \in Names, NextApply(p, n),
         pc[p] \in {"apply", "pull", "activate"}
  PROVE  JobSound(p)'
<1>1. CommandType
  BY TypeParts
<1>2. CASE pc'[p] = "idle" /\ infos'[p] = NoInfos
  BY <1>2 DEF JobSound, NoInfos
<1>3. CASE pc'[p] = "apply" /\ todo'[p] \subseteq todo[p] /\ infos'[p] = infos[p]
  BY <1>3 DEF JobSound, NewerSound, Announced
<1> QED BY <1>1, <1>2, <1>3, NextApplyKeeps

LEMMA JobStep ==
  ASSUME TypeInv, NEW p \in Procs, JobSound(p), StepOf(p)
  PROVE  JobSound(p)'
<1>1. CommandType
  BY TypeParts
<1>2. \A n \in todo[p] : /\ n \in Names /\ infos[p][n] \in UpdateInfo
                         /\ NewerSound(infos[p][n])
  BY <1>1 DEF CommandType, InfosType, TodoListed, JobSound
<1>3. \A n \in todo[p] : /\ Unreached(infos[p][n]) \in UpdateInfo
                         /\ NewerSound(Unreached(infos[p][n]))
  BY <1>2 DEF UpdateInfo, Unreached, NewerSound
<1>4. CASE CheckUpdates(p) \/ CheckUpdate(p)
  <2>1. PICK S \in SUBSET Installed : BeginCheck(p, S)
    BY <1>4 DEF CheckUpdates, CheckUpdate
  <2>2. pc'[p] = "digest" /\ infos'[p] = [n \in S |-> InfoOf(installed[n])]
    BY <1>1, <2>1 DEF BeginCheck, Goto, CommandType, InfosType, InfosFunction
  <2>3. \A n \in DOMAIN infos'[p] : NewerSound(infos'[p][n])
    BY <2>2 DEF NewerSound, InfoOf
  <2> QED BY <2>2, <2>3 DEF JobSound, NewerSound
<1>5. CASE LookupDigest(p)
  <2>1. PICK n \in todo[p] :
         \/ /\ \E c \in Manifests : Noted(p, n, Found(infos[p][n], c))
            /\ Goto(p, "tags") /\ UNCHANGED todo
         \/ Noted(p, n, Unreached(infos[p][n])) /\ NextCheck(p, n)
    BY <1>5, LookupDigestNotes
  <2>2. UNCHANGED job
    BY <1>5, LookupDigestNotes
  <2>3. \A c \in Manifests : /\ Found(infos[p][n], c) \in UpdateInfo
                             /\ NewerSound(Found(infos[p][n], c))
    BY <1>2 DEF UpdateInfo, Found, NewerSound
  <2> QED BY <1>3, <2>1, <2>2, <2>3, JobNote
<1>6. CASE ListTags(p)
  <2>1. PICK n \in todo[p] :
           /\ NextCheck(p, n)
           /\ \/ \E T \in SUBSET Tags : Noted(p, n, Newer(infos[p][n],
                                          newerTagsThan(infos[p][n].meta.tag, T)))
              \/ Noted(p, n, Unreached(infos[p][n]))
    BY <1>6, ListTagsNotes
  <2>2. UNCHANGED job
    BY <1>6, ListTagsNotes
  <2>3. infos[p][n].meta.tag \in Tags
    BY <1>2 DEF UpdateInfo, PackageMetadata
  <2>4. ASSUME NEW T \in SUBSET Tags
        PROVE  LET u == Newer(infos[p][n], newerTagsThan(infos[p][n].meta.tag, T))
               IN  u \in UpdateInfo /\ NewerSound(u)
    <3> DEFINE N == newerTagsThan(infos[p][n].meta.tag, T)
    <3>1. N \subseteq T /\ N \subseteq newerTagsThan(infos[p][n].meta.tag, Tags)
      BY <2>3, NewerTags
    <3> HIDE DEF N
    <3>2. Newer(infos[p][n], N) \in UpdateInfo /\ NewerSound(Newer(infos[p][n], N))
      BY <1>2, <3>1 DEF UpdateInfo, Newer, NewerSound
    <3> QED BY <3>2 DEF N
  <2> QED BY <1>3, <2>1, <2>2, <2>4, JobNote
<1>7. CASE Decline(p)
  BY <1>1, <1>7 DEF Decline, Return, Goto, CommandType, InfosType, InfosFunction,
                    JobSound, NoInfos
<1>8. CASE Confirm(p)
  <2>1. pc'[p] = "apply" /\ todo'[p] = Applicable(p) /\ infos' = infos
    BY <1>1, <1>8 DEF Confirm, Goto, CommandType
  <2> QED BY <2>1 DEF JobSound, Applicable, Announced, NewerSound
<1>9. CASE ApplyUpdate(p)
  <2>1. PICK n \in todo[p] :
         \/ /\ job' = [job EXCEPT ![p] = ApplyJob(p, n)]
            /\ Goto(p, "pull") /\ UNCHANGED <<todo, infos>>
         \/ NextApply(p, n)
    BY <1>9 DEF ApplyUpdate, ApplyJob
  <2>2. pc[p] = "apply" /\ Announced(p, n)
    BY <1>9 DEF ApplyUpdate, JobSound
  <2>3. CASE /\ job' = [job EXCEPT ![p] = ApplyJob(p, n)]
             /\ Goto(p, "pull") /\ UNCHANGED <<todo, infos>>
    <3>1. job'[p] = ApplyJob(p, n) /\ pc'[p] = "pull"
      BY <1>1, <2>3 DEF CommandType, Goto
    <3>2. job'[p].name = n /\ job'[p].tag = targetTag(infos[p][n])
      BY <3>1, NoJobType DEF ApplyJob
    <3> QED BY <2>2, <2>3, <3>1, <3>2 DEF JobSound, Announced, NewerSound
  <2> QED BY <1>2, <2>1, <2>2, <2>3, JobNextApply
<1>10. CASE Pull(p)
  <2>1. CASE NextApply(p, job[p].name)
    BY <1>1, <1>10, <2>1, JobNextApply DEF CommandType, Job, Pull
  <2>2. CASE /\ \E h \in InstallHosts(job[p].reg), d \in Manifests :
                   job' = [job EXCEPT ![p] = PulledJob(p, h, d)]
             /\ Goto(p, "activate") /\ UNCHANGED <<todo, infos>>
    <3>1. /\ job'[p].name = job[p].name /\ job'[p].tag = job[p].tag
          /\ pc'[p] = "activate" /\ pc[p] = "pull"
      BY <1>1, <1>10, <2>2 DEF CommandType, Goto, PulledJob, Job, Pull
    <3> QED BY <2>2, <3>1 DEF JobSound, Announced, NewerSound
  <2> QED BY <1>10, <2>1, <2>2, PullNotes
<1>11. CASE Activate(p)
  <2>1. job[p].name \in Names /\ NextApply(p, job[p].name) /\ pc[p] = "activate"
    BY <1>1, <1>11 DEF CommandType, Job, Activate
  <2> QED BY <2>1, JobNextApply
<1> QED BY <1>4, <1>5, <1>6, <1>7, <1>8, <1>9, <1>10, <1>11 DEF StepOf

LEMMA JobInvInductive ==
  /\ Init => JobInv
  /\ TypeInv /\ JobInv /\ [Next]_vars => JobInv'
<1>1. Init => JobInv
  BY DEF Init, JobInv, JobSound, NoInfos
<1>2. ASSUME TypeInv, JobInv, [Next]_vars, NEW q \in Procs PROVE JobSound(q)'
  <2>1. ASSUME Kept(q) PROVE JobSound(q)'
    BY <1>2, <2>1 DEF JobInv, JobSound, NewerSound, Announced, Kept
  <2>2. CASE UNCHANGED <<pc, todo, infos, job>>
    BY <2>1, <2>2 DEF Kept
  <2>3. ASSUME NEW p \in Procs, StepOf(p) PROVE JobSound(q)'
    <3>1. CASE p = q
      BY <1>2, <2>3, <3>1, JobStep DEF JobInv
    <3>2. CASE p # q
      BY <1>2, <2>1, <2>3, <3>2, OthersKept
    <3> QED BY <3>1, <3>2
  <2> QED BY <1>2, <2>2, <2>3, StepCases
<1> QED BY <1>1, <1>2 DEF JobInv

\* The tag an announced update is applied with comes after the installed one
\* and is no floating or signature tag and no sibling build, or it is the
\* installed one.
LEMMA TargetIsGreater ==
  ASSUME NEW u \in UpdateInfo, NewerSound(u), targetTag(u) # u.meta.tag
  PROVE  /\ targetTag(u) > u.meta.tag
         /\ targetTag(u) \notin Floating \cup Sidecar
         /\ <<u.meta.tag, targetTag(u)>> \notin Variants
         /\ targetTag(u) = Max(u.newer) /\ u.newer # {} /\ ~SameTagRebuild(u)
<1>1. /\ targetTag(u) = Max(u.newer) /\ u.newer # {} /\ u.newer \in SUBSET Tags
      /\ ~SameTagRebuild(u)
  BY DEF targetTag, UpdateInfo
<1>2. Max(u.newer) \in newerTagsThan(u.meta.tag, Tags)
  BY <1>1, MaxOf DEF NewerSound
<1> QED BY <1>1, <1>2 DEF newerTagsThan

\* Only Activate makes a package current.
LEMMA UpdatesIsActivate ==
  ASSUME TypeInv, [Next]_vars, NEW p \in Procs, NEW n \in Names, Updates(p, n)
  PROVE  /\ Activate(p) /\ n = job[p].name
         /\ installed'[n] = [reg |-> job[p].reg, tag |-> job[p].tag,
                             dig |-> job[p].dig, from |-> job[p].from]
<1>1. CommandType /\ WorldType
  BY TypeParts
<1>2. PICK q \in Procs : StepOf(q)
  BY StepCases DEF Updates
<1>3. p = q
  <2> SUFFICES ASSUME p # q PROVE FALSE
    OBVIOUS
  <2> QED BY <1>2, OthersKept DEF Kept, Updates
<1>4. pc[p] = "activate"
  BY DEF Updates
<1>5. Activate(p)
  BY <1>2, <1>3, <1>4 DEF StepOf, CheckUpdates, CheckUpdate, BeginCheck, LookupDigest,
     ListTags, Decline, Confirm, ApplyUpdate, Pull
<1> QED BY <1>1, <1>5 DEF Activate, Updates, WorldType

\* The package an update is about is one the check read.
LEMMA UpdateOfScan ==
  ASSUME TypeInv, JobInv, [Next]_vars, NEW p \in Procs, NEW n \in Names,
         Updates(p, n), Undisturbed(p, n)
  PROVE  /\ infos[p][n] \in UpdateInfo
         /\ HasUpdate(infos[p][n]) /\ NewerSound(infos[p][n])
         /\ installed[n] = infos[p][n].meta /\ installed[n] \in PackageMetadata
         /\ n \in Installed /\ job[p] \in Job /\ pc[p] = "activate"
         /\ job[p].reg = installed[n].reg /\ job[p].tag = targetTag(infos[p][n])
         /\ installed'[n] = [reg |-> job[p].reg, tag |-> job[p].tag,
                             dig |-> job[p].dig, from |-> job[p].from]
<1>1. WorldType /\ CommandType
  BY TypeParts
<1>2. /\ n = job[p].name
      /\ installed'[n] = [reg |-> job[p].reg, tag |-> job[p].tag,
                          dig |-> job[p].dig, from |-> job[p].from]
  BY UpdatesIsActivate
<1>3. pc[p] = "activate" /\ job[p] \in Job
  BY <1>1 DEF Updates, CommandType
<1>4. /\ n \in DOMAIN infos[p] /\ HasUpdate(infos[p][n])
      /\ NewerSound(infos[p][n])
      /\ job[p].tag = targetTag(infos[p][n])
  BY <1>2, <1>3 DEF JobInv, JobSound, Announced
<1>5. infos[p][n] \in UpdateInfo
  BY <1>1, <1>4 DEF CommandType, InfosType
<1>6. installed[n] = infos[p][n].meta /\ job[p].reg = installed[n].reg
  BY DEF Undisturbed
<1>7. installed[n] \in PackageMetadata
  BY <1>5, <1>6 DEF UpdateInfo
<1>8. installed[n] # Absent
  BY <1>7, AbsentAssumption
<1> QED BY <1>2, <1>3, <1>4, <1>5, <1>6, <1>7, <1>8 DEF Installed

\* An update that changes the tag changes it to a greater string, never to a
\* floating or signature tag or a sibling build, however upstream and other
\* commands move between the check, the prompt and the pull (newerTagsThan,
\* newUpdateCommand).  Of versions nothing is said: 1.9.0 is the greater string.
THEOREM MovesToGreaterTagCorrect == Spec => MovesToGreaterTag
<1>1. TypeInv /\ JobInv /\ [Next]_vars =>
        [\A p \in Procs, n \in Names : Updates(p, n) /\ Undisturbed(p, n) =>
          LET old == installed[n]  new == installed'[n] IN
          new.tag # old.tag =>
                /\ new.tag > old.tag
                /\ new.tag \notin Floating \cup Sidecar
                /\ <<old.tag, new.tag>> \notin Variants]_vars
  <2> SUFFICES ASSUME TypeInv, JobInv, [Next]_vars, NEW p \in Procs, NEW n \in Names,
                      Updates(p, n), Undisturbed(p, n),
                      installed'[n].tag # installed[n].tag
               PROVE  /\ installed'[n].tag > installed[n].tag
                      /\ installed'[n].tag \notin Floating \cup Sidecar
                      /\ <<installed[n].tag, installed'[n].tag>> \notin Variants
    OBVIOUS
  <2>1. /\ infos[p][n] \in UpdateInfo /\ pc[p] = "activate"
        /\ installed[n].tag = infos[p][n].meta.tag
        /\ installed'[n].tag = targetTag(infos[p][n])
    <3>1. /\ infos[p][n] \in UpdateInfo /\ pc[p] = "activate"
          /\ installed[n] = infos[p][n].meta
          /\ job[p].tag = targetTag(infos[p][n])
          /\ installed'[n] = [reg |-> job[p].reg, tag |-> job[p].tag,
                              dig |-> job[p].dig, from |-> job[p].from]
      BY UpdateOfScan
    <3> QED BY <3>1
  <2>2. NewerSound(infos[p][n])
    BY UpdateOfScan
  <2> QED BY <2>1, <2>2, TargetIsGreater
<1> QED BY <1>1, InitType, TypeStep, JobInvInductive, PTL DEF Spec, MovesToGreaterTag

-------------------------------------------------------------------------------
\* Where an update comes from

\* Only Pull makes a package ready to be activated, from a host it resolved to.
LEMMA ReadyIsPulled ==
  ASSUME TypeInv, NEW p \in Procs, StepOf(p), pc'[p] = "activate"
  PROVE  job'[p].from \in InstallHosts(job'[p].reg)
<1>1. CommandType
  BY TypeParts
<1>2. CASE Pull(p)
  <2>1. CASE NextApply(p, job[p].name)
    <3>1. job[p].name \in Names
      BY <1>1 DEF CommandType, Job
    <3> QED BY <1>1, <2>1, <3>1, NextApplyKeeps
  <2>2. CASE \E h \in InstallHosts(job[p].reg), d \in Manifests :
               job' = [job EXCEPT ![p] = PulledJob(p, h, d)]
    BY <1>1, <2>2 DEF CommandType, PulledJob, Job
  <2> QED BY <1>2, <2>1, <2>2, PullNotes
<1>3. CASE Activate(p)
  <2>1. job[p].name \in Names /\ NextApply(p, job[p].name)
    BY <1>1, <1>3 DEF CommandType, Job, Activate
  <2> QED BY <1>1, <2>1, NextApplyKeeps
<1>4. CASE ApplyUpdate(p)
  <2>1. PICK n \in todo[p] : Goto(p, "pull") \/ NextApply(p, n)
    BY <1>4 DEF ApplyUpdate
  <2>2. n \in Names
    BY <1>1 DEF CommandType
  <2> QED BY <1>1, <2>1, <2>2, NextApplyKeeps DEF Goto, CommandType
<1>5. CASE LookupDigest(p) \/ ListTags(p)
  BY <1>1, <1>5 DEF LookupDigest, ListTags, NextCheck, Goto, CommandType
<1>6. CASE CheckUpdates(p) \/ CheckUpdate(p) \/ Decline(p) \/ Confirm(p)
  BY <1>1, <1>6 DEF CheckUpdates, CheckUpdate, BeginCheck, Decline, Return, Confirm, Goto,
                    CommandType
<1> QED BY <1>2, <1>3, <1>4, <1>5, <1>6 DEF StepOf

LEMMA InstalledStep ==
  ASSUME NamesAgree, TypeInv, SourceInv, [Next]_vars, NEW n \in Names, installed'[n] # Absent
  PROVE  installed'[n].from \in InstallHosts(installed'[n].reg)
<1>1. WorldType /\ CommandType
  BY TypeParts
<1>2. ASSUME installed'[n] = installed[n]
      PROVE  installed'[n].from \in InstallHosts(installed'[n].reg)
  BY <1>2 DEF SourceInv, Installed
<1>3. ASSUME NEW p \in Procs, Activate(p)
      PROVE  installed'[n].from \in InstallHosts(installed'[n].reg)
  <2>1. CASE n = job[p].name
    BY <1>1, <1>3, <2>1 DEF Activate, SourceInv, WorldType
  <2>2. CASE n # job[p].name
    BY <1>1, <1>2, <1>3, <2>2 DEF Activate, WorldType
  <2> QED BY <2>1, <2>2
<1>4. ASSUME NEW k \in Names, InstallPackage(k)
      PROVE  installed'[n].from \in InstallHosts(installed'[n].reg)
  <2>1. PICK m \in PackageMetadata : /\ installed' = [installed EXCEPT ![k] = m]
                                     /\ m.from \in InstallHosts(m.reg)
    BY <1>4, InstallPackageNotes
  <2>2. CASE n = k
    BY <1>1, <2>1, <2>2 DEF WorldType
  <2>3. CASE n # k
    BY <1>1, <1>2, <2>1, <2>3 DEF WorldType
  <2> QED BY <2>2, <2>3
<1>5. ASSUME NEW k \in Names, RemovePackage(k)
      PROVE  installed'[n].from \in InstallHosts(installed'[n].reg)
  <2>1. installed'[n] = installed[n]
    BY <1>1, <1>5 DEF RemovePackage, WorldType
  <2> QED BY <1>2, <2>1
<1>6. \/ UNCHANGED installed
      \/ \E p \in Procs : Activate(p)
      \/ \E k \in Names : InstallPackage(k) \/ RemovePackage(k)
  BY DEF Next, vars, CheckUpdates, CheckUpdate, BeginCheck, LookupDigest, ListTags,
         Decline, Confirm, ApplyUpdate, Pull, Push, Toggle
<1> QED BY <1>2, <1>3, <1>4, <1>5, <1>6

LEMMA SourceInvInductive ==
  ASSUME NamesAgree
  PROVE  /\ Init => SourceInv
         /\ TypeInv /\ SourceInv /\ [Next]_vars => SourceInv'
<1>1. Init => SourceInv
  BY DEF Init, SourceInv, Installed
<1>2. ASSUME TypeInv, SourceInv, [Next]_vars PROVE SourceInv'
  <2>1. \A n \in Installed' : installed'[n].from \in InstallHosts(installed'[n].reg)
    BY <1>2, InstalledStep DEF Installed
  <2>2. ASSUME NEW q \in Procs, pc'[q] = "activate"
        PROVE  job'[q].from \in InstallHosts(job'[q].reg)
    <3>1. ASSUME Kept(q) PROVE job'[q].from \in InstallHosts(job'[q].reg)
      BY <1>2, <2>2, <3>1 DEF Kept, SourceInv
    <3>2. CASE UNCHANGED <<pc, todo, infos, job>>
      BY <3>1, <3>2 DEF Kept
    <3>3. ASSUME NEW p \in Procs, StepOf(p) PROVE job'[q].from \in InstallHosts(job'[q].reg)
      <4>1. CASE p = q
        BY <1>2, <2>2, <3>3, <4>1, ReadyIsPulled
      <4>2. CASE p # q
        BY <1>2, <3>1, <3>3, <4>2, OthersKept
      <4> QED BY <4>1, <4>2
    <3> QED BY <1>2, <3>2, <3>3, StepCases
  <2> QED BY <2>1, <2>2 DEF SourceInv, InstallHosts, Installed
<1> QED BY <1>1, <1>2

\* An update comes from where the package came from: unless the configuration
\* gives a host-shaped registry name another host, the host that served the
\* installed image is the one the check asks and the new image is pulled from
\* (checkOne and ApplyUpdate, each with its own way from name to host).
THEOREM UpdatesFromSourceCorrect ==
  ASSUME NamesAgree
  PROVE  Spec => UpdatesFromSource
<1>1. TypeInv /\ JobInv /\ SourceInv /\ [Next]_vars =>
        [\A p \in Procs, n \in Names : Updates(p, n) /\ Undisturbed(p, n) =>
          /\ installed'[n].from = installed[n].from
          /\ CheckHosts(installed'[n].reg) = {installed'[n].from}]_vars
  <2> SUFFICES ASSUME TypeInv, JobInv, SourceInv, [Next]_vars,
                      NEW p \in Procs, NEW n \in Names,
                      Updates(p, n), Undisturbed(p, n)
               PROVE  /\ installed'[n].from = installed[n].from
                      /\ CheckHosts(installed'[n].reg) = {installed'[n].from}
    OBVIOUS
  <2>1. /\ n \in Installed /\ installed[n] \in PackageMetadata /\ pc[p] = "activate"
        /\ job[p].reg = installed[n].reg
        /\ installed'[n] = [reg |-> job[p].reg, tag |-> job[p].tag,
                            dig |-> job[p].dig, from |-> job[p].from]
    BY UpdateOfScan
  <2>2. installed'[n].from = job[p].from /\ installed'[n].reg = installed[n].reg
    BY <2>1
  <2>3. /\ installed[n].from \in InstallHosts(installed[n].reg)
        /\ job[p].from \in InstallHosts(installed[n].reg)
    BY <2>1 DEF SourceInv
  <2>4. installed[n].reg \in RegNames
    BY <2>1 DEF PackageMetadata
  <2>5. /\ CheckHosts(installed[n].reg) = InstallHosts(installed[n].reg)
        /\ \E h \in Hosts : InstallHosts(installed[n].reg) = {h}
    BY <2>4, SameHosts
  <2> QED BY <2>2, <2>3, <2>5
<1> QED BY <1>1, InitType, TypeStep, JobInvInductive, SourceInvInductive,
           PTL DEF Spec, UpdatesFromSource

-------------------------------------------------------------------------------
\* What an applied update leaves to announce

\* After a move to the last of the newer tags nothing newer is left: what comes
\* after it comes after the tag before, and the sibling builds of that do not.
LEMMA NothingNewer ==
  ASSUME NEW t \in Tags, NEW T \in SUBSET Tags, newerTagsThan(t, T) # {}
  PROVE  newerTagsThan(Max(newerTagsThan(t, T)), T) = {}
<1> DEFINE N == newerTagsThan(t, T)
           u == Max(N)
<1>1. N \subseteq T /\ N \in SUBSET Tags /\ N # {}
  BY NewerTags
<1>2. u \in N /\ \A s \in N : s <= u
  <2> HIDE DEF N
  <2> QED BY <1>1, MaxOf
<1>3. u \in Tags /\ u > t /\ <<t, u>> \notin Variants
  BY <1>1, <1>2 DEF newerTagsThan
<1> SUFFICES ASSUME NEW x \in newerTagsThan(u, T) PROVE FALSE
  OBVIOUS
<1>4. x \in T \ (Floating \cup Sidecar) /\ x > u
  BY DEF newerTagsThan
<1>5. t \in Nat /\ u \in Nat /\ x \in Nat
  BY <1>3, <1>4, UpdateAssumption
<1>6. x > t
  <2> HIDE DEF N, u
  <2> QED BY <1>3, <1>4, <1>5
<1>7. x \notin N
  <2>1. ~(x <= u)
    <3> HIDE DEF N, u
    <3> QED BY <1>4, <1>5
  <2> QED BY <1>2, <2>1
<1>8. <<t, x>> \in Variants
  BY <1>4, <1>6, <1>7 DEF newerTagsThan
<1>9. x < u
  BY <1>3, <1>8, VariantsFollow
<1> HIDE DEF N, u
<1> QED BY <1>4, <1>5, <1>9

\* What a check asks of the only host of a registry.
Answer(m, h, n) ==
    [meta |-> m, current |-> served[h][n][m.tag],
     newer |-> newerTagsThan(m.tag, TagsAt(h, n)), unreachable |-> FALSE]

LEMMA CheckNowAnswer ==
  ASSUME NEW n \in Names, NEW h, CheckHosts(installed[n].reg) = {h}
  PROVE  CheckNow(n) = Answer(installed[n], h, n)
BY DEF CheckNow, Answer

LEMMA CheckNowAnswerNext ==
  ASSUME NEW n \in Names, NEW h, NEW m, installed'[n] = m, CheckHosts(m.reg) = {h},
         UNCHANGED served
  PROVE  CheckNow(n)' = Answer(m, h, n)
BY DEF CheckNow, Answer, TagsAt, CheckHosts

\* When upstream serves images and has not moved since the check, applying an
\* update settles what it announced: the package is not announced as rebuilt
\* again, and after a move to a newer tag nothing newer is (newUpdateCommand,
\* checkOne and newerTagsThan compare the same things).
THEOREM UpdateSettlesCorrect ==
  ASSUME NamesAgree, PlainImages
  PROVE  Spec => UpdateSettles
<1>1. TypeInv /\ JobInv /\ SourceInv /\ [Next]_vars =>
        [\A p \in Procs, n \in Names : Updates(p, n) /\ Unmoved(p, n) =>
          LET v == CheckNow(n)' IN
          ~SameTagRebuild(v) /\ (SameTagRebuild(infos[p][n]) \/ v.newer = {})]_vars
  <2> SUFFICES ASSUME TypeInv, JobInv, SourceInv, [Next]_vars,
                      NEW p \in Procs, NEW n \in Names,
                      Updates(p, n), Unmoved(p, n)
               PROVE  /\ ~SameTagRebuild(CheckNow(n)')
                      /\ SameTagRebuild(infos[p][n]) \/ CheckNow(n)'.newer = {}
    OBVIOUS
  <2>1. /\ Undisturbed(p, n) /\ CheckNow(n) = infos[p][n]
        /\ served[job[p].from][n][job[p].tag] # Absent
        /\ HostImage[served[job[p].from][n][job[p].tag]] = job[p].dig
    BY DEF Unmoved
  <2> DEFINE new == [reg |-> job[p].reg, tag |-> job[p].tag,
                     dig |-> job[p].dig, from |-> job[p].from]
             u == infos[p][n]
  <2>2. /\ u \in UpdateInfo /\ HasUpdate(u)
        /\ n \in Installed /\ installed[n] \in PackageMetadata
        /\ installed[n] = u.meta /\ job[p].reg = installed[n].reg
        /\ job[p].tag = targetTag(u) /\ job[p] \in Job
        /\ installed'[n] = new /\ pc[p] = "activate"
    BY <2>1, UpdateOfScan
  <2>3. UNCHANGED served
    BY UpdatesIsActivate DEF Activate, upstream
  <2>4. installed[n].reg \in RegNames
    BY <2>2 DEF PackageMetadata
  <2>5. PICK h \in Hosts : CheckHosts(installed[n].reg) = {h} /\ job[p].from = h
    <3>1. job[p].from \in InstallHosts(installed[n].reg)
      BY <2>2 DEF SourceInv
    <3> QED BY <2>4, <3>1, SameHosts
  <2>6. new.reg = installed[n].reg /\ new.tag = job[p].tag /\ new.dig = job[p].dig
    BY <2>2
  <2> HIDE DEF new
  <2>7. u = Answer(installed[n], h, n)
    BY <2>1, <2>5, CheckNowAnswer
  <2>8. CheckNow(n)' = Answer(new, h, n)
    BY <2>2, <2>3, <2>5, <2>6, CheckNowAnswerNext
  <2>9. u.newer = newerTagsThan(u.meta.tag, TagsAt(h, n))
    BY <2>2, <2>7 DEF Answer
  <2>10. /\ CheckNow(n)'.meta = new
         /\ CheckNow(n)'.current = served[h][n][job[p].tag]
         /\ CheckNow(n)'.newer = newerTagsThan(job[p].tag, TagsAt(h, n))
    BY <2>6, <2>8 DEF Answer
  <2>11. ~SameTagRebuild(CheckNow(n)')
    <3>1. served[h][n][job[p].tag] = job[p].dig
      <4>1. WorldType
        BY TypeParts
      <4>2. served[h][n][job[p].tag] \in Manifests
        BY <2>1, <2>2, <2>5, <4>1 DEF WorldType, Job
      <4>3. HostImage[served[h][n][job[p].tag]] = job[p].dig /\ job[p].dig \in Manifests
        BY <2>1, <2>2, <2>5 DEF Job
      <4> QED BY <4>2, <4>3, UpdateAssumption DEF PlainImages
    <3> QED BY <2>6, <2>10, <3>1 DEF SameTagRebuild
  <2>12. ASSUME ~SameTagRebuild(u) PROVE CheckNow(n)'.newer = {}
    <3>1. u.newer # {} /\ job[p].tag = Max(u.newer)
      BY <2>2, <2>12 DEF HasUpdate, targetTag
    <3>2. u.meta.tag \in Tags /\ TagsAt(h, n) \in SUBSET Tags
      BY <2>2 DEF UpdateInfo, PackageMetadata, TagsAt
    <3>3. newerTagsThan(Max(newerTagsThan(u.meta.tag, TagsAt(h, n))), TagsAt(h, n)) = {}
      BY <2>9, <3>1, <3>2, NothingNewer
    <3> QED BY <2>9, <2>10, <3>1, <3>3
  <2> QED BY <2>11, <2>12
<1> QED BY <1>1, InitType, TypeStep, JobInvInductive, SourceInvInductive,
           PTL DEF Spec, UpdateSettles
===============================================================================
