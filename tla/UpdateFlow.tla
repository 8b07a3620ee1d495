------------------------------- MODULE UpdateFlow -------------------------------
(***************************************************************************)
(* dz update: the check of what the source registries serve, the prompt,    *)
(* and the apply that runs the install flow again.  Upstream tags move, and *)
(* other dz commands install and remove, between any two of its reads: the  *)
(* table shown at the prompt is a snapshot.  The file system side of an     *)
(* install is PackageStore's; here it is one step that replaces the         *)
(* metadata, or fails.                                                      *)
(***************************************************************************)
EXTENDS Naturals, FiniteSets

CONSTANTS
    Procs,        \* dz update processes
    Names,        \* packages; each stands for its image path too
    Hosts,        \* where images are served
    Configured,   \* registry names in the configuration
    HostShaped,   \* registry names that contain a dot or a colon
    ConfigUrl,    \* ConfigUrl[r]: the host of a configured registry
    OwnHost,      \* OwnHost[r]: the host a host-shaped name denotes
    Default,      \* the default registry
    Manifests,    \* digests of manifests, indexes included
    HostImage,    \* the manifest for this platform inside an index
    NoMatch,      \* the index has none for this platform
    Tags,         \* ranks in the string order of the tags
    LastTag,      \* the last of them: a registry lists finitely many
    Floating,     \* latest, stable, edge, main, master, dev
    Sidecar,      \* cosign's sha256-<hex>.sig, .att, ...
    Variants,     \* <<t, u>>: tag u is t followed by "-..."
    FirstTag, FirstManifest,  \* what every host serves at first
    Absent,       \* no such tag, not installed
    MaxPushes     \* bound: upstream tag moves

RegNames == Configured \cup HostShaped

ASSUME UpdateAssumption ==
    /\ Names # {} /\ ConfigUrl \in [Configured -> Hosts] /\ Default \in Configured
    /\ OwnHost \in [HostShaped -> Hosts]
    /\ HostImage \in [Manifests -> Manifests \cup {NoMatch}]
    /\ NoMatch \notin Manifests /\ Absent \notin Manifests
    /\ Tags \subseteq Nat /\ LastTag \in Tags /\ (\A t \in Tags : t <= LastTag)
    /\ FirstTag \in Tags /\ FirstManifest \in Manifests
    /\ Floating \subseteq Tags /\ Sidecar \subseteq Tags
    /\ Variants \subseteq Tags \X Tags
    /\ MaxPushes \in Nat

\* No character of a tag sorts before "-", so that the sibling builds of a tag
\* come right after it, before every other tag that follows it.
ASSUME VariantsFollow ==
    \A v \in Variants : /\ v[1] < v[2]
                        /\ \A t \in Tags : t > v[1] /\ <<v[1], t>> \notin Variants
                                            => v[2] < t

VARIABLES
    served,     \* served[h][n][t]: the manifest tag t of image n names at h
    online,     \* hosts that answer
    installed,  \* installed[n]: the metadata of n's current directory, and
                \* as history the host its image was pulled from
    pc, todo,   \* todo[p]: names still to check, or to apply
    infos,      \* infos[p][n]: the UpdateInfo of each n in the scan
    job,        \* job[p]: the install in flight
    pushes

upstream == <<served, online, pushes>>
vars == <<served, online, installed, pc, todo, infos, job, pushes>>

-------------------------------------------------------------------------------
PackageMetadata == [reg: RegNames, tag: Tags, dig: Manifests, from: Hosts]
ASSUME AbsentAssumption == Absent \notin PackageMetadata
UpdateInfo == [meta: PackageMetadata, current: Manifests \cup {Absent},
               newer: SUBSET Tags, unreachable: BOOLEAN]
InfoOf(m) == [meta |-> m, current |-> Absent, newer |-> {}, unreachable |-> FALSE]
NoInfos == [n \in {} |-> Absent]
\* The job of a process that installs nothing; nothing reads it.
NoJob == [name |-> CHOOSE n \in Names : TRUE, reg |-> Default, tag |-> FirstTag,
          dig |-> FirstManifest, from |-> ConfigUrl[Default]]

TypeOK ==
    /\ served \in [Hosts -> [Names -> [Tags -> Manifests \cup {Absent}]]]
    /\ online \subseteq Hosts
    /\ installed \in [Names -> PackageMetadata \cup {Absent}]
    /\ pc \in [Procs -> {"idle", "digest", "tags", "prompt", "apply", "pull", "activate"}]
    /\ todo \in [Procs -> SUBSET Names]
    /\ \A p \in Procs : /\ DOMAIN infos[p] \subseteq Names
                        /\ infos[p] \in [DOMAIN infos[p] -> UpdateInfo]
    /\ job \in [Procs -> [name: Names, reg: RegNames, tag: Tags, dig: Manifests,
                         from: Hosts]]
    /\ pushes \in 0..MaxPushes

Installed == {n \in Names : installed[n] # Absent}

-------------------------------------------------------------------------------
\* What the code computes

SameTagRebuild(u) == u.current # Absent /\ u.current # u.meta.dig
HasUpdate(u) == SameTagRebuild(u) \/ u.newer # {}

Max(S) == CHOOSE t \in S : \A s \in S : s <= t

\* Mutant: sibling builds and signature tags count as newer versions.
newerTagsUnfiltered(current, tags) == {t \in tags \ Floating : t > current}

newerTagsThan(current, tags) ==
    {t \in tags \ (Floating \cup Sidecar) :
        t > current /\ <<current, t>> \notin Variants}

\* Mutant: an info without drift keeps the installed tag.
targetTagStays(u) == u.meta.tag

\* The tag newUpdateCommand asks ApplyUpdate for.
targetTag(u) ==
    IF SameTagRebuild(u) \/ u.newer = {} THEN u.meta.tag ELSE Max(u.newer)

\* checkOne: a configured registry by name, else the host the name denotes,
\* else an error.
CheckHosts(r) ==
    IF r \in Configured THEN {ConfigUrl[r]}
    ELSE IF r \in HostShaped THEN {OwnHost[r]} ELSE {}

\* Mutant: a host-shaped first segment is a path at the default registry.
InstallHostsDefault(r) ==
    IF r \in Configured THEN {ConfigUrl[r]} ELSE {ConfigUrl[Default]}

\* Resolve on "<registry>/<image>:<tag>": a host-shaped first segment denotes
\* its host, any other must be configured.
InstallHosts(r) ==
    IF r \in HostShaped THEN {OwnHost[r]}
    ELSE IF r \in Configured THEN {ConfigUrl[r]} ELSE {}

\* Resolve on what a user types: with no registry it is the default one.
ResolvedRefs ==
    {<<Default, ConfigUrl[Default]>>}
        \cup UNION {{r} \X InstallHosts(r) : r \in RegNames}

TagsAt(h, n) == {t \in Tags : served[h][n][t] # Absent}

Init ==
    /\ served = [h \in Hosts |-> [n \in Names |-> [t \in Tags |->
                    IF t = FirstTag THEN FirstManifest ELSE Absent]]]
    /\ online = Hosts
    /\ installed = [n \in Names |-> Absent]
    /\ pc = [p \in Procs |-> "idle"]
    /\ todo = [p \in Procs |-> {}]
    /\ infos = [p \in Procs |-> NoInfos]
    /\ job = [p \in Procs |-> NoJob]
    /\ pushes = 0

Goto(p, l) == pc' = [pc EXCEPT ![p] = l]
Return(p) ==
    /\ Goto(p, "idle")
    /\ todo' = [todo EXCEPT ![p] = {}]
    /\ infos' = [infos EXCEPT ![p] = NoInfos]
    /\ job' = [job EXCEPT ![p] = NoJob]

-------------------------------------------------------------------------------
\* dz update: the check

\* CheckUpdates lists every installed package, CheckUpdate reads one.  The
\* metadata read here is what checkOne works on.
BeginCheck(p, S) ==
    /\ pc[p] = "idle" /\ S # {}
    /\ Goto(p, "digest")
    /\ todo' = [todo EXCEPT ![p] = S]
    /\ infos' = [infos EXCEPT ![p] = [n \in S |-> InfoOf(installed[n])]]
    /\ UNCHANGED <<upstream, installed, job>>

CheckUpdates(p) == BeginCheck(p, Installed)
CheckUpdate(p)  == \E n \in Installed : BeginCheck(p, {n})

\* The next package, or the table and the prompt.
NextCheck(p, n) ==
    /\ todo' = [todo EXCEPT ![p] = @ \ {n}]
    /\ Goto(p, IF todo[p] = {n} THEN "prompt" ELSE "digest")

\* Mutant: an error of one package ends the scan.
LookupDigestAborts(p) ==
    /\ pc[p] = "digest"
    /\ \E n \in todo[p] :
         LET u == infos[p][n]
             Answer(h) == h \in online /\ served[h][n][u.meta.tag] # Absent
         IN
         \/ \E h \in CheckHosts(u.meta.reg) :
              /\ Answer(h)
              /\ infos' = [infos EXCEPT ![p][n].current = served[h][n][u.meta.tag]]
              /\ Goto(p, "tags")
              /\ UNCHANGED todo
         \/ /\ \A h \in CheckHosts(u.meta.reg) : ~Answer(h)
            /\ Goto(p, "prompt")
            /\ todo' = [todo EXCEPT ![p] = {}]
            /\ UNCHANGED infos
    /\ UNCHANGED <<upstream, installed, job>>

\* checkOne, first half: which digest the installed tag names now.  An error
\* is recorded and ends the check of this package only.
LookupDigest(p) ==
    /\ pc[p] = "digest"
    /\ \E n \in todo[p] :
         LET u == infos[p][n]
             Answer(h) == h \in online /\ served[h][n][u.meta.tag] # Absent
         IN
         \/ \E h \in CheckHosts(u.meta.reg) :
              /\ Answer(h)
              /\ infos' = [infos EXCEPT ![p][n].current = served[h][n][u.meta.tag]]
              /\ Goto(p, "tags")
              /\ UNCHANGED todo
         \/ /\ \A h \in CheckHosts(u.meta.reg) : ~Answer(h)
            /\ infos' = [infos EXCEPT ![p][n].unreachable = TRUE]
            /\ NextCheck(p, n)
    /\ UNCHANGED <<upstream, installed, job>>

\* checkOne, second half: the tag list, a call of its own.  A failure is
\* recorded and leaves the digest found before.
ListTags(p) ==
    /\ pc[p] = "tags"
    /\ \E n \in todo[p] :
         LET u == infos[p][n] IN
         /\ u.current # Absent
         /\ \E h \in CheckHosts(u.meta.reg) :
              infos' = IF h \in online
                       THEN [infos EXCEPT ![p][n].newer =
                                newerTagsThan(u.meta.tag, TagsAt(h, n))]
                       ELSE [infos EXCEPT ![p][n].unreachable = TRUE]
         /\ NextCheck(p, n)
    /\ UNCHANGED <<upstream, installed, job>>

-------------------------------------------------------------------------------
\* dz update: the apply

Applicable(p) == {n \in DOMAIN infos[p] : HasUpdate(infos[p][n])}

\* Nothing to apply, --check, or the user declines.
Decline(p) ==
    /\ pc[p] = "prompt"
    /\ Return(p)
    /\ UNCHANGED <<upstream, installed>>

\* --yes, or the user agrees, however long after the check.
Confirm(p) ==
    /\ pc[p] = "prompt" /\ Applicable(p) # {}
    /\ Goto(p, "apply")
    /\ todo' = [todo EXCEPT ![p] = Applicable(p)]
    /\ UNCHANGED <<upstream, installed, infos, job>>

\* The next package to apply, or the end of the command.
NextApply(p, n) ==
    IF todo[p] = {n} THEN Return(p)
    ELSE /\ todo' = [todo EXCEPT ![p] = @ \ {n}]
         /\ Goto(p, "apply")
         /\ UNCHANGED <<infos, job>>

\* ApplyUpdate reads the metadata again: the registry is the one recorded now,
\* the tag is the one the check chose.  A package removed since is skipped.
ApplyUpdate(p) ==
    /\ pc[p] = "apply"
    /\ \E n \in todo[p] :
         \/ /\ n \in Installed
            /\ job' = [job EXCEPT ![p] = [NoJob EXCEPT !.name = n,
                          !.reg = installed[n].reg, !.tag = targetTag(infos[p][n])]]
            /\ Goto(p, "pull")
            /\ UNCHANGED <<todo, infos>>
         \/ n \notin Installed /\ NextApply(p, n)
    /\ UNCHANGED <<upstream, installed>>

\* Mutant: an index without this platform is not refused.
PullAnyPlatform(p) ==
    LET j == job[p] IN
    /\ pc[p] = "pull"
    /\ \/ \E h \in InstallHosts(j.reg) :
            LET m == served[h][j.name][j.tag] IN
            /\ h \in online /\ m # Absent
            /\ job' = [job EXCEPT ![p].dig = HostImage[m], ![p].from = h]
            /\ Goto(p, "activate")
            /\ UNCHANGED <<todo, infos>>
       \/ NextApply(p, j.name)
    /\ UNCHANGED <<upstream, installed>>

\* Resolve and Pull: the index is resolved to this platform's manifest.
\* Resolving, pulling, verifying and building may all fail: the update of
\* this package is reported as failed and the next one tried.
Pull(p) ==
    LET j == job[p] IN
    /\ pc[p] = "pull"
    /\ \/ \E h \in InstallHosts(j.reg) :
            LET m == served[h][j.name][j.tag] IN
            /\ h \in online /\ m # Absent /\ HostImage[m] # NoMatch
            /\ job' = [job EXCEPT ![p].dig = HostImage[m], ![p].from = h]
            /\ Goto(p, "activate")
            /\ UNCHANGED <<todo, infos>>
       \/ NextApply(p, j.name)
    /\ UNCHANGED <<upstream, installed>>

\* StoreMetadata and SetCurrent.
Activate(p) ==
    LET j == job[p] IN
    /\ pc[p] = "activate"
    /\ installed' = [installed EXCEPT ![j.name] =
                        [reg |-> j.reg, tag |-> j.tag, dig |-> j.dig, from |-> j.from]]
    /\ NextApply(p, j.name)
    /\ UNCHANGED upstream

-------------------------------------------------------------------------------
\* Other dz commands, and the registries

\* dz install of a tag of n from any registry.
InstallPackage(n) ==
    /\ \E ref \in ResolvedRefs, t \in Tags :
         LET h == ref[2]  m == served[h][n][t] IN
         /\ h \in online /\ m # Absent /\ HostImage[m] # NoMatch
         /\ installed' = [installed EXCEPT ![n] = [reg |-> ref[1], tag |-> t,
                              dig |-> HostImage[m], from |-> h]]
    /\ UNCHANGED <<upstream, pc, todo, infos, job>>

RemovePackage(n) ==
    /\ n \in Installed
    /\ installed' = [installed EXCEPT ![n] = Absent]
    /\ UNCHANGED <<upstream, pc, todo, infos, job>>

\* A publisher moves, adds or deletes a tag; a host goes down or comes back.
Push(h, n) ==
    /\ pushes < MaxPushes
    /\ pushes' = pushes + 1
    /\ \E t \in Tags, m \in Manifests \cup {Absent} :
          /\ m # served[h][n][t]
          /\ served' = [served EXCEPT ![h][n][t] = m]
    /\ UNCHANGED <<online, installed, pc, todo, infos, job>>

Toggle(h) ==
    /\ \/ h \notin online /\ online' = online \cup {h} /\ UNCHANGED pushes
       \/ /\ h \in online /\ pushes < MaxPushes
          /\ online' = online \ {h}
          /\ pushes' = pushes + 1
    /\ UNCHANGED <<served, installed, pc, todo, infos, job>>

Next ==
    \/ \E p \in Procs :
        \/ CheckUpdates(p) \/ CheckUpdate(p) \/ LookupDigest(p) \/ ListTags(p)
        \/ Decline(p) \/ Confirm(p)
        \/ ApplyUpdate(p) \/ Pull(p) \/ Activate(p)
    \/ \E n \in Names : InstallPackage(n) \/ RemovePackage(n)
    \/ \E h \in Hosts, n \in Names : Push(h, n)
    \/ \E h \in Hosts : Toggle(h)

Spec == Init /\ [][Next]_vars
-------------------------------------------------------------------------------
\* Properties

\* An update step that makes a package current.
Updates(p, n) == pc[p] = "activate" /\ job[p].name = n /\ pc'[p] # "activate"

\* What a check of n made now would say.
CheckNow(n) ==
    LET m == installed[n]
        h == CHOOSE x \in CheckHosts(m.reg) : TRUE
    IN [meta |-> m, current |-> served[h][n][m.tag],
        newer |-> newerTagsThan(m.tag, TagsAt(h, n)), unreachable |-> FALSE]

\* The metadata of n is what the check read, and what ApplyUpdate read again.
Undisturbed(p, n) ==
    installed[n] = infos[p][n].meta /\ job[p].reg = installed[n].reg

\* Upstream still serves what the check and the pull of n saw.
Unmoved(p, n) ==
    LET m == served[job[p].from][n][job[p].tag] IN
    /\ Undisturbed(p, n) /\ CheckNow(n) = infos[p][n]
    /\ m # Absent /\ HostImage[m] = job[p].dig

\* When upstream has not moved since, applying an update settles what it
\* announced: no rebuild is announced again for the package, and after a move
\* to another tag no tag is announced as newer (the apply loop of newUpdateCommand and
\* checkOne compare the same things).
UpdateSettles ==
    [][\A p \in Procs, n \in Names : Updates(p, n) /\ Unmoved(p, n) =>
          LET v == CheckNow(n)' IN
          ~SameTagRebuild(v) /\ (SameTagRebuild(infos[p][n]) \/ v.newer = {})]_vars

\* An update that changes the tag changes it to a greater STRING, and never to a
\* floating or signature tag or a sibling build, however upstream moves between
\* the check, the prompt and the pull, unless another command has changed the
\* package since (newerTagsThan, and targetTag as newUpdateCommand picks it).
\* A greater string may be an older version: 1.9.0 comes after 1.10.0 (README.md).
MovesToGreaterTag ==
    [][\A p \in Procs, n \in Names : Updates(p, n) /\ Undisturbed(p, n) =>
          LET old == installed[n]  new == installed'[n] IN
          new.tag # old.tag =>
                /\ new.tag > old.tag
                /\ new.tag \notin Floating \cup Sidecar
                /\ <<old.tag, new.tag>> \notin Variants]_vars

\* "one offline registry doesn't hide updates available elsewhere": at the
\* prompt every package of the scan was either looked up or is reported as
\* unreachable (CheckUpdates).
ScanComplete ==
    \A p \in Procs : pc[p] \in {"prompt", "apply"} =>
        \A n \in DOMAIN infos[p] :
            infos[p][n].unreachable \/ infos[p][n].current # Absent

\* An update comes from where the package came from: the host that served the
\* image installed at the check is the host the check asked, and the new image
\* is pulled from it ("Reconstruct the install ref from metadata", ApplyUpdate; "the same
\* way registry.Manager.Resolve does", checkOne).
UpdatesFromSource ==
    [][\A p \in Procs, n \in Names : Updates(p, n) /\ Undisturbed(p, n) =>
          /\ installed'[n].from = installed[n].from
          /\ CheckHosts(installed'[n].reg) = {installed'[n].from}]_vars
-------------------------------------------------------------------------------
\* What the docs say, for the run that refutes it

\* "Same-tag + same-digest: no update": a check reports no rebuild of a package
\* whose installed image is the one its tag still serves (update_flow.md:118).
SameDigestNoUpdate ==
    \A n \in Installed :
        LET v == CheckNow(n) IN
        v.current # Absent /\ HostImage[v.current] = v.meta.dig => ~SameTagRebuild(v)
===============================================================================
