----------------------------- MODULE PackageStore -----------------------------
(***************************************************************************)
(* The on-disk package store (~/.dropzone/packages and ~/.dropzone/bin)    *)
(* and the dz commands that change it: install, update, remove, rollback   *)
(* and doctor --fix.  Every command is a process that walks through the    *)
(* file system calls of the code one at a time, so that a crash can fall   *)
(* between any two of them and two dz processes can interleave: the code   *)
(* takes no lock across processes (localstore.go:72).                      *)
(*                                                                         *)
(* Steps that only read the network, or write only the private staging     *)
(* directory, are folded into the first durable step of the command.       *)
(***************************************************************************)
EXTENDS Naturals, FiniteSets

CONSTANTS
    Procs,             \* dz processes that may run at the same time
    Names,             \* package names (basename of the image path)
    Digests,           \* platform digests, one digest directory each
    Registries,        \* registries an image can be resolved to
    PolicyRegistries,  \* the registries configured with a cosign policy
    Passes,            \* <<r, d>>: d's bundle is found at r and verifies
    LaunchPath,        \* loader and entrypoint a wrapper built for d bakes in
    Fetches,           \* Fetches[p]: the digests p's refs can resolve to
    AllowOptions,      \* values --allow-unsigned takes on the command line
    Commands,          \* which commands this instance runs
    ReinstallCurrent,  \* may the digest being installed be the active one
    UserWaits,         \* does the user leave bin/ alone while a command runs
    NoLink, NoFile, EmptyFile, ForeignFile,
    MaxInstalls,       \* bound: no install starts after this many timestamps
    MaxFaults          \* bound: crashes or failed system calls

CommandNames == {"install", "update", "remove", "rollback", "doctor"}

ASSUME ConstantsAssumption ==
    /\ Names # {} /\ Digests # {} /\ Registries # {}
    /\ PolicyRegistries \subseteq Registries
    /\ Passes \subseteq Registries \X Digests
    /\ Fetches \in [Procs -> SUBSET Digests]
    /\ AllowOptions \subseteq BOOLEAN
    /\ Commands \subseteq CommandNames
    /\ ReinstallCurrent \in BOOLEAN /\ UserWaits \in BOOLEAN
    /\ MaxInstalls \in Nat /\ MaxFaults \in Nat
    /\ NoLink \notin Digests
    /\ {NoFile, EmptyFile, ForeignFile} \cap Digests = {}
    /\ NoFile # EmptyFile /\ NoFile # ForeignFile /\ EmptyFile # ForeignFile

VARIABLES
    pkgDir,   \* names with a packages/<name> directory
    dir,      \* dir[n][d]: the digest directory packages/<n>/<d>
    link,     \* link[n]: target of packages/<n>/current
    tmp,      \* tmp[n]: target of packages/<n>/current.new
    wrapper,  \* wrapper[n]: bin/<n>; a digest stands for a marked wrapper
    pc,       \* pc[p]: the next call of process p
    job,      \* job[p]: what the running command of p works on
    report,   \* report[p]: the DoctorReport p holds in memory
    clock,    \* time.Now, as a count of the timestamps taken
    faults

store == <<pkgDir, dir, link, tmp, wrapper>>
vars  == <<pkgDir, dir, link, tmp, wrapper, pc, job, report, clock, faults>>

-------------------------------------------------------------------------------
\* Types

Rootfs == {"none", "partial", "full"}

\* metadata.json: absent, truncated mid-write, or a complete record.
Metadata == [state: {"none", "torn", "ok"}, at: Nat, verified: BOOLEAN,
             reg: Registries]

DigestDir == [made: BOOLEAN, rootfs: Rootfs, meta: Metadata]

Wrappers == Digests \cup {NoFile, EmptyFile, ForeignFile}

Jobs == [cmd: CommandNames, name: Names, dig: Digests, reg: Registries,
         verified: BOOLEAN, at: Nat]

Reports == [broken: SUBSET Names, orphans: SUBSET Names]

PCs == {"idle",
        "parent", "clean", "mkdir", "move", "copying", "stamp", "writeMeta",
        "stat", "symlink", "rename", "dropTmp",
        "wrapCheck", "wrapTruncate", "wrapWrite",
        "unshimRead", "unshimRemove", "wipe",
        "scanBin", "fixWrappers", "fixLinks"}

AnyReg   == CHOOSE r \in Registries : TRUE
NoMeta   == [state |-> "none", at |-> 0, verified |-> FALSE, reg |-> AnyReg]
NoDir    == [made |-> FALSE, rootfs |-> "none", meta |-> NoMeta]
NoReport == [broken |-> {}, orphans |-> {}]
\* The job of an idle process; nothing reads it.
NoJob    == [cmd |-> "install", name |-> CHOOSE n \in Names : TRUE,
             dig |-> CHOOSE d \in Digests : TRUE, reg |-> AnyReg,
             verified |-> FALSE, at |-> 0]

TypeOK ==
    /\ pkgDir \in SUBSET Names
    /\ dir \in [Names -> [Digests -> DigestDir]]
    /\ link \in [Names -> Digests \cup {NoLink}]
    /\ tmp \in [Names -> Digests \cup {NoLink}]
    /\ wrapper \in [Names -> Wrappers]
    /\ pc \in [Procs -> PCs]
    /\ job \in [Procs -> Jobs]
    /\ report \in [Procs -> Reports]
    /\ clock \in Nat
    /\ faults \in Nat

-------------------------------------------------------------------------------
\* What the code reads

\* Mutant: a bundle is fetched but the verifier's error is dropped.
verifyImageUnchecked(r, d, allow) ==
    {v \in BOOLEAN :
        \/ r \in PolicyRegistries /\ v
        \/ r \notin PolicyRegistries /\ allow /\ ~v}

\* Mutant: a verification that fails falls through to --allow-unsigned.
verifyImageFallsThrough(r, d, allow) ==
    {v \in BOOLEAN :
        \/ r \in PolicyRegistries /\ <<r, d>> \in Passes /\ v
        \/ allow /\ ~v}

\* verifyImage: the outcomes (signature verified or not) that let an install
\* of d from r go on.  A registry with a policy never falls back to the flag.
verifyImage(r, d, allow) ==
    {v \in BOOLEAN :
        \/ r \in PolicyRegistries /\ <<r, d>> \in Passes /\ v
        \/ r \notin PolicyRegistries /\ allow /\ ~v}

\* Mutant: any file at the path counts as ours.
anyFileIsOurs(f) == f # NoFile

\* isDropzoneWrapper: the marker is written with the rest of the content, so
\* a file that was only truncated does not have it.
isDropzoneWrapper(f) == f \in Digests

\* os.Stat(packages/<n>/<d>)
Exists(n, d) == d \in Digests /\ dir[n][d].made

\* GetMetadataForDigestDir succeeds
Readable(n, d) == Exists(n, d) /\ dir[n][d].meta.state = "ok"

\* GetMetadata succeeds: current exists and its metadata.json parses
Installed(n) == link[n] # NoLink /\ Readable(n, link[n])

\* Every name under packages/<n>: what RemoveAll has to delete.
Entries(n) == {d \in Digests : dir[n][d].made}

-------------------------------------------------------------------------------
\* How a process moves on

Goto(p, l)  == pc' = [pc EXCEPT ![p] = l]
Begin(p, l, j) ==
    /\ Goto(p, l)
    /\ job' = [job EXCEPT ![p] = j]
    /\ UNCHANGED report
Step(p, l)  == Goto(p, l) /\ UNCHANGED <<job, report>>
Return(p)   ==
    /\ Goto(p, "idle")
    /\ job' = [job EXCEPT ![p] = NoJob]
    /\ report' = [report EXCEPT ![p] = NoReport]

Init ==
    /\ pkgDir = {}
    /\ dir = [n \in Names |-> [d \in Digests |-> NoDir]]
    /\ link = [n \in Names |-> NoLink]
    /\ tmp = [n \in Names |-> NoLink]
    /\ wrapper = [n \in Names |-> NoFile]
    /\ pc = [p \in Procs |-> "idle"]
    /\ job = [p \in Procs |-> NoJob]
    /\ report = [p \in Procs |-> NoReport]
    /\ clock = 1
    /\ faults = 0

-------------------------------------------------------------------------------
\* install and update: InstallPackage, shim.Build, StoreMetadata

\* Resolve, Pull into staging, verifyImage.  A refusal changes nothing and is
\* the stuttering step.  The Build calls that only read staging (entrypoint,
\* loader, wrapper text) are here too.
InstallPackage(p, cmd, n, d, r, allow) ==
    /\ pc[p] = "idle"
    /\ clock <= MaxInstalls
    /\ d \in Fetches[p]
    /\ ReinstallCurrent \/ link[n] # d
    /\ \E v \in verifyImage(r, d, allow) :
          Begin(p, "parent", [cmd |-> cmd, name |-> n, dig |-> d, reg |-> r,
                              verified |-> v, at |-> 0])
    /\ UNCHANGED <<store, clock, faults>>

StartInstall(p) ==
    /\ "install" \in Commands
    /\ \E n \in Names, d \in Digests, r \in Registries, a \in AllowOptions :
          InstallPackage(p, "install", n, d, r, a)

\* ApplyUpdate re-reads the metadata and installs from the registry it names.
ApplyUpdate(p) ==
    /\ "update" \in Commands
    /\ \E n \in Names, d \in Digests, a \in AllowOptions :
          /\ Installed(n)
          /\ InstallPackage(p, "update", n, d, dir[n][link[n]].meta.reg, a)

\* CreateDirIfNotExist(packages/<name>), then Stat of the digest directory
\* decides whether a stale one has to be removed.
MakeParent(p) ==
    LET n == job[p].name IN
    /\ pc[p] = "parent"
    /\ pkgDir' = pkgDir \cup {n}
    /\ Step(p, IF Exists(n, job[p].dig) THEN "clean" ELSE "mkdir")
    /\ UNCHANGED <<dir, link, tmp, wrapper, clock, faults>>

\* One deletion inside a digest directory.  RemoveAll visits the entries in
\* the order readdir returns them: any order.
Wipe(n, d) ==
    LET at == dir[n][d] IN
    /\ at.made
    /\ \/ at.rootfs = "full"    /\ dir' = [dir EXCEPT ![n][d].rootfs = "partial"]
       \/ at.rootfs = "partial" /\ dir' = [dir EXCEPT ![n][d].rootfs = "none"]
       \/ at.meta # NoMeta      /\ dir' = [dir EXCEPT ![n][d].meta = NoMeta]
       \/ at.rootfs = "none" /\ at.meta = NoMeta
          /\ dir' = [dir EXCEPT ![n][d] = NoDir]

\* Mutant: the whole package directory is cleaned, not the stale digest.
CleanStaleSiblings(p) ==
    LET n == job[p].name IN
    /\ pc[p] = "clean"
    /\ \/ /\ \E e \in Entries(n) : Wipe(n, e)
          /\ UNCHANGED <<pc, job, report>>
       \/ /\ Entries(n) = {}
          /\ Step(p, "mkdir")
          /\ UNCHANGED dir
    /\ UNCHANGED <<pkgDir, link, tmp, wrapper, clock, faults>>

\* os.RemoveAll(packages/<name>/<digest>) and what follows when it is gone.
CleanStale(p) ==
    LET n == job[p].name  d == job[p].dig IN
    /\ pc[p] = "clean"
    /\ \/ /\ Wipe(n, d)
          /\ UNCHANGED <<pc, job, report>>
       \/ /\ ~dir[n][d].made
          /\ Step(p, "mkdir")
          /\ UNCHANGED dir
    /\ UNCHANGED <<pkgDir, link, tmp, wrapper, clock, faults>>

\* os.MkdirAll also brings back the parent if another process removed it.
MakeDigestDir(p) ==
    LET n == job[p].name  d == job[p].dig IN
    /\ pc[p] = "mkdir"
    /\ pkgDir' = pkgDir \cup {n}
    /\ dir' = [dir EXCEPT ![n][d].made = TRUE]
    /\ Step(p, "move")
    /\ UNCHANGED <<link, tmp, wrapper, clock, faults>>

\* os.Rename(staging, rootfs)
MoveRootfs(p) ==
    LET n == job[p].name  d == job[p].dig IN
    /\ pc[p] = "move"
    /\ dir[n][d].made /\ dir[n][d].rootfs = "none"
    /\ dir' = [dir EXCEPT ![n][d].rootfs = "full"]
    /\ Step(p, "stamp")
    /\ UNCHANGED <<pkgDir, link, tmp, wrapper, clock, faults>>

\* Mutant: the error of copyDir is dropped.
CopyRootfsUnchecked(p) ==
    LET n == job[p].name  d == job[p].dig IN
    /\ pc[p] = "move"
    /\ pkgDir' = pkgDir \cup {n}
    /\ dir' = [dir EXCEPT ![n][d].made = TRUE, ![n][d].rootfs = "partial"]
    /\ \E l \in {"copying", "stamp"} : Step(p, l)
    /\ UNCHANGED <<link, tmp, wrapper, clock, faults>>

\* The rename was refused (another mount, a rootfs already there, the digest
\* directory gone): copyDir, which makes the directories it misses.
CopyRootfs(p) ==
    LET n == job[p].name  d == job[p].dig IN
    /\ pc[p] = "move"
    /\ pkgDir' = pkgDir \cup {n}
    /\ dir' = [dir EXCEPT ![n][d].made = TRUE, ![n][d].rootfs = "partial"]
    /\ Step(p, "copying")
    /\ UNCHANGED <<link, tmp, wrapper, clock, faults>>

\* The last file is copied.  If the tree was wiped meanwhile, at most the
\* files copied since are there.
FinishCopy(p) ==
    LET n == job[p].name  d == job[p].dig IN
    /\ pc[p] = "copying"
    /\ \/ /\ dir[n][d].rootfs # "none"
          /\ dir' = [dir EXCEPT ![n][d].rootfs = "full"]
          /\ UNCHANGED pkgDir
       \/ /\ dir[n][d].rootfs = "none"
          /\ pkgDir' = pkgDir \cup {n}
          /\ dir' = [dir EXCEPT ![n][d].made = TRUE, ![n][d].rootfs = "partial"]
       \/ /\ dir[n][d].rootfs = "none"
          /\ UNCHANGED <<pkgDir, dir>>
    /\ Step(p, "stamp")
    /\ UNCHANGED <<link, tmp, wrapper, clock, faults>>

\* InstalledAt is taken; StoreMetadata stats the directory and WriteFile
\* opens metadata.json with O_TRUNC.
StampMetadata(p) ==
    LET n == job[p].name  d == job[p].dig IN
    /\ pc[p] = "stamp"
    /\ clock' = clock + 1
    /\ IF dir[n][d].made
       THEN /\ dir' = [dir EXCEPT ![n][d].meta = [NoMeta EXCEPT !.state = "torn"]]
            /\ Begin(p, "writeMeta", [job[p] EXCEPT !.at = clock])
       ELSE Return(p) /\ UNCHANGED dir
    /\ UNCHANGED <<pkgDir, link, tmp, wrapper, faults>>

\* Mutant: the record is written without its registry.
WriteMetadataNoRegistry(p) ==
    LET n == job[p].name  d == job[p].dig IN
    /\ pc[p] = "writeMeta"
    /\ dir' = [dir EXCEPT ![n][d].meta =
                  [state |-> "ok", at |-> job[p].at, verified |-> job[p].verified]]
    /\ Step(p, "stat")
    /\ UNCHANGED <<pkgDir, link, tmp, wrapper, clock, faults>>

\* Mutant: the error of WriteFile is dropped.
WriteMetadataUnchecked(p) ==
    /\ pc[p] = "writeMeta"
    /\ Step(p, "stat")
    /\ UNCHANGED <<store, clock, faults>>

\* WriteFile writes the content.  A file that was unlinked meanwhile takes
\* the write away with it; one that another process completed meanwhile is
\* overwritten, or left torn when the other record was longer.
WriteMetadata(p) ==
    LET n == job[p].name  d == job[p].dig
        full == [state |-> "ok", at |-> job[p].at,
                 verified |-> job[p].verified, reg |-> job[p].reg]
    IN
    /\ pc[p] = "writeMeta"
    /\ \/ /\ dir[n][d].meta.state # "none"
          /\ dir' = [dir EXCEPT ![n][d].meta = full]
       \/ /\ dir[n][d].meta.state = "ok"
          /\ dir' = [dir EXCEPT ![n][d].meta = [NoMeta EXCEPT !.state = "torn"]]
       \/ /\ dir[n][d].meta.state = "none"
          /\ UNCHANGED dir
    /\ Step(p, "stat")
    /\ UNCHANGED <<pkgDir, link, tmp, wrapper, clock, faults>>

-------------------------------------------------------------------------------
\* SetCurrent, called by install and by rollback

\* Mutant: current itself is removed before the new link is made.
RemoveCurrentFirst(p) ==
    LET n == job[p].name IN
    /\ pc[p] = "stat"
    /\ Exists(n, job[p].dig)
    /\ link' = [link EXCEPT ![n] = NoLink]
    /\ tmp' = [tmp EXCEPT ![n] = NoLink]
    /\ Step(p, "symlink")
    /\ UNCHANGED <<pkgDir, dir, wrapper, clock, faults>>

\* Stat the digest directory, then remove a stale current.new.
RemoveStaleTmp(p) ==
    LET n == job[p].name IN
    /\ pc[p] = "stat"
    /\ IF Exists(n, job[p].dig)
       THEN tmp' = [tmp EXCEPT ![n] = NoLink] /\ Step(p, "symlink")
       ELSE Return(p) /\ UNCHANGED tmp
    /\ UNCHANGED <<pkgDir, dir, link, wrapper, clock, faults>>

\* os.Symlink refuses an existing name, and a missing parent directory.
SymlinkTmp(p) ==
    LET n == job[p].name IN
    /\ pc[p] = "symlink"
    /\ IF n \in pkgDir /\ tmp[n] = NoLink
       THEN tmp' = [tmp EXCEPT ![n] = job[p].dig] /\ Step(p, "rename")
       ELSE Return(p) /\ UNCHANGED tmp
    /\ UNCHANGED <<pkgDir, dir, link, wrapper, clock, faults>>

\* Mutant: a swap that finds no link starts over.
SwapCurrentRetries(p) ==
    LET n == job[p].name IN
    /\ pc[p] = "rename"
    /\ IF tmp[n] # NoLink
       THEN /\ link' = [link EXCEPT ![n] = tmp[n]]
            /\ tmp' = [tmp EXCEPT ![n] = NoLink]
            /\ IF job[p].cmd = "rollback" THEN Return(p) ELSE Step(p, "wrapCheck")
       ELSE Step(p, "stat") /\ UNCHANGED <<link, tmp>>
    /\ UNCHANGED <<pkgDir, dir, wrapper, clock, faults>>

\* os.Rename(current.new, current): whichever link is at current.new now.
SwapCurrent(p) ==
    LET n == job[p].name IN
    /\ pc[p] = "rename"
    /\ IF tmp[n] # NoLink
       THEN /\ link' = [link EXCEPT ![n] = tmp[n]]
            /\ tmp' = [tmp EXCEPT ![n] = NoLink]
            /\ IF job[p].cmd = "rollback" THEN Return(p) ELSE Step(p, "wrapCheck")
       ELSE Step(p, "dropTmp") /\ UNCHANGED <<link, tmp>>
    /\ UNCHANGED <<pkgDir, dir, wrapper, clock, faults>>

\* The rename itself fails.
RenameFails(p) ==
    /\ pc[p] = "rename"
    /\ faults < MaxFaults
    /\ faults' = faults + 1
    /\ Step(p, "dropTmp")
    /\ UNCHANGED <<store, clock>>

\* The rename failed: remove current.new and report the error.
DropTmp(p) ==
    /\ pc[p] = "dropTmp"
    /\ tmp' = [tmp EXCEPT ![job[p].name] = NoLink]
    /\ Return(p)
    /\ UNCHANGED <<pkgDir, dir, link, wrapper, clock, faults>>

-------------------------------------------------------------------------------
\* InstallWrapper

\* Mutant: an existing wrapper is kept.
CheckWrapperKeeps(p) ==
    /\ pc[p] = "wrapCheck"
    /\ IF wrapper[job[p].name] = NoFile
       THEN Step(p, "wrapTruncate")
       ELSE Return(p)
    /\ UNCHANGED <<store, clock, faults>>

\* A file without the marker is refused, after current was flipped.
CheckWrapper(p) ==
    LET f == wrapper[job[p].name] IN
    /\ pc[p] = "wrapCheck"
    /\ IF f = NoFile \/ isDropzoneWrapper(f)
       THEN Step(p, "wrapTruncate")
       ELSE Return(p)
    /\ UNCHANGED <<store, clock, faults>>

\* os.WriteFile opens bin/<name> with O_TRUNC.
TruncateWrapper(p) ==
    /\ pc[p] = "wrapTruncate"
    /\ wrapper' = [wrapper EXCEPT ![job[p].name] = EmptyFile]
    /\ Step(p, "wrapWrite")
    /\ UNCHANGED <<pkgDir, dir, link, tmp, clock, faults>>

\* The content; if the file was unlinked meanwhile it goes nowhere.
WriteWrapper(p) ==
    LET n == job[p].name IN
    /\ pc[p] = "wrapWrite"
    /\ wrapper' = IF wrapper[n] = NoFile THEN wrapper
                  ELSE [wrapper EXCEPT ![n] = job[p].dig]
    /\ Return(p)
    /\ UNCHANGED <<pkgDir, dir, link, tmp, clock, faults>>

-------------------------------------------------------------------------------
\* remove: RemovePackage

\* Mutant: the files go before the wrapper.
StartRemoveFilesFirst(p) ==
    /\ pc[p] = "idle" /\ "remove" \in Commands
    /\ \E n \in Names :
          /\ Installed(n)
          /\ Begin(p, "wipe", [NoJob EXCEPT !.cmd = "remove", !.name = n])
    /\ UNCHANGED <<store, clock, faults>>

\* GetMetadata succeeds, or the command is refused.
StartRemove(p) ==
    /\ pc[p] = "idle" /\ "remove" \in Commands
    /\ \E n \in Names :
          /\ Installed(n)
          /\ Begin(p, "unshimRead", [NoJob EXCEPT !.cmd = "remove", !.name = n])
    /\ UNCHANGED <<store, clock, faults>>

\* RemoveWrapper reads the file first and refuses one without the marker.
ReadWrapper(p) ==
    LET f == wrapper[job[p].name] IN
    /\ pc[p] = "unshimRead"
    /\ IF f = NoFile THEN Step(p, "wipe")
       ELSE IF isDropzoneWrapper(f) THEN Step(p, "unshimRemove")
       ELSE Return(p)
    /\ UNCHANGED <<store, clock, faults>>

\* os.Remove fails if another process has removed it since.
UnlinkWrapper(p) ==
    LET n == job[p].name IN
    /\ pc[p] = "unshimRemove"
    /\ wrapper' = [wrapper EXCEPT ![n] = NoFile]
    /\ IF wrapper[n] = NoFile THEN Return(p) ELSE Step(p, "wipe")
    /\ UNCHANGED <<pkgDir, dir, link, tmp, clock, faults>>

\* os.RemoveAll(packages/<name>), one deletion at a time in any order.
WipePackage(p) ==
    LET n == job[p].name IN
    /\ pc[p] = "wipe"
    /\ \/ /\ \E d \in Entries(n) : Wipe(n, d)
          /\ UNCHANGED <<pkgDir, link, tmp, pc, job, report>>
       \/ /\ link[n] # NoLink
          /\ link' = [link EXCEPT ![n] = NoLink]
          /\ UNCHANGED <<pkgDir, dir, tmp, pc, job, report>>
       \/ /\ tmp[n] # NoLink
          /\ tmp' = [tmp EXCEPT ![n] = NoLink]
          /\ UNCHANGED <<pkgDir, dir, link, pc, job, report>>
       \/ /\ Entries(n) = {} /\ link[n] = NoLink /\ tmp[n] = NoLink
          /\ pkgDir' = pkgDir \ {n}
          /\ Return(p)
          /\ UNCHANGED <<dir, link, tmp>>
    /\ UNCHANGED <<wrapper, clock, faults>>

-------------------------------------------------------------------------------
\* rollback

\* The digest directories of n other than current that have metadata.
Candidates(n) == {d \in Digests : d # link[n] /\ Readable(n, d)}

\* Rollback picks the newest candidate by InstalledAt and flips current to it.
\* Nothing after SetCurrent touches the wrapper.
Rollback(p) ==
    /\ pc[p] = "idle" /\ "rollback" \in Commands
    /\ \E n \in Names : \E d \in Candidates(n) :
          /\ link[n] # NoLink
          /\ \A e \in Candidates(n) : dir[n][e].meta.at <= dir[n][d].meta.at
          /\ Begin(p, "stat", [NoJob EXCEPT !.cmd = "rollback", !.name = n,
                                            !.dig = d])
    /\ UNCHANGED <<store, clock, faults>>

-------------------------------------------------------------------------------
\* doctor --fix

\* Mutant: only the link itself is looked at.
BrokenUnstatted == {n \in pkgDir : link[n] = NoLink}

\* Packages whose current leads nowhere: doctor stats the target.
Broken == {n \in pkgDir : link[n] # NoLink /\ ~Exists(n, link[n])}

\* Packages whose current leads somewhere.
Healthy == {n \in pkgDir : link[n] # NoLink /\ Exists(n, link[n])}

\* Doctor, first half: the packages.  orphans holds the expected wrappers
\* until bin/ is read.
Doctor(p) ==
    /\ pc[p] = "idle" /\ "doctor" \in Commands
    /\ Goto(p, "scanBin")
    /\ job' = [job EXCEPT ![p] = [NoJob EXCEPT !.cmd = "doctor"]]
    /\ report' = [report EXCEPT ![p] = [broken |-> Broken, orphans |-> Healthy]]
    /\ UNCHANGED <<store, clock, faults>>

\* Doctor, second half: files under bin/ no healthy package accounts for.
ScanBin(p) ==
    LET present == {n \in Names : wrapper[n] # NoFile} IN
    /\ pc[p] = "scanBin"
    /\ Goto(p, "fixWrappers")
    /\ report' = [report EXCEPT ![p].orphans = present \ @]
    /\ UNCHANGED <<job, store, clock, faults>>

\* FixDoctor: RemoveWrapper on each orphan, errors ignored.
FixWrappers(p) ==
    /\ pc[p] = "fixWrappers"
    /\ \/ /\ report[p].orphans = {}
          /\ Goto(p, "fixLinks")
          /\ UNCHANGED <<report, wrapper>>
       \/ \E n \in report[p].orphans :
          /\ report' = [report EXCEPT ![p].orphans = @ \ {n}]
          /\ wrapper' = IF isDropzoneWrapper(wrapper[n])
                        THEN [wrapper EXCEPT ![n] = NoFile] ELSE wrapper
          /\ UNCHANGED pc
    /\ UNCHANGED <<job, pkgDir, dir, link, tmp, clock, faults>>

\* FixDoctor: remove each link reported broken, whatever it points at now.
\* The re-scan at the end only prints.
FixLinks(p) ==
    /\ pc[p] = "fixLinks"
    /\ \/ /\ report[p].broken = {}
          /\ Return(p)
          /\ UNCHANGED link
       \/ \E n \in report[p].broken :
          /\ report' = [report EXCEPT ![p].broken = @ \ {n}]
          /\ link' = [link EXCEPT ![n] = NoLink]
          /\ UNCHANGED <<pc, job>>
    /\ UNCHANGED <<pkgDir, dir, tmp, wrapper, clock, faults>>

-------------------------------------------------------------------------------
\* The environment

\* The process is killed, or a call fails and its error is returned: no
\* command undoes what it has already written.
Fault(p) ==
    /\ pc[p] # "idle"
    /\ faults < MaxFaults
    /\ faults' = faults + 1
    /\ Return(p)
    /\ UNCHANGED <<store, clock>>

Quiescent == \A p \in Procs : pc[p] = "idle"

\* The user may put a file of their own at bin/<name>, between commands or, in
\* some instances, at any time (but for a name that a command about to write to
\* it has lost), and between commands delete an unmarked one.
UserFile(n) ==
    /\ \/ /\ wrapper[n] = NoFile
          /\ \/ Quiescent
             \/ ~UserWaits /\ \A p \in Procs : pc[p] = "wrapWrite" => job[p].name # n
          /\ wrapper' = [wrapper EXCEPT ![n] = ForeignFile]
       \/ /\ Quiescent
          /\ wrapper[n] \in {EmptyFile, ForeignFile}
          /\ wrapper' = [wrapper EXCEPT ![n] = NoFile]
    /\ UNCHANGED <<pkgDir, dir, link, tmp, pc, job, report, clock, faults>>

Start(p) ==
    \/ StartInstall(p) \/ ApplyUpdate(p) \/ StartRemove(p)
    \/ Rollback(p) \/ Doctor(p)

Continue(p) ==
    \/ MakeParent(p) \/ CleanStale(p) \/ MakeDigestDir(p)
    \/ MoveRootfs(p) \/ CopyRootfs(p) \/ FinishCopy(p)
    \/ StampMetadata(p) \/ WriteMetadata(p)
    \/ RemoveStaleTmp(p) \/ SymlinkTmp(p) \/ SwapCurrent(p) \/ DropTmp(p)
    \/ CheckWrapper(p) \/ TruncateWrapper(p) \/ WriteWrapper(p)
    \/ ReadWrapper(p) \/ UnlinkWrapper(p) \/ WipePackage(p)
    \/ ScanBin(p) \/ FixWrappers(p) \/ FixLinks(p)

Next ==
    \/ \E p \in Procs : Start(p) \/ Continue(p) \/ RenameFails(p) \/ Fault(p)
    \/ \E n \in Names : UserFile(n)

Spec == Init /\ [][Next]_vars

\* A running dz process is scheduled until it returns.
FairSpec == Spec /\ \A p \in Procs : WF_vars(Continue(p))
-------------------------------------------------------------------------------
\* Properties

\* What an install from r may record for d: with a policy, a signature that
\* verifies; without one, an unsigned install the user asked for.
Trustworthy(r, d, verified) ==
    IF r \in PolicyRegistries
    THEN verified /\ <<r, d>> \in Passes
    ELSE ~verified /\ TRUE \in AllowOptions

Admissible(d) ==
    \E r \in Registries : \E v \in BOOLEAN : Trustworthy(r, d, v)

\* Nothing that failed verification is ever on disk as files, metadata, an
\* active version or a command, and the metadata of every directory tells the
\* truth about the verification, whatever interleaves or crashes
\* (verifyImage is the gate before InstallPackage writes anything).
StoreTrusted ==
    \A n \in Names :
        /\ \A d \in Digests :
              /\ dir[n][d].rootfs # "none" => Admissible(d)
              /\ dir[n][d].meta.state = "ok" =>
                    Trustworthy(dir[n][d].meta.reg, d, dir[n][d].meta.verified)
        /\ link[n] # NoLink => Admissible(link[n])
        /\ isDropzoneWrapper(wrapper[n]) => Admissible(wrapper[n])

\* What makes StoreTrusted inductive: whatever a command in flight is about to
\* write has passed verification too, and so has a link left at current.new.
BuildPCs    == {"parent", "clean", "mkdir", "move", "copying", "stamp", "writeMeta"}
ActivatePCs == {"stat", "symlink", "rename", "dropTmp",
                "wrapCheck", "wrapTruncate", "wrapWrite"}
JobsTrusted ==
    \A p \in Procs :
        /\ pc[p] \in BuildPCs =>
              Trustworthy(job[p].reg, job[p].dig, job[p].verified)
        /\ pc[p] \in ActivatePCs => Admissible(job[p].dig)
TmpTrusted == \A n \in Names : tmp[n] # NoLink => Admissible(tmp[n])

\* Verification gates the whole life of a digest: StoreTrusted and what the
\* running commands hold.
TrustInv == StoreTrusted /\ JobsTrusted /\ TmpTrusted

Complete(n, d) == Readable(n, d) /\ dir[n][d].rootfs = "full"

\* While nothing is removed, current never leads to a directory that is not
\* wholly there, at any moment of an install or update (SetCurrent comes last
\* in InstallPackage and flips by rename).
CurrentComplete ==
    \A n \in Names : link[n] # NoLink => Complete(n, link[n])

\* The files a running command is using do not change under it: an install
\* of another digest never writes into the active directory.
ActiveImmutable ==
    [][\A n \in Names, d \in Digests :
          link[n] = d /\ link'[n] = d => dir'[n][d] = dir[n][d]]_vars

\* A wrapper with the marker can be run: current leads to a whole rootfs
\* (remove takes the wrapper away first, install writes it last).
RunnableShim ==
    \A n \in Names : isDropzoneWrapper(wrapper[n]) =>
        link[n] # NoLink /\ dir[n][link[n]].rootfs = "full"

\* Unless a command was cut short, a wrapper launches the version that is
\* current whenever no command is running (InstallWrapper comes after
\* SetCurrent and writes what Build baked in).
WrapperMatchesCurrent ==
    Quiescent /\ faults = 0 => \A n \in Names :
        isDropzoneWrapper(wrapper[n]) /\ link[n] # NoLink =>
            LaunchPath[wrapper[n]] = LaunchPath[link[n]]

\* dz never overwrites or deletes a file of the user under bin/, although
\* InstallWrapper and RemoveWrapper check and act in two steps: if it was there
\* before the command.  One that comes between the two steps is lost, whatever
\* DESIGN.md:151 says ("never touched").
KeepsForeign ==
    \A n \in Names :
        wrapper[n] = ForeignFile /\ ~Quiescent => wrapper'[n] = ForeignFile
ForeignFilesKept == [][KeepsForeign]_vars

\* What makes it inductive (PackageStoreProofs proves both): a process past its
\* marker check does not have a user's file in front of it.
PastMarkerCheck ==
    \A p \in Procs : pc[p] \in {"wrapTruncate", "wrapWrite", "unshimRemove"} =>
        wrapper[job[p].name] # ForeignFile

\* When doctor --fix returns, no current link dangles and no marked wrapper is
\* left without a package behind it (FixDoctor).
LeavesRepaired ==
    \A p \in Procs :
        pc[p] = "fixLinks" /\ pc'[p] = "idle" /\ faults' = faults =>
            \A n \in Names :
               /\ n \in pkgDir' /\ link'[n] # NoLink => dir'[n][link'[n]].made
               /\ isDropzoneWrapper(wrapper'[n]) => link'[n] # NoLink
DoctorRepairs == [][LeavesRepaired]_vars

\* Every command returns: no step of one process waits for another
\* (SetCurrent and RemoveAll fail instead).
CommandsReturn ==
    \A p \in Procs : (pc[p] # "idle") ~> (pc[p] = "idle")
-------------------------------------------------------------------------------
\* What the comments and docs say, for the run that refutes it

\* "partial state here means nothing was ever flipped into current": the
\* directory Build is about to delete is not the active one (build.go:107).
BuildSparesCurrent ==
    \A p \in Procs : pc[p] \in {"clean", "mkdir"} =>
        link[job[p].name] # job[p].dig
===============================================================================
