---------------------------- MODULE EntrypointPath ----------------------------
(***************************************************************************)
(* Build of internal/shim up to the move: the entrypoint of a staged image *)
(* is resolved through its symbolic links, its format is checked, the      *)
(* loader it names is looked up, and the wrapper that will run both is     *)
(* written.                                                                *)
(*                                                                         *)
(* The code follows the links of the entrypoint itself, by the text of the *)
(* paths, with the image as the root; whatever else it asks (Lstat, Open,  *)
(* Stat) the operating system answers, which follows linked directories    *)
(* and absolute targets from the root of the host.  A container would      *)
(* resolve every link with the image as its root.  Walk gives the last     *)
(* two answers, so that they can be compared with the first.               *)
(*                                                                         *)
(* A path is a sequence of names below some root.  No name of an image     *)
(* starts with two dots, and an entrypoint and a loader are paths without  *)
(* "..".                                                                   *)
(***************************************************************************)
EXTENDS Integers, SequencesExt

CONSTANTS Images,       \* the root file systems: functions from paths to nodes
          Entrypoints,  \* Entrypoint[0] of their configurations, as paths
          HostDirs,     \* the directories of the host
          HostFiles,    \* where the host may have a file
          Staging,      \* where Pull unpacks an image
          Package,      \* packages/<name>/<digest>/rootfs
          HostOS, HostArch,
          MaxHops,      \* maxSymlinkHops (10)
          MaxLinks,     \* how many links the operating system follows (40)
          None

Directory == [kind |-> "dir"]
HostFile  == [kind |-> "file", format |-> "host", arch |-> HostArch, interp |-> None]

ASSUME PathAssumption ==
    /\ MaxHops \in Nat \ {0} /\ MaxLinks \in Nat /\ MaxHops <= MaxLinks
    /\ HostOS \in {"linux", "darwin"}
    /\ None \notin Seq(STRING) \cup {Directory, HostFile}
    /\ {Staging, Package} \subseteq Seq(STRING) /\ Staging # Package
    \* Nothing of the host is where an image is put.
    /\ \A p \in HostDirs \cup HostFiles :
          p \in Seq(STRING) /\ ~IsPrefix(Staging, p) /\ ~IsPrefix(Package, p)
    /\ \A e \in Entrypoints : e \in Seq(STRING) /\ \A k \in DOMAIN e : e[k] # ".."
    \* An image is a tree of directories, files and links.
    /\ \A i \in Images :
          /\ DOMAIN i \subseteq Seq(STRING)
          /\ <<>> \in DOMAIN i /\ i[<<>>] = Directory
          /\ \A p \in DOMAIN i :
                /\ i[p] # None /\ \A k \in DOMAIN p : p[k] # ".."
                /\ p # <<>> => Front(p) \in DOMAIN i /\ i[Front(p)] = Directory
                /\ \/ i[p] = Directory
                   \/ i[p].kind = "link" /\ i[p].abs \in BOOLEAN /\ i[p].to \in Seq(STRING)
                   \/ /\ i[p].kind = "file"
                      /\ i[p].interp # None =>
                            /\ i[p].interp \in Seq(STRING)
                            /\ \A k \in DOMAIN i[p].interp : i[p].interp[k] # ".."

VARIABLES image, entry,  \* the staged image and its entrypoint
          host,          \* the files the host has
          root,          \* where the image is: Staging, then Package
          pc, current, hop, info,   \* resolveInsideRootfs
          loader,        \* WrapperInput.LoaderRel; None for a static binary
          outcome,
          straight       \* history: see Straight

vars == <<image, entry, host, root, pc, current, hop, info, loader, outcome, straight>>

Outcomes == {"none", "empty", "missing", "escape", "deep", "notExecutable",
             "wrongOS", "wrongArch", "noLoader", "installed"}
-----------------------------------------------------------------------------
(* The file system, and what the operating system makes of a path.           *)

\* The file system of the host, with the image below root.
Disk ==
    [p \in HostDirs \cup host \cup {root \o q : q \in DOMAIN image} |->
        IF IsPrefix(root, p) THEN image[SubSeq(p, Len(root) + 1, Len(p))]
        ELSE IF p \in HostDirs THEN Directory ELSE HostFile]

\* What a file system has at a path; None if there is nothing.
At(fs, p) == IF p \in DOMAIN fs THEN fs[p] ELSE None

\* Where a walk stands, the names still to go, and how many links it may follow.
Position == [dir: Seq(STRING), rest: Seq(STRING), links: Nat]

\* There is no next name to go to.  With top = None, a walk may not leave the
\* file system: neither by a link from the root nor above the root.
Blocked(fs, top, at) ==
    \/ At(fs, at.dir) # Directory
    \/ Head(at.rest) = ".." /\ at.dir = <<>> /\ top = None
    \/ /\ Head(at.rest) # ".."
       /\ LET n == At(fs, Append(at.dir, Head(at.rest)))
          IN n = None \/ (n.kind = "link" /\ (at.links = 0 \/ (n.abs /\ top = None)))

\* One name further; links from the root start at top, and nothing climbs
\* above top.
Onward(fs, top, at) ==
    IF Head(at.rest) = ".."
    THEN [at EXCEPT !.dir = IF @ = top THEN @ ELSE Front(@), !.rest = Tail(@)]
    ELSE LET p == Append(at.dir, Head(at.rest))
             n == At(fs, p)
         IN IF n.kind = "link"
            THEN [dir |-> IF n.abs THEN top ELSE at.dir, rest |-> n.to \o Tail(at.rest),
                  links |-> at.links - 1]
            ELSE [at EXCEPT !.dir = p, !.rest = Tail(@)]

\* Where a walk leads to, the last name followed too; None if it leads nowhere.
Walks(fs, top) ==
    LET walk[at \in Position] ==
            IF at.rest = <<>> THEN at.dir
            ELSE IF Blocked(fs, top, at) THEN None
            ELSE walk[Onward(fs, top, at)]
    IN walk
Walk(fs, top, dir, rest, budget) ==
    Walks(fs, top)[[dir |-> dir, rest |-> rest, links |-> budget]]

\* What the host finds at a path below the image's directory ...
OnHost(path) == Walk(Disk, <<>>, root, path, MaxLinks)

\* ... what a container finds there, and what is there without absolute links
\* and without leaving the image, as paths of the image.
InContainer(path, budget) == Walk(image, <<>>, <<>>, path, budget)
Relative(path) == Walk(image, None, <<>>, path, MaxLinks)

\* A path of the image as one of the host.
Below(path) == IF path = None THEN None ELSE root \o path

\* os.Lstat: the last name of a path is looked up in the directory dir that
\* the others lead to.
Lstat(path, dir) ==
    IF path = <<>> THEN Directory
    ELSE IF dir = None \/ At(Disk, dir) # Directory THEN None
    ELSE At(Disk, Append(dir, Last(path)))

\* Mutant: paths that are not cleaned.
CleanNothing(path) == path

\* One more name behind a cleaned path: ".." takes the last one back.
CleanName(done, name) ==
    IF name = ".." /\ done # <<>> /\ Last(done) # ".."
    THEN Front(done) ELSE Append(done, name)

\* filepath.Clean, of a path that is not absolute.
Clean(path) == FoldLeft(CleanName, <<>>, path)
-----------------------------------------------------------------------------
(* IdentifyEntrypoint.                                                       *)

Init ==
    /\ image \in Images
    /\ entry \in Entrypoints
    /\ host \in SUBSET HostFiles
    /\ root = Staging
    /\ pc = "resolve"
    /\ current = entry
    /\ hop = 0
    /\ info = None
    /\ loader = None
    /\ outcome = "none"
    /\ straight = TRUE

Refuse(error) ==
    /\ outcome' = error
    /\ pc' = "done"
    /\ UNCHANGED <<image, entry, host, root, current, hop, info, loader>>

EmptyEntrypoint == pc = "resolve" /\ entry = <<>> /\ Refuse("empty") /\ UNCHANGED straight

TooDeep == pc = "resolve" /\ hop = MaxHops /\ Refuse("deep") /\ UNCHANGED straight

\* A target that goes back out of no directory it names.
Plain(target) ==
    \A j, k \in DOMAIN target : target[k] = ".." /\ j <= k => target[j] = ".."

\* History: the directory is where a container finds it, without absolute
\* links; the target of a link is plain, and if it is relative, the directory
\* is also where the text of the path says.
Straight(dir, n) ==
    \/ current = <<>>
    \/ /\ dir = Below(InContainer(Front(current), MaxLinks))
       /\ dir = Below(Relative(Front(current)))
       /\ n # None /\ n.kind = "link" =>
             Plain(n.to) /\ (~n.abs => dir = root \o Front(current))

LstatCurrent ==
    /\ pc = "resolve" /\ entry # <<>> /\ hop < MaxHops
    /\ LET dir == IF current = <<>> THEN None ELSE OnHost(Front(current))
       IN /\ info' = Lstat(current, dir)
          /\ straight' = (straight /\ Straight(dir, info'))
    /\ pc' = "seen"
    /\ UNCHANGED <<image, entry, host, root, current, hop, loader, outcome>>

Missing == pc = "seen" /\ info = None /\ Refuse("missing") /\ UNCHANGED straight

\* Mutant: absolute targets taken from the directory of the link.
TargetFromDirectory(path, n) == Clean(Front(path) \o n.to)

\* The target of a link, by the text of the path it was found under.
Target(path, n) == Clean(IF n.abs THEN n.to ELSE Front(path) \o n.to)

Escapes(path) == path # <<>> /\ Head(path) = ".."

RefuseEscape ==
    /\ pc = "seen" /\ info # None /\ info.kind = "link"
    /\ Escapes(Target(current, info))
    /\ Refuse("escape") /\ UNCHANGED straight

\* Mutant: hops that are not counted.
FollowUncounted ==
    /\ pc = "seen" /\ info # None /\ info.kind = "link"
    /\ ~Escapes(Target(current, info))
    /\ current' = Target(current, info)
    /\ pc' = "resolve"
    /\ UNCHANGED <<image, entry, host, root, hop, info, loader, outcome, straight>>

Follow ==
    /\ pc = "seen" /\ info # None /\ info.kind = "link"
    /\ ~Escapes(Target(current, info))
    /\ current' = Target(current, info)
    /\ hop' = hop + 1
    /\ pc' = "resolve"
    /\ UNCHANGED <<image, entry, host, root, info, loader, outcome, straight>>

\* Not a link: isInside holds, since current does not climb.
Arrive ==
    /\ pc = "seen" /\ info # None /\ info.kind # "link"
    /\ pc' = "check"
    /\ UNCHANGED <<image, entry, host, root, current, hop, info, loader, outcome, straight>>

\* checkExecutable: what is wrong with the file at a path, if anything.
Defect(fs, p) ==
    IF p = None THEN "missing"
    ELSE LET n == At(fs, p)
         IN IF n.kind = "dir" \/ n.format = "script" THEN "notExecutable"
            ELSE IF \/ n.format = "elf" /\ HostOS # "linux"
                    \/ n.format = "mach-o" /\ HostOS # "darwin"
            THEN "wrongOS"
            ELSE IF n.arch # HostArch THEN "wrongArch" ELSE "none"

CheckExecutable ==
    /\ pc = "check"
    /\ LET d == Defect(Disk, OnHost(current))
       IN IF d # "none" THEN Refuse(d) /\ UNCHANGED straight
          ELSE /\ pc' = IF HostOS = "linux" THEN "loader" ELSE "move"
               /\ UNCHANGED <<image, entry, host, root, current, hop, info, loader, outcome, straight>>

\* PT_INTERP of the resolved binary; None if it is static.
Interp == At(Disk, OnHost(current)).interp

\* Mutant: a missing loader silently taken for a static binary.
FindLoaderFallsThrough ==
    /\ pc = "loader"
    /\ loader' = IF OnHost(current) = None \/ (Interp # None /\ OnHost(Interp) = None)
                 THEN None ELSE Interp
    /\ pc' = "move"
    /\ UNCHANGED <<image, entry, host, root, current, hop, info, outcome, straight>>

\* FindLoader: os.Stat follows every link of the loader's path on the host.
FindLoader ==
    /\ pc = "loader"
    /\ IF OnHost(current) = None \/ (Interp # None /\ OnHost(Interp) = None)
       THEN Refuse("noLoader") /\ UNCHANGED straight
       ELSE /\ loader' = Interp
            /\ pc' = "move"
            /\ UNCHANGED <<image, entry, host, root, current, hop, info, outcome, straight>>

\* Build renames the staged image to its place; the wrapper runs loader and
\* current below it.
Move ==
    /\ pc = "move"
    /\ root' = Package
    /\ outcome' = "installed"
    /\ pc' = "done"
    /\ UNCHANGED <<image, entry, host, current, hop, info, loader, straight>>

\* The host installs or removes a file of its own.
HostChanges ==
    /\ \E f \in HostFiles : host' = IF f \in host THEN host \ {f} ELSE host \cup {f}
    /\ UNCHANGED <<image, entry, root, pc, current, hop, info, loader, outcome, straight>>

Build == \/ EmptyEntrypoint \/ TooDeep \/ LstatCurrent \/ Missing \/ RefuseEscape
         \/ Follow \/ Arrive \/ CheckExecutable \/ FindLoader \/ Move

Next == Build \/ HostChanges

Spec == Init /\ [][Next]_vars

\* Build waits for nothing.
FairSpec == Spec /\ WF_vars(Build)
-----------------------------------------------------------------------------
(* Properties.                                                               *)

\* Everything has its type; what is resolved is a cleaned path below the root
\* of the image (resolveInsideRootfs), after at most MaxHops links.
TypeOK ==
    /\ entry \in Entrypoints /\ host \subseteq HostFiles
    /\ root \in {Staging, Package}
    /\ pc \in {"resolve", "seen", "check", "loader", "move", "done"}
    /\ hop \in 0..MaxHops
    /\ \A k \in DOMAIN current : current[k] # ".."
    /\ outcome \in Outcomes
    /\ straight \in BOOLEAN

\* Every link has a plain target, and none above the root of the image.
NoClimb == \A p \in DOMAIN image :
    p # <<>> /\ image[p].kind = "link" =>
        Plain(image[p].to) /\ ~Escapes(Target(p, image[p]))

\* Some link of the image starts at the root.
AbsoluteLinks == \E p \in DOMAIN image : image[p].kind = "link" /\ image[p].abs

\* All the links that Build may follow, of which the operating system follows
\* MaxLinks in each of at most MaxHops paths.
Ample == MaxHops * (MaxLinks + 1)

\* Once Build has installed a package, its wrapper runs, whatever the host
\* installs or removes later, the binary that a container would run and, under
\* Linux, the loader that this binary names, from the same image
\* (IdentifyEntrypoint, FindLoader).  Left out: resolutions that are not
\* straight (an entrypoint below an absolute linked directory, or at a relative
\* link in a linked directory, or a target like link/../x: see Straight), and
\* loaders behind a link that is absolute or climbs above the root.
RunsImage ==
    outcome = "installed" /\ straight =>
        LET binary == InContainer(entry, Ample)
        IN /\ binary # None /\ OnHost(current) = Below(binary)
           /\ HostOS = "linux" => loader = image[binary].interp
           /\ loader # None => IF Relative(loader) # None
                              THEN OnHost(loader) = Below(InContainer(loader, MaxLinks))
                              ELSE AbsoluteLinks \/ ~NoClimb

\* An image that a container would run on this machine, within the limit of
\* links, is not refused for its entrypoint or its loader.  Left out as above,
\* and links that climb above the root, which the code refuses on purpose.
NoSpuriousRefusal ==
    outcome \notin {"none", "installed"} /\ straight /\ NoClimb =>
        LET binary == InContainer(entry, MaxHops - 1)
        IN \/ Defect(image, binary) # "none"
           \/ /\ HostOS = "linux" /\ image[binary].interp # None
              /\ Relative(image[binary].interp) = None

\* Whatever the links are, a cycle included, Build comes to an end.
Terminates == <>(pc = "done")

\* FindLoader: "Confirm the loader actually exists inside the rootfs."  The
\* file found for the loader is a file of the image.
LoaderInRootfs ==
    loader # None /\ OnHost(loader) # None => IsPrefix(root, OnHost(loader))
=============================================================================
