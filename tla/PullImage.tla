------------------------------- MODULE PullImage -------------------------------
(***************************************************************************)
(* Client.Pull: what a tag names is read, the manifest for this platform is *)
(* chosen, and the flattened image is unpacked into a staging directory.    *)
(* The tag may be moved at any time, and any call may fail.  The staging    *)
(* directory is private to the process: unpacking, entry by entry, is one   *)
(* step, and what a failure leaves in it is seen by nobody.                 *)
(*                                                                          *)
(* mutate.Extract flattens the layers: no entry comes twice, and the order  *)
(* is that of the layers and of the tools that made them.  A path is a      *)
(* sequence of names below the staging directory.  Links lead to paths of   *)
(* the image, and no two entries share a place (PlaceIn); modes and         *)
(* owners are left out.                                                     *)
(***************************************************************************)
EXTENDS Integers, SequencesExt, TLC

CONSTANTS
    Images,         \* digests of image manifests
    ContentOf,      \* ContentOf[i]: the entries of image i
    DeclaredOf,     \* DeclaredOf[i]: os/arch in the configuration of image i
    Targets,        \* what a tag may name: an index or an image
    Host,           \* os/arch of this host
    Nowhere,        \* neither a path nor an image
    MaxHops,        \* bound: links followed in a path
    MaxMoves,       \* bound: how often the tag is moved
    MaxBreaks       \* bound: calls that fail in the pull

\* An entry of the tar: a directory, a regular file, a symbolic or a hard link
\* to a path, or a device.
Entry == [type: {"dir", "file", "symlink", "hardlink", "device"},
          path: Seq(STRING), to: Seq(STRING)]

VARIABLES
    served,     \* what the tag names
    step,       \* where Pull is
    image,      \* the manifest it chose
    staging,    \* the staging directory: paths to nodes; Nowhere if none
    named,      \* history: images the tag has named for this host since Pull began
    broken,     \* history: a call of this Pull has failed
    unfit,      \* history: the entries came in an order that cannot be unpacked
    moves, breaks

pullVars == <<served, step, image, staging, named, broken, unfit, moves, breaks>>
-------------------------------------------------------------------------------
\* The file system

Directory == [kind |-> "dir"]
File(data) == [kind |-> "file", data |-> data]
Link(to) == [kind |-> "link", to |-> to]
EmptyStaging == <<>> :> Directory

\* Where a path leads, following every link; Nowhere if a name is missing or a
\* file stands in the way.
Walk(fs, path) ==
    LET walk[at \in Seq(STRING), names \in Seq(STRING), hops \in Nat] ==
            IF names = <<>> THEN at
            ELSE LET p == Append(at, Head(names)) IN
                 IF p \notin DOMAIN fs \/ (fs[p].kind = "file" /\ Len(names) > 1)
                 THEN Nowhere
                 ELSE IF fs[p].kind # "link" THEN walk[p, Tail(names), hops]
                 ELSE IF hops = 0 THEN Nowhere
                 ELSE walk[<<>>, fs[p].to \o Tail(names), hops - 1]
    IN walk[<<>>, path, MaxHops]

IsDir(fs, p) == p # Nowhere /\ fs[p].kind = "dir"

\* os.MkdirAll: the directory a path leads to, made where names are missing,
\* and the file system with it.  A dangling link or a file is an error.
MkdirAll(fs, path) ==
    FoldLeft(LAMBDA s, name :
        LET p == Append(s.dir, name) IN
        IF s.dir = Nowhere THEN s
        ELSE IF p \notin DOMAIN s.fs
        THEN [dir |-> p, fs |-> s.fs @@ (p :> Directory)]
        ELSE [s EXCEPT !.dir = IF IsDir(s.fs, Walk(s.fs, p)) THEN Walk(s.fs, p)
                               ELSE Nowhere],
        [dir |-> <<>>, fs |-> fs], path)

\* os.Remove, its error ignored: a directory with something in it stays.
Unlink(fs, p) ==
    IF p \notin DOMAIN fs \/ \E q \in DOMAIN fs : IsStrictPrefix(p, q) THEN fs
    ELSE [q \in DOMAIN fs \ {p} |-> fs[q]]

\* os.Link and os.Symlink fail on a name that is taken.
Put(fs, p, node) == IF p \in DOMAIN fs THEN Nowhere ELSE fs @@ (p :> node)

\* The entry a hard link is to; links in front of its last name are followed.
Linked(fs, to) ==
    LET dir == Walk(fs, Front(to)) IN
    IF IsDir(fs, dir) /\ Append(dir, Last(to)) \in DOMAIN fs
    THEN fs[Append(dir, Last(to))] ELSE Directory

\* extractTar, one entry: the file system after it, or Nowhere for an error.
ExtractEntry(fs, e) ==
    LET parent == MkdirAll(fs, Front(e.path))
        p == Append(parent.dir, Last(e.path))
        free == Unlink(parent.fs, p)
    IN IF e.type = "device" THEN fs
       ELSE IF e.type = "dir"
       THEN LET made == MkdirAll(fs, e.path) IN
            IF made.dir = Nowhere THEN Nowhere ELSE made.fs
       ELSE IF parent.dir = Nowhere THEN Nowhere
       ELSE CASE e.type = "file" -> (p :> File(e.path)) @@ parent.fs
              [] e.type = "symlink" -> Put(free, p, Link(e.to))
              [] e.type = "hardlink" ->
                   IF Linked(free, e.to) = Directory THEN Nowhere
                   ELSE Put(free, p, Linked(free, e.to))

\* extractTar, up to the end of the stream or the first error.
ExtractTar(entries) ==
    FoldLeft(LAMBDA fs, e : IF fs = Nowhere THEN fs ELSE ExtractEntry(fs, e),
             EmptyStaging, entries)
-------------------------------------------------------------------------------
\* What an image is meant to be on disk

\* Where an entry of image i belongs: below a link it belongs where that leads.
PlaceIn(i, path) ==
    LET above == {e \in ContentOf[i] : e.type = "symlink" /\ IsStrictPrefix(e.path, path)}
    IN IF above = {} THEN path
       ELSE LET e == CHOOSE e \in above : TRUE
            IN e.to \o SubSeq(path, Len(e.path) + 1, Len(path))

\* The tree of image i: every entry but devices in its place, a hard link as
\* another name of the same file, and directories above all of them.
Tree(i) ==
    LET entries == {e \in ContentOf[i] : e.type # "device"}
        at(p) == CHOOSE e \in entries : PlaceIn(i, e.path) = p
        node(e) == CASE e.type = "dir" -> Directory
                     [] e.type = "symlink" -> Link(e.to)
                     [] e.type = "file" -> File(e.path)
                     [] e.type = "hardlink" -> File(at(PlaceIn(i, e.to)).path)
        places == {PlaceIn(i, e.path) : e \in entries}
        paths == UNION {{SubSeq(p, 1, n) : n \in 0..Len(p)} : p \in places}
    IN [p \in paths |-> IF p \in places THEN node(at(p)) ELSE Directory]

\* The orders that can be unpacked: a hard link after the file it is to, a
\* symbolic link before anything below it, and that after the directory the
\* link leads to has been made.
Extractable(i, s) ==
    LET place(k) == PlaceIn(i, s[k].path)
        dir(k) == IF s[k].type = "dir" THEN place(k) ELSE Front(place(k))
        real == {k \in DOMAIN s : s[k].type # "device"}
    IN /\ \A k \in real : s[k].type = "hardlink" =>
             \E j \in real : j < k /\ place(j) = PlaceIn(i, s[k].to)
       /\ \A k, j \in real :
             s[k].type = "symlink" /\ IsStrictPrefix(s[k].path, s[j].path) =>
                /\ k < j
                /\ \E l \in real : l < j /\ l # k /\ IsPrefix(PlaceIn(i, s[k].to), dir(l))

\* What becomes of image i, for every order its entries may come in.
Unpacked == [i \in Images |->
    {[rootfs |-> ExtractTar(s), fit |-> Extractable(i, s)] : s \in SetToSeqs(ContentOf[i])}]
-------------------------------------------------------------------------------
\* Pull

\* resolveImage: of an index the first manifest for this host, whatever its
\* configuration declares; an image must declare it.
ForHost(t) ==
    IF t.kind = "image"
    THEN IF DeclaredOf[t.image] = Host THEN t.image ELSE Nowhere
    ELSE LET i == SelectInSeq(t.entries, LAMBDA m : m.platform = Host) IN
         IF i = 0 THEN Nowhere ELSE t.entries[i].image

\* Tags name images of the registry, and what is unpacked without an error is
\* the image, in whatever order its entries come.
ASSUME PullAssumption ==
    /\ Nowhere \notin Images
    /\ \A t \in Targets : ForHost(t) \in Images \cup {Nowhere}
    /\ \A i \in Images : \A u \in Unpacked[i] : u.rootfs \in {Nowhere, Tree(i)}

PullInit ==
    /\ served \in Targets
    /\ step = "idle" /\ image = Nowhere /\ staging = Nowhere
    /\ named = {} /\ broken = FALSE /\ unfit = FALSE
    /\ moves = 0 /\ breaks = 0

\* MkdirTemp, and Pull is called.
StartPull ==
    /\ step = "idle" /\ step' = "descriptor"
    /\ staging' = EmptyStaging
    /\ named' = {ForHost(served)}
    /\ UNCHANGED <<served, image, broken, unfit, moves, breaks>>

\* The descriptor, with the index or the manifest in it: from here on
\* everything is addressed by digest.  ErrNoMatchingPlatform.
FetchDescriptor ==
    /\ step = "descriptor"
    /\ image' = ForHost(served)
    /\ step' = IF image' = Nowhere THEN "failed" ELSE "extract"
    /\ UNCHANGED <<served, staging, named, broken, unfit, moves, breaks>>

\* extractTar of the flattened layers, then the digest and the configuration.
Extract ==
    /\ step = "extract"
    /\ \E u \in Unpacked[image] :
          IF u.rootfs = Nowhere
          THEN step' = "failed" /\ unfit' = ~u.fit /\ UNCHANGED staging
          ELSE step' = "pulled" /\ staging' = u.rootfs /\ UNCHANGED unfit
    /\ UNCHANGED <<served, image, named, broken, moves, breaks>>

\* Mutant: a layer that breaks off is taken for one that ends.
PullBreaksQuietly ==
    /\ step = "extract"
    /\ breaks < MaxBreaks /\ breaks' = breaks + 1
    /\ step' = "pulled" /\ broken' = TRUE
    /\ UNCHANGED <<served, image, staging, named, unfit, moves>>

\* A call fails: the descriptor, the configuration, a layer that breaks off, a
\* full disk, or an entry that safeJoin refuses.
PullBreaks ==
    /\ step \in {"descriptor", "extract"}
    /\ breaks < MaxBreaks /\ breaks' = breaks + 1
    /\ step' = "failed" /\ broken' = TRUE
    /\ UNCHANGED <<served, image, staging, named, unfit, moves>>

\* InstallPackage returns: defer os.RemoveAll(staging).
ReturnStaging ==
    /\ step' = "idle" /\ image' = Nowhere /\ staging' = Nowhere
    /\ named' = {} /\ broken' = FALSE /\ unfit' = FALSE
    /\ UNCHANGED <<served, moves, breaks>>

\* The registry moves the tag.
MoveTag ==
    /\ moves < MaxMoves /\ moves' = moves + 1
    /\ \E t \in Targets \ {served} :
          /\ served' = t
          /\ named' = IF step = "idle" THEN named ELSE named \cup {ForHost(t)}
    /\ UNCHANGED <<step, image, staging, broken, unfit, breaks>>
-------------------------------------------------------------------------------
\* Whatever the order of the entries and wherever the pull breaks off, an image
\* that is taken for pulled is in the staging directory whole and as its layers
\* describe it; and one is refused only for a call that failed, for its
\* platform, or for an order in which it cannot be unpacked (extractTar).
StagedWhole ==
    /\ step = "pulled" => staging = Tree(image)
    /\ step = "failed" /\ ~broken => image = Nowhere \/ unfit
===============================================================================
