# dropzone in TLA+

dropzone (`dz`) installs command line tools from OCI images: it pulls an image,
verifies its cosign signature, unpacks the root filesystem under
`~/.dropzone/packages/<name>/<digest>/`, flips `packages/<name>/current` to it
and writes a shell wrapper to `~/.dropzone/bin/<name>`. Every `dz` command is
one short-lived process; there is no daemon and no lock between processes. All
state is on disk or in a registry somebody else runs.

That is where the hard part of the program is. A unit test calls one operation
on a fresh directory; the program lives in what remains when the previous
command was killed, when two commands overlap, when a tag moved between two
reads. The modules here model those operations as sequences of file system and
registry calls, with everything that may come between two calls.

## The system's parts

| Part (source) | State | Operations | What is hard | What makes it correct |
|---|---|---|---|---|
| Package store (`localstore`, `packagehandler`, `shim/build.go`, `hostintegration`) | `packages/<n>/<digest>/{rootfs,metadata.json}`, `current`, `current.new`, `bin/<n>` | install, apply update, remove, rollback, doctor --fix | each is 5 to 15 file system calls; crash between any two; two processes share `current.new` | nothing unverified on disk; `current` leads to a whole version; a marked wrapper can be run; a user's file in `bin/` is never touched; doctor repairs |
| Update flow (`packagehandler/update.go`, `app/commands.go`, registry client) | the scan in memory; metadata; upstream tags | check all or one, table and prompt, apply | tags move and other commands install between check, prompt and pull; offline registries | an applied update settles what was announced; never backwards; from the source of the package; one failure hides no other package |
| Configuration and registries (`config`, `registry/manager.go`, `cosign/policy.go`) | `config.yaml`, a copy per process | load with seeding, add, remove, set default | truncate-then-write; two saves per command; back-filling on every load | a policy stored is usable; a signature flag is never dropped; names unique; default configured; packages keep their registry |
| Image verification (`registry/bundle.go`, `cosign/verifier.go`, `legacy.go`, `verifyImage`) | signatures at the registry, the trusted root per process | fetch sidecar or referrers, convert, verify, refuse | four fetch steps against a registry that changes; which failure falls back to what | only a genuine signature of the policy's signer over this digest passes |
| Attestations (`cosign/attestations.go`, `registry/attestations.go`) | none | fetch, decode, summarize SBOM, provenance and scan | any layer may be unreadable or malformed; best effort, must not block | the record shows what could be read, of verified images only; an accepted image gets installed |
| Credentials (`registry/auth.go`, `keychain.go`) | `auth.json` | login, logout, resolve | load, change and write the whole file in place; fallback from repository to host to Docker | a host is sent only what was entered for it; a login lasts until its logout |
| Catalog cache (`registry/cache.go`, `manager.go`) | one JSON file per registry | search, purge | keyed by name, TTL, a reader that deletes what it cannot parse | what is listed was served by that registry within the TTL |
| Shell integration (`hostintegration.go`) | `~/.bashrc` and the like | path setup, path unset | look, then append; read, then write the whole file; the file is the user's and edited meanwhile | the user's text is kept to the byte; what the command reports is so |
| Entrypoint and loader (`shim/entrypoint.go`, `loader.go`, `wrapper.go`) | the staged rootfs | resolve the entrypoint through symlinks, find the loader, write the wrapper | symlink loops, absolute targets | a resolved path is inside the rootfs |
| Pull and extraction (`registry/extract.go`, `client.go`) | the staging directory | choose the manifest of this platform, unpack its flattened tar | order of entries, links; the tag moves; a stream breaks off | what is taken for pulled is the whole tree of the digest that is then verified and recorded |
| Command line (`app`, `cmd`, `util`) | none | parsing, tables, prompts | – | – |

How they interact: `dropzone.Initialize` loads the configuration and builds the
registry manager, credential keychain, store and package handler for one
command. `PackageHandler.InstallPackage` calls the manager (resolve), the
client (pull), the bundle fetcher and verifier (`verifyImage`), the attestation
fetcher, the shim builder, the store (metadata, `current`) and host integration
(wrapper), in this order. `update` calls the client for digests and tags and
then `InstallPackage`. `remove registry` reads the installed packages.
Everything is a synchronous call; the only shared state between processes is
the disk.

## Plan

Done, in this order:

1. `PackageStore`, with its abstract `PackageLifecycle`, the refinement
   (`PackageRefinement`) and the proofs (`PackageStoreProofs`).
2. `UpdateFlow` and `RegistryConfig`: the two flows that decide what the store
   installs and from where (`UpdateFlowProofs`, `RegistryConfigProofs`).
3. `ImageVerification`: what stands behind `Passes` in `PackageStore`.
4. `EntrypointPath`: what the wrapper that `PackageStore` writes will run
   (`EntrypointPathProofs`).
5. `InstallImage`: `PullImage`, `ImageVerification` and `Attestations`
   composed as `InstallPackage` composes them, with the proofs of the gate,
   that the installation implements it and hands over what was verified, and
   that the record shows what could be read (`InstallImageProofs`).
6. `RegistryAccess`: `CredentialStore` and `CatalogCache` under the commands
   that share them (`RegistryAccessProofs`); `ShellRC` (`ShellRCProofs`).

`FoldProofs` is the one module about no component: induction along a
`FoldLeft`, for any operator. Whoever folds takes an instance of it.

Modules compose in two ways. Where the interleaving of two parts matters, one
module extends both and its steps are conjunctions of theirs: `InstallImage`
and `RegistryAccess`. Where it does not, what one module decides is a constant
of the other: `Passes` of `PackageStore` is the outcome of `InstallImage`, its
`LaunchPath` that of `EntrypointPath`; its whole installation is one step
(`Activate`) in `UpdateFlow` and `RegistryConfig`. Every module named `MC...`
gives constants their values and nothing else.

## PackageStore

The state is the disk: `pkgDir` (the package directories), `dir` (digest
directories: made, how much of rootfs is there, metadata.json absent, torn or
whole), `link` and `tmp` (`current`, `current.new`), `wrapper` (`bin/<n>`:
absent, empty, a user's file, or a marked wrapper for a digest). Each process
has a program counter, the job it works on and, for doctor, the report in
memory. One action is one file system call, or a few of which only one writes:

| Code | Actions |
|---|---|
| `InstallPackage`: resolve, pull to staging, `verifyImage` | `StartInstall`, `ApplyUpdate` (staging is private, so nothing durable happens before) |
| `shim.Build` | `MakeParent`, `CleanStale`, `MakeDigestDir`, `MoveRootfs` or `CopyRootfs`/`FinishCopy` |
| `StoreMetadata` | `StampMetadata` (O_TRUNC), `WriteMetadata` |
| `SetCurrent` | `RemoveStaleTmp`, `SymlinkTmp`, `SwapCurrent`, `RenameFails`, `DropTmp` |
| `InstallWrapper` | `CheckWrapper`, `TruncateWrapper`, `WriteWrapper` |
| `RemovePackage` | `StartRemove`, `ReadWrapper`, `UnlinkWrapper`, `WipePackage` |
| `Rollback` | `Rollback`, then the `SetCurrent` steps |
| `Doctor`, `FixDoctor` | `Doctor`, `ScanBin`, `FixWrappers`, `FixLinks` |
| kill, or an error returned mid-way | `Fault` |

`PackageRefinement` extends `PackageStore` by the refinement mapping, and
`MCPackageStore` extends that, so that all runs below share one module.

A file written with `os.WriteFile` is two steps, since it is truncated and then
filled. `RemoveAll` is one deletion at a time in any order. `MoveRootfs` is
enabled where the rename may succeed; `CopyRootfs` always, because staging is
under `os.MkdirTemp("")` and may be on another file system. A write whose file
was unlinked in between goes nowhere; a write over a file another process has
completed replaces it or leaves a mix. The user puts files into `bin/` only
between commands (`UserFile`), in `store_crash` at any time (`UserWaits =
FALSE`), and deletes them only between commands. `FixWrappers` is the read and
the removal of `RemoveWrapper` in one step (hostintegration.go:107, :118): what
comes between them is seen in the removal by `remove` (`ReadWrapper`,
`UnlinkWrapper`).

| Run | Instance | Shows |
|---|---|---|
| `store_crash` | 1 process, 3 digests, 2 registries, install, update, remove, doctor, 2 faults | `TypeOK`, `RunnableShim`, `WrapperMatchesCurrent`, `StoreTrusted`, `DoctorRepairs`, `ImplementsLifecycle` |
| `store_trust` | 2 processes, 3 digests, install, update, remove, rollback, reinstalls of the active digest, 1 fault | `TrustInv`, the inductive invariant of the proof, and `ForeignFilesKept` |
| `store_apart` | 2 processes that install different digests, and doctor; no fault, weak fairness | `CurrentComplete`, `ActiveImmutable`, `CommandsReturn` |
| `store_reinstall` (violation) | 1 digest, installed twice | `BuildSparesCurrent` (build.go:107): Build deletes the active version when it is installed again |

Two digests show "old and new"; three are needed for a wrapper, a link and a
job that all differ, or for two processes and a version that neither installs.
Two faults are a crash and a crash of the repair. `MaxInstalls` bounds the
timestamps: three installs are one per digest, two are one per process. One
name is enough: no operation reads the files of another name but doctor, which
goes through them one by one.
`CHECK_DEADLOCK FALSE` in `store_trust`: with a directory torn by the fault and
no installs left, every command is refused, and the processes may be idle for
ever.

Conditions that a property or a run states, because it does not hold without
them: `WrapperMatchesCurrent` holds until a fault and without rollback;
`RunnableShim` without rollback after a fault; `DoctorRepairs` while nobody else
changes what doctor found broken; `ForeignFilesKept` for files that were there
before the command; `CurrentComplete` and `ImplementsLifecycle` exclude
installing the digest that is already active (`store_reinstall`) and two
processes with a crash, where one can rename a stale `current.new` onto a
directory the other is rebuilding. What the code does where these conditions
fail is listed under "Where documents and code differ".

**Abstraction.** `PackageLifecycle` knows the active version of a name and the
names under removal. `PackageRefinement` maps the active version to the target
of `current` when that directory is complete, and a name under removal to a
process in `RemoveAll`. Every install step but `SwapCurrent` is a stutter.

**Fairness.** `FairSpec` has weak fairness of `Continue(p)`, one formula for
all steps of a process: the operating system schedules a running process, and
no call of the code waits for another process. Starting commands, faults and
the user are not fair.

## UpdateFlow

`served` is what each host answers per image and tag, `installed` the metadata
of each package, `infos` the `UpdateInfo` list of a `dz update` process. The
check is `LookupDigest` and `ListTags` per package (two registry calls, with
anything in between), then the prompt, then `ApplyUpdate`, `Pull` and
`Activate` per package. Tags are ranks in the string order `newerTagsThan`
compares by, not in that of versions. Floating tags, cosign's sidecar tags and
sibling builds are sets of ranks. No character of a tag sorts before `-`, so the sibling builds of a
tag come right after it (`VariantsFollow`). `InstallHosts` and `CheckHosts` are
the two ways the code finds the host of a recorded registry: `Resolve` looks at
the shape of the first segment first, `checkOne` at the configuration first.

| Run | Shows |
|---|---|
| `update_flow` | `UpdateSettles`: with upstream unmoved since the check, an applied rebuild or move leaves nothing announced. `MovesToGreaterTag`: a tag changes only to a greater string, never to a floating, signature or sibling tag. `UpdatesFromSource`: from the host the package came from. `ScanComplete`: with hosts going down meanwhile, every package is looked up or reported as unreachable. `TypeOK` |
| `update_index` (violation) | `SameDigestNoUpdate` (update_flow.md:118): the check compares the index digest with the installed platform digest, so an image published as an index is announced as rebuilt for ever |

Other dz commands install and remove at any time, also while the prompt waits;
`MovesToGreaterTag` and `UpdatesFromSource` are about a package that none of them
has touched since the check (`Undisturbed`), `UpdateSettles` also about an
upstream that has not moved (`Unmoved`). One process checks: a second one is
one of the other commands. Of the three manifests two are installable, so a tag
can be rebuilt and the rebuild applied while upstream stands still; the third is
for other platforms only. Two names are what "the other packages are still
scanned" needs; the fourth tag comes after a floating and a sibling one.

`MaxPushes` counts tag moves and outages: two make a tag move between the
check and the pull while its host goes down, or a tag go away and come back.
The runs have `CHECK_DEADLOCK FALSE`: when every tag is deleted and nothing is
installed there is nothing left to do.

## RegistryConfig

`file` is `config.yaml` (absent, truncated, unparsable, or a configuration),
`cfg[p]` the copy a process loaded. `Load` fills in the seed and the default
(`Backfill`), `SaveDefaults`/`WriteDefaults` write a first file, `AddRegistry`
and `RemoveRegistry` change the copy, `TruncateFile`/`WriteFile` save it, twice
when the default changes. `pkg` holds the registries recorded in the metadata
of each package's active and retained versions. `bare` (names added without a
signature flag) and `calm` (no command has been cut short, has overlapped with
another or was a rollback) are history variables for the properties.
`ForceOptions` says whether `remove registry --force` is used, which takes a
registry away from installed packages on purpose. That every template names an
issuer is an assumption on the constants which the templates of
`cosign/policy.go` meet; without it `SignedIntent` would fail.

| Run | Shows |
|---|---|
| `registries` | two processes, two registries, every combination of template, issuer and regex that `buildPolicy` tells apart, one fault: `TypeOK`, `NamesUnique`, `PoliciesUsable`, `SignedIntent`; until `calm` ends also `DefaultConfigured` and `PackagesUpdatable` |

Two registries are the seed and one the user adds; two processes are what it
takes to lose an update of the file or to interleave two writes. The processes
are interchangeable, so the run uses symmetry (no liveness is checked).
`CHECK_DEADLOCK FALSE`: two overlapping writes may leave a file that does not
parse, and then every command fails.

## ImageVerification

`sidecar[d]` and `referrers[d]` are the signatures a registry holds for a
digest; a signature is its format, the digest it is over, whether it is
complete and whether it is genuine, which stands for everything sigstore-go
verifies. `FetchSidecar`, `ReadPayload`, `FetchReferrers` and `ReadEntry` are
the registry calls of `FetchBundle`, `CallFails` any of them failing, `Convert`
the choice between the Sigstore and the legacy format with the binding of a
legacy payload to the digest, `ensureLoaded` the trusted root that a process
loads once, `Verify` the last check. `Publish` changes the registry between any
two calls. There is one process: processes share only the registry. `Restart`
ends it and clears the trusted root.

`NextImage` is the same process going on to another image, as `dz update` does:
the trusted root, loaded or failed, stays. The properties `GateSound` (an image
is let through only with a genuine, complete signature over its digest that the
registry offered meanwhile) and `NoSpuriousRefusal` (without interference the
signature looked at first decides) are checked where the gate is used, in the
run `install`.

## PullImage, Attestations and InstallImage

`PullImage` is `Client.Pull`. The tag names an index or an image (`served`) and
may be moved at any time; `FetchDescriptor` chooses the manifest for the host
(`ForHost` is `resolveImage`), and from there on all is by digest. `Extract`
unpacks the entries, in any order the tar may have them, with `ExtractEntry`
for one case of `extractTar`: parents made and links followed by the operating
system (`MkdirAll`, `Walk`), a link or hard link in place of what is there.
`Tree(i)` is the independent reference: what image `i` is meant to look like.
The staging directory is private to the process, so `Extract` is one step, and
what a failure (`PullBreaks`) leaves in it is seen by nobody.

`Attestations` is a module of operators: the decoding of envelopes, the
summaries of the four predicate types and their order.

`InstallImage` is `InstallPackage`: `StartInstall`, the steps of the pull,
`BeginVerify` or `SkipVerify`, the steps of the verification,
`FetchAttestations`, and `HandOver` of the staging directory with its record to
the store (where `PackageStore` goes on). `HandOverFails` and `ReturnError` are
the early returns, `EndProcess` the end or kill of the process, `Upstream` the
registry.

| Run | Shows |
|---|---|
| `install` | `TypeOK`, `GateSound`, `NoSpuriousRefusal` of the gate; `StagedWhole`: a pull that succeeds has the whole tree of its image in the staging directory, and one without a failed call is refused only for its platform or an order that cannot be unpacked; `InstalledIsVerified`: what is handed over is the tree of the recorded digest, one the tag named meanwhile, verified if the registry has a policy; `AttestationsReported`: the record shows each kind that could be read, whatever the others are like; `AcceptedInstalls`: an image that was let through gets installed unless the process or the store fails |

Two digests are needed for a signature attached to the wrong image and for a
tag that moves; three registries for no, a usable and an edited, unusable
policy. One upstream change is the tag moving between pull and verification, or
a signature replaced between the call that finds it and the one that reads it;
with two the run exceeds five minutes. One failed call in the gate and one in
the pull. The lists of up to two signatures cover "a bad one in front of a good
one" in both places. One image has a linked directory with files under both its
names, the other a hard link and a device: each is unpacked in every order of
its entries. Links are relative to the image; a tar whose links are absolute is
unpacked by way of the host's directories (see `EntrypointPath` for what that
does to an entrypoint) and is left out, as are a file that comes at the name of
a link of the tar (`writeFile` opens it and writes through the link,
extract.go:108) and file modes.

Fairness: `WF(Continue)`, the steps of one process that waits for nobody. A
registry call that never returns has no timeout in the code; the model takes it
for a call that fails or a process that is killed. Starting an installation,
killing it and the registry are not fair.

## EntrypointPath

An image is a tree of directories, files and links, below the staging directory
first and below the package directory once installed (`root`). The code follows
the links of the entrypoint by the text of the paths, with the image as the
root (`LstatCurrent`, `Follow`, `RefuseEscape`, `Arrive`, at most `MaxHops`
times); everything else it asks (`Lstat` of a directory, `Open`, `Stat` of the
loader) is answered by the operating system, which starts absolute links at the
root of the host (`OnHost`). `InContainer` is what a container would find, and
`Relative` what is found without absolute links and without leaving the image.
All three are `Walk`, one name at a time, through the host's file system with
the image in it (`Disk`) or through the image alone.
`CheckExecutable`, `FindLoader` and `Move` are the rest of `shim.Build`;
`HostChanges` is the host installing or removing files of its own at any time,
also long after.

| Run | Shows |
|---|---|
| `entrypoint` | `TypeOK`; `RunsImage`: an installed wrapper runs, at any later time, the binary and the loader that a container would; `NoSpuriousRefusal`: what a container would run is not refused; `Terminates`: a cycle ends |
| `entrypoint_loader` (violation) | `LoaderInRootfs` (loader.go:44): the loader is looked up with `os.Stat`, which follows an absolute link of the image to the host's own loader |

The images have `/bin` and `/lib` as directories or as relative or absolute
links to `/usr`, an entrypoint that is a static or dynamic binary, one of the
wrong architecture or system, a script, a directory, a link in every direction
(absolute, relative, to itself, in a cycle, above the root), and chains of up
to one link more than `MaxHops`, which is 3 instead of 10. The host has or has
not files at the two places an absolute link would lead to.

`RunsImage` and `NoSpuriousRefusal` leave out the resolutions where the text of
a path and the disk disagree (`straight`): below an absolute linked directory,
where the host answers; at a relative link in a linked directory, which
`filepath.Dir` takes to be where the path says; and at a target such as
`link/../x`, which `filepath.Clean` shortens by its text (entrypoint.go:94).
All are limits of the code, not of the model, and no property covers them.
`RunsImage` lets the container
follow `Ample` links, since each of the code's `MaxHops` steps asks the operating
system anew, which follows `MaxLinks` (40 under Linux) each time.

`PathAssumption` says what an image is: a tree whose nodes are directories,
files and links, unpacked where the host has nothing else. Entrypoints and
loaders with `..`, and names that begin with two dots (which entrypoint.go:100
takes for an escape), are not among the images.

Fairness: `Build` is one function that waits for nothing.

## CredentialStore, CatalogCache and RegistryAccess

`CredentialStore` is `auth.json`: absent, empty, unparsable or whole (`auth`),
and per process what it has loaded and will write (`work`). `Login` and
`Logout` are `AuthStore.Save` and `Delete` up to their write; `Truncate` and
`Write` are the write, `RemoveAuth` the removal of the last entry,
`CredentialCrash` a kill or a write that breaks off. `lookup` and `Resolve` are
the keychain: the repository, its host, then Docker's configuration. The keychain
loads the file for each of the first two (keychain.go:33, :36); the model takes
them as one, so a request between whose loads a login completes sees all of it
or nothing. Overlapping writes leave one writer's entries or a text that does
not parse.

`CatalogCache` is `dz search`: `GetCatalog`, `Discard` (the reader that removes
what it cannot parse), `Fetch` and `FetchNext` (a server answers page by page,
each of its own moment), `OpenEntry`, `WriteEntry` (which may fail, or leave a
part of an entry: `Written`), with a clock of ticks for the TTL, pushes that
change a catalog, and `Reconfigure`, which gives a name another URL (`remove
registry` and `add registry`; the cache stays).

`RegistryAccess` runs both: a search and every command that asks for an image
(`AskForImage`) sends what the keychain finds at that moment, and `purge`
removes both files under the feet of other commands. A request goes by the
`Canonical` name of what was asked for: go-containerregistry turns `docker.io`
(`HubAlias`) into `index.docker.io` (`Hub`) before the keychain sees it
(client.go:55, :87, :101), while a login is stored as typed.

| Run | Shows |
|---|---|
| `registry_access` | `TypeOK`; `OwnCredentials`: whatever overlaps, crashes or is reconfigured, a host is sent only credentials entered for it or for the repository asked for, or those Docker has for it; `LoginsKept`: while commands on `auth.json` neither overlap nor break off, requests carry exactly what completed logins, logouts and purges have left for the name they go by; `ListingRecent`: every page of a listing shown is one that a URL of that name advertised within the TTL |

The run has the Docker hub under both its names, with a repository of its own
credentials and one without, so that each step of the lookup decides some
request, and a host that wants a login, which Docker knows. One user is enough
to tell credentials apart, since what was entered is remembered with the host or
repository it was entered for. Three commands on two processes are login, login
and logout or purge in any overlap; one crash. Two ticks with a TTL of one make
an entry expire; one change of a catalog is what two pages of a listing, or two
listings, may fall on both sides of. One name of a registry with two URLs: names
do not share files. The processes are interchangeable (symmetry, no liveness).

## ShellRC

An rc file is a sequence of tokens: line ends, the two markers, the export line
and pieces of the user's text. `Look` and `AppendBlock` are `SetupShellRC`,
`Read`, `Truncate` and `Write` are `UnsetShellRC` with `stripMarkerBlock`,
`Break` a kill or a write that breaks off. A file that is there can be read: of
the errors of `ReadFile` only "does not exist" is modelled (SetupShellRC takes any
other for that at line 189, UnsetShellRC returns it at line 213). `Edit` is the
user or an installer appending a line, to a file that did not exist perhaps, which for
`.bash_profile` changes what `detectShell` finds.

| Run | Shows |
|---|---|
| `shell_rc` | `TypeOK`; `UserTextKept`: an rc file is the user's text to the byte with only whole blocks in between, also when setups overlap; `CommandsHonest`: after a success there is exactly one block, or no marker |

The files at first are missing, empty, or end in the middle of a line; four
commands are setup, unset and both again on two processes, with two edits and
one fault. Both properties name what the code does not guarantee: a file
written to while an unset had it in hand, or partly written (`torn`), and for
the second, commands that overlap on a file (`raced`). `CHECK_DEADLOCK FALSE`:
after `MaxCommands` and `MaxEdits` nothing more happens.

## Proofs

Every theorem is about every value of the constants: any number of processes,
names, digests, hosts, signatures, files, and of crashes and commands. What a
theorem assumes beyond the `ASSUME`s of the module it is about stands in its
statement.

| Module | Proves | Beyond the shape of the constants it assumes |
|---|---|---|
| `PackageStoreProofs` | `TypeOK`, `TrustInv`, `StoreTrusted`, `ForeignFilesKept` | for the last `UserWaits` |
| | `CurrentComplete`, `ActiveImmutable`, `RunnableShim`, `DoctorRepairs`, `WrapperMatchesCurrent`, `ImplementsLifecycle` | `Orderly`; for the first two no removals, for `WrapperMatchesCurrent` `Solo` and no rollback |
| `UpdateFlowProofs` | `TypeOK`, `ScanComplete`, `MovesToGreaterTag`, `UpdatesFromSource`, `UpdateSettles` | for the last two `NamesAgree`, for the last `PlainImages` |
| `RegistryConfigProofs` | `TypeOK`, `NamesUnique`, `PoliciesUsable`, `SignedIntent`, `DefaultConfigured`, `PackagesUpdatable` | for the last no `--force` |
| `InstallImageProofs` | of the gate `TypeOK`, `GateSound`, `NoSpuriousRefusal`; `InstallSpec => Spec` of the gate, its properties of installations, `InstalledIsVerified`, `StagedWhole`, `AttestationsReported` | `PullAssumption`; for `StagedWhole` `FitUnpacks` |
| `EntrypointPathProofs` | `TypeOK`, `RunsImage`, `NoSpuriousRefusal` | – (the last two speak of straight resolutions) |
| `RegistryAccessProofs` | `TypeOK`, `OwnCredentials`, `LoginsKept`, `ListingRecent` | – |
| `ShellRCProofs` | `TypeOK`, `CommandsHonest`, `UserTextKept` | – |
| `FoldProofs` | `FoldLeftSteps`, `FoldLeftInvariant` | – |

**The store: trust.** `TrustCorrect` holds with any subset of the commands,
crashes anywhere, and no exclusion of any kind. `StoreTrusted` alone is not
inductive: a process past `verifyImage` is about to write its digest, and a
`current.new` left by a crash may be renamed by whoever comes next. The
strengthening adds what running jobs hold (`JobsTrusted`) and what
`current.new` points to (`TmpTrusted`). `ForeignFilesKept` rests on
`PastMarkerCheck`: between the check of the marker and the write only dz
processes change the file, and none of them produces an unmarked non-empty one.
That the user does not put files into `bin/` while a command runs is the
hypothesis `UserWaits`; a file put there between the check and the write is
overwritten.

**The store: activation.** Here the code takes no lock and deletes the directory
of a digest it installs again, so the theorems say for which use they hold.
`Orderly`: the active digest is not installed again, and either there is one
process (`Solo`), which may be killed anywhere and any number of times, or
several that install different digests, of which none is killed and beside
which nothing is removed (`Apart`); rollbacks are by one process that is never
killed. Without the first `store_reinstall` is the counterexample; without the
others a rollback goes to a half-removed version, or a process renames a
`current.new` that another left behind. `BuildInv` says how far the directory
has come at each call of a job (`Built`), that it is not the active one
(`Fresh`), that where rollbacks happen whatever has metadata is whole unless it
is being built or removed at the moment (`Whole`), and that the link about to
become current is that of a process at its rename (`Offered`). `CurrentComplete`
and `ActiveImmutable` also assume that nothing is removed: a removal cut short
leaves `current` to half a version. `RunnableShim` does not, since
`RemovePackage` takes the wrapper away first: `ShimInv` adds that a directory
being wiped has no wrapper left (`Unshimmed`), that a wrapper being written
leads to a whole rootfs (`Launching`), and that what doctor found broken some
calls ago still is (`Reported`), from which `DoctorRepairs` follows. Where
several processes run nothing is removed, and `KeptInv` takes its place: no link
is ever broken. So in orderly use the broken links of a report are never stale;
reports that are, are not what `DoctorRepairs` is proved for.
`MatchInv` says that a wrapper that is not that of the current version is about
to be replaced.

`ImplementsLifecycle` goes step by step: under the mapping of
`PackageRefinement`, `SwapCurrent` is the activation, the calls of a removal are
its beginning, deletions and end, a fault the end of a removal cut short, and
every other call a stutter. With several processes nothing is removed, and a
swap is the only step that is not a stutter (`KeptLifecycleStep`): what it
makes current is whole although another process may have offered it.

**Updates.** `ScanInv`: what the scan has behind it was looked up or is reported.
`JobInv` carries what was announced to the moment of `Activate`, two registry
calls and a prompt later: the tags announced come after the installed one, and
the job pulls the tag that was announced. `SourceInv`: an installed image comes
from the host to which `Resolve` sends its registry. `MovesToGreaterTag` needs no
hypothesis, but is about strings, of which the greater may be the older version.
`UpdatesFromSource` has one: where the configuration gives
another host to a host-shaped name, `checkOne` asks that one and `Resolve` pulls
from the other (`NamesAgree` excludes it).
`UpdateSettles` also excludes indexes, for which `update_index` shows that it
fails. That the newest tag announced leaves nothing newer is a fact about the
order of sibling builds (`VariantsFollow`).

**Configuration.** `AllSound` is about every configuration there is, on disk and
in the memory of every process: names are unique, policies complete, and only
names in `bare` go without. It needs no order of steps, so its theorems hold with
overlapping commands and torn files too. The other two are promises to a user
who runs one command at a time, and their invariant says where that command
stands (`CommandAt`): until it changes something its copy is the file's; between
its two saves the file is what the second will complete. `SourcesKept` adds
the registries of the active versions.

**The gate.** `GateSound` speaks of an image already let through; the invariant
adds what leads there: between verifications nothing is held (`IdleClean`), the
bundle in hand is one that the registry offered since the verification began
(`AtHand`), and past `Convert` the policy is usable and a legacy signature is
over the digest in question (`Bound`). A change of the registry keeps `AtHand`
because `offered` only grows. `NoSpuriousRefusal` is the other direction: as
long as nothing interferes, the signature a verification has in hand, or the
rest of the list it goes through, leads to the one it has to look at first
(`Undisturbed`).

**Installations.** `InstallVerifies` proves that every step of an installation is
a step of `ImageVerification` or leaves its variables alone, so that the two
properties of the gate carry over by name. The invariant of
`InstalledIsVerified` says of each phase what is settled by then: past the
descriptor the image is one the tag has named; once pulled, `staging` is its
tree; while the gate works, its request is for that image and the registry of
the job; past it the outcome is about them. The step that would break it is the
tag moving between pull and verification, which changes `served` and only adds
to `named`. Assumed is that an image unpacked without an error is its tree
(`PullAssumption`, which TLC evaluates in every order of the entries of the
instance; it is not true of images with absolute links). `StagedWhole` assumes
moreover that an order that can be unpacked is unpacked (`FitUnpacks`); what is
then proved is only that no failure, retry or moved tag disturbs what was
unpacked. That the unpacking gives the tree is for TLC.
`AttestationsReported` goes through the fold over the layers: once a layer has
put its kind into the summary no later layer takes it out (`AddSummaryShows`),
and what a shown kind says is what some layer said (`Listed`, `ShownIsSaid`).

**Credentials and listings.** `OwnCredentials` rests on `CredentialsEntered`: what
is on disk or in the hands of a process was entered, which truncated files and
overlapping writes keep. `LoginsKept` rests on `WriterInv`: until commands
overlap or break off, there is one writer at most and it has in hand what it is
to leave, and on the two look-ups and Docker together being `Meant`
(`ResolveMeant`); both are about the canonical name of what is asked for.
`ListingRecent` rests on the history: every page of an entry in the cache, and
of the listing of a search about to store it, is one that a URL of that name
advertised at its time stamp.

**The rc files.** A file that saw neither overlapping nor broken commands is
without a marker or has exactly one block (`Whole`), what a command read of it
is still so (`Reliant`), and no other command is at it (`Alone`). The lemmas
are about sequences of tokens: what appending a block does to a clean
file, and that `stripMarkerBlock` cuts out the one block there is.
`UserTextKept` also holds where setups overlap, so there may be several blocks.
Its invariant (`KeptInv`) has the user's text in the file or in the hands of the
command that is about to write it back. A file without its blocks is the user's
text if every marker begins or ends a block (`Guarded`) and blocks do not touch
(`Spaced`); both survive another block at the end, the user's lines, and the
removal of the first block as a whole.

**The entrypoint.** `TypeOK` is the promise of `resolveInsideRootfs`: for any
image, with any links in it, the path it goes on with has no `..`. `Clean`
leaves `..` only in front (`CleanIsCleaned`, by induction along the fold), and a
path with `..` in front is refused.

`RunsImage` and `NoSpuriousRefusal` compare the code, which follows links by
text, with two walks through a file system. `Walks` is a recursive function that
ends for every position, though its links may go round: each link costs one of
the links still allowed, each other step shortens the path (`WalkInduction`, the
descent to a least counterexample). What a walk finds that stays in the image by
relative links, a container finds too (`RelativeInContainer`), and the host with
the image below it (`RelativeOnHost`); in an image without absolute or climbing
links the host finds nothing else (`HostIsRelative`). A walk along a path is a
walk along its front and one along the rest, with the links that the front used
up (`Compose`); and a plain target leads where its cleaned text leads, one link
cheaper (`CleanText`, `FollowAgrees`).

The invariant (`StraightInv`) says that Build and the container are at the same
place: with some number of links, between `hop` and `hop * (MaxLinks + 1)`, a
walk from the entrypoint gets exactly where a walk from `current` does, for
every number of links it may still follow (`Reached`). The lower bound is
needed for the refusal of a chain that is too deep, the upper one for what is
installed. What was seen, checked and looked up is then what the image has
there (`SeenIn`, `Lands`, `LoaderOK`), and a refusal is one that a container
with that many links would meet (`Refusable`); none of this mentions the host,
so a host that changes disturbs nothing.

**Folds.** The library's induction theorems take an operator as a parameter, and
no installed prover can instantiate it. `FoldProofs` declares the operator of
the fold as a CONSTANT instead: `FoldLeftInvariant` says that a fold over `s`
ends in `S[Len(s)]` if it starts in `S[0]` and its steps go from `S[k - 1]` to
`S[k]`, for any family of sets `S`. Its proof is the descent to a least
counterexample, first for the existence of the function by which `FoldLeft` is
defined. `InstallImageProofs` and `EntrypointPathProofs` take instances of it,
with `AddSummary` and `CleanName`.

**Only model-checked.** Liveness (`CommandsReturn`, `AcceptedInstalls`,
`Terminates`), which the prover cannot do. That a tar in an order that can be
unpacked gives the tree of its image (`PullAssumption`, `FitUnpacks`):
`ExtractTar` recurses over entries and paths.

## Where documents and code differ, without a run

Met while modelling. Each is visible in a model above but is not among the
violation runs:

- A refused wrapper (a user's file in `bin/`) leaves `current` switched and
  the package installed (packagehandler.go:174; install_flow.md:12 promises an
  untouched store).
- After the default registry is removed, the next load makes the first
  registry the default (config.go:119; commands.go:391 says the user picks one).
- `rollback` returns to a version whose registry was removed
  (registry_management.md:39 lets `remove registry` protect installed packages).
- `rollback` flips `current` and never writes the wrapper, which keeps the loader
  and entrypoint of the version rolled back from (rollback.go:56; its comment at
  line 10 has it refresh the wrapper script). `doctor` does not see it either.
- `rollback` takes any digest directory whose metadata can be read
  (rollback.go:44): after a clean-up in `Build` or a removal that was cut short,
  one of half the files, to which a wrapper then leads (packagehandler.go:278:
  the order is such that a failed delete "can't leave a runnable shim pointing at
  a half-removed package").
- `InstallWrapper` looks for its marker and writes in two calls
  (hostintegration.go:86, :97): a script the user puts there in between is
  overwritten (DESIGN.md:151, "never touched").
- `doctor --fix` looks at the links before the wrappers and removes what looked
  orphaned (doctor.go:134): the wrapper of a first install that completes in
  between is taken away (doctor.go:126, "safe to delete").
- Tags are compared as strings (update.go:172): from 1.10.0 an update goes to
  1.9.0, and from 1.9.0 none goes to 1.10.0. update_flow.md:58 says "If all tags
  parse as semver, use semver comparison" (:120 and update.go:19 likewise); update.go:137
  and roadmap.md:132 put it off.
- With a registry configured under a name that looks like a host, the check asks
  the URL of that registry (update.go:77) and the update pulls from the host of
  the name (manager.go:137); update.go:82 says "the same way
  registry.Manager.Resolve does".
- A directory in front of the entrypoint that is an absolute link (`/bin` ->
  `/usr/bin`) is followed to the host by the operating system, and the wrapper
  runs the host's file (entrypoint.go:67; :58 "refusing any target that escapes
  it", binary_shimming.md:50 "within the rootfs (not outside it)").
- The sidecar tag is asked first and a bad sidecar is final
  (attestation_and_verification.md:28 says referrers first).
- `dz login docker.io`, the host of the registry configured on the first run,
  stores credentials that nothing looks up: they are saved as typed, while the
  keychain is asked for `index.docker.io` (keychain.go:36; client.go:55, :87,
  :101). So does `dz login` with the URL of a registry that has a namespace, or
  with its name (keychain.go:18). commands.go:1022 says "They will be used on the
  next install or pull from this registry".
- `FetchAttestations` has no referrers fallback (registry/attestations.go:52;
  its comment at line 24 has one).
- The image is unpacked, to staging, before its signature is asked for
  (packagehandler.go:112; attestation_and_verification.md:5 has it the other way
  round).
- `--allow-unsigned` does not let an image with a bad or missing signature
  through when the registry has a policy (packagehandler.go:91;
  attestation_and_verification.md:5 says it does).
- The catalog cache is keyed by name: a name removed and added again with
  another URL lists the old registry until the TTL is over (cache.go:48).
- `path unset` joins the last line of a file that did not end in a line end with
  what the user appended after the block (hostintegration.go:266).
- A `.bash_profile` made between setup and unset leaves the block in `.bashrc`;
  a block without its end marker is reported as removed and stays; of two blocks
  left by overlapped setups one unset removes one (hostintegration.go:236, :262).
- A chain of exactly ten links is refused as "more than 10 hops"
  (entrypoint.go:65, :104).

## Not modelled

The registry protocol, sigstore's cryptography and the file system below its
calls are the environment. Parsing of flags, tables, progress, prompts and
logging (`cmd`, `util`, most of `app/commands.go`) carry no state; what the
commands do to state is in the modules above. `path status` and `OnPath` only
read. `RemoveDigestDir`, `Manager.Tags` with its half of the cache, and
`Cache.Clear` have no callers. Hand edits of files under `~/.dropzone` while dz
runs are outside of all modules.
