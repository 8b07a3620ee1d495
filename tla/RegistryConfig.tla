----------------------------- MODULE RegistryConfig -----------------------------
(***************************************************************************)
(* The configured registries: ~/.dropzone/config/config.yaml, the copy each *)
(* dz process loads, and the commands that change it (add registry, remove  *)
(* registry) or depend on it (install, remove, rollback of packages that    *)
(* record the registry they came from).  Save truncates the file and then   *)
(* writes it, and takes no lock across processes.                           *)
(*                                                                          *)
(* A file two processes have written at once is either the content of the   *)
(* last writer or does not parse.                                           *)
(***************************************************************************)
EXTENDS Integers, Sequences

CONSTANTS
    Procs,          \* dz processes
    RegNames,       \* registry names
    Seed,           \* chainguard, the registry DefaultConfig seeds
    SeedPolicy,     \* its policy
    Packages,       \* package names
    Issuers,        \* OIDC issuers
    Regexes,        \* identity regexes that compile
    BadRegex,       \* one that does not
    Templates,      \* names of the policy templates
    TemplatePolicy, \* what each template fills in: an issuer at least
    None,           \* the empty string, a nil pointer
    FlagChoices,    \* signature flags users type: [template, issuer, regex]
    Commands,       \* which commands this instance runs
    ForceOptions,   \* is remove registry --force used
    MaxFaults       \* bound: crashes or failed writes

Policy == [issuer: Issuers \cup {None}, regex: Regexes \cup {None, BadRegex}]
Flags  == [template: Templates \cup {None}, issuer: Issuers \cup {None},
           regex: Regexes \cup {None, BadRegex}]

ASSUME RegistryAssumption ==
    /\ Packages # {}
    /\ Seed \in RegNames /\ SeedPolicy \in [issuer: Issuers, regex: Regexes]
    /\ TemplatePolicy \in [Templates -> Policy]
    /\ \A t \in Templates : TemplatePolicy[t].issuer # None
    /\ FlagChoices \subseteq Flags
    /\ None \notin RegNames \cup Issuers \cup Regexes \cup Templates
    /\ None \notin Policy /\ BadRegex \notin Regexes \cup {None}
    /\ ForceOptions \subseteq BOOLEAN /\ MaxFaults \in Nat

VARIABLES
    file,    \* config.yaml: Absent, Empty, Corrupt, or a Config
    cfg,     \* cfg[p]: the configuration process p has in memory
    pc, job,
    pkg,     \* pkg[k]: registries in the metadata of k's digest directories
    calm,    \* history: no command cut short, overlapped or rolled back
    bare,    \* history: names added with no signature flag at all
    faults

vars == <<file, cfg, pc, job, pkg, calm, bare, faults>>

-------------------------------------------------------------------------------
RegistryEntry == [name: RegNames, policy: Policy \cup {None}]
Config == [default: RegNames \cup {None}, regs: Seq(RegistryEntry)]

Absent  == [state |-> "absent"]
Empty   == [state |-> "empty"]    \* truncated: parses as the zero Config
Corrupt == [state |-> "corrupt"]  \* does not parse
Saved(c) == [state |-> "ok", config |-> c]

NamesIn(c) == {c.regs[i].name : i \in 1..Len(c.regs)}
SeedRegs == <<[name |-> Seed, policy |-> SeedPolicy]>>
DefaultConfig == [default |-> Seed, regs |-> SeedRegs]
ZeroConfig == [default |-> None, regs |-> <<>>]

\* Mutant: the seed comes back whenever the default is missing.
BackfillAlways(c) ==
    IF c.regs = <<>>
    THEN [regs |-> SeedRegs, default |-> IF c.default = None THEN Seed ELSE c.default]
    ELSE IF c.default = None THEN [default |-> Seed, regs |-> c.regs \o SeedRegs]
    ELSE c

\* What Load fills in: the seeded registry if there is none, and a default.
Backfill(c) ==
    IF c.regs = <<>>
    THEN [regs |-> SeedRegs, default |-> IF c.default = None THEN Seed ELSE c.default]
    ELSE IF c.default = None THEN [c EXCEPT !.default = c.regs[1].name]
    ELSE c

\* What the next command would load.
Loaded ==
    CASE file.state = "ok"    -> Backfill(file.config)
      [] file.state = "empty" -> Backfill(ZeroConfig)
      [] OTHER                -> DefaultConfig

FindRegistry(c, r) == r \in NamesIn(c)

UpsertRegistry(c, e) ==
    IF FindRegistry(c, e.name)
    THEN [c EXCEPT !.regs =
             [i \in 1..Len(@) |-> IF @[i].name = e.name THEN e ELSE @[i]]]
    ELSE [c EXCEPT !.regs = Append(@, e)]

\* Mutant: the entry is cleared and stays in the list.
DropRegistryClears(c, r) ==
    [c EXCEPT !.regs = [i \in 1..Len(@) |->
        IF @[i].name = r THEN [name |-> None, policy |-> None] ELSE @[i]]]

\* Config.RemoveRegistry: the first entry of that name.
DropRegistry(c, r) ==
    LET i == CHOOSE n \in 1..Len(c.regs) :
                /\ c.regs[n].name = r
                /\ \A m \in 1..(n - 1) : c.regs[m].name # r
    IN [c EXCEPT !.regs = SubSeq(@, 1, i - 1) \o SubSeq(@, i + 1, Len(@))]

\* Validate
Valid(p) == p.issuer # None /\ p.regex \notin {None, BadRegex}

NoFlags == [template |-> None, issuer |-> None, regex |-> None]

\* The template, with the flags over it.
Merge(f) ==
    LET t == IF f.template = None THEN [issuer |-> None, regex |-> None]
             ELSE TemplatePolicy[f.template]
    IN [issuer |-> IF f.issuer # None THEN f.issuer ELSE t.issuer,
        regex  |-> IF f.regex # None THEN f.regex ELSE t.regex]

\* Mutant: an incomplete policy is taken for no policy.
buildPolicyIncomplete(f) == IF Valid(Merge(f)) THEN {Merge(f)} ELSE {None}

\* Mutant: the policy is not validated.
buildPolicyUnchecked(f) ==
    IF Merge(f) = [issuer |-> None, regex |-> None] THEN {None} ELSE {Merge(f)}

\* buildPolicy: no policy, a valid one, or an error (no value).
buildPolicy(f) ==
    IF Merge(f) = [issuer |-> None, regex |-> None] THEN {None}
    ELSE {p \in {Merge(f)} : Valid(p)}

-------------------------------------------------------------------------------
Jobs == [cmd: {"add", "remove", "install", "rollback", "uninstall"},
         name: RegNames, second: BOOLEAN, pkg: Packages]
NoJob == [cmd |-> "install", name |-> Seed, second |-> FALSE,
          pkg |-> CHOOSE k \in Packages : TRUE]
NoPackage == [cur |-> None, old |-> {}]

TypeOK ==
    /\ file \in {Absent, Empty, Corrupt} \cup [state : {"ok"}, config : Config]
    /\ cfg \in [Procs -> Config]
    /\ pc \in [Procs -> {"idle", "init", "initWrite", "run", "truncate", "write",
                         "activate"}]
    /\ job \in [Procs -> Jobs]
    /\ pkg \in [Packages -> [cur: RegNames \cup {None}, old: SUBSET RegNames]]
    /\ calm \in BOOLEAN
    /\ bare \subseteq RegNames
    /\ faults \in 0..MaxFaults

Init ==
    /\ file = Absent
    /\ cfg = [p \in Procs |-> ZeroConfig]
    /\ pc = [p \in Procs |-> "idle"]
    /\ job = [p \in Procs |-> NoJob]
    /\ pkg = [k \in Packages |-> NoPackage]
    /\ calm = TRUE
    /\ bare = {}
    /\ faults = 0

Quiescent == \A p \in Procs : pc[p] = "idle"

Goto(p, l) == pc' = [pc EXCEPT ![p] = l]
Return(p) ==
    /\ Goto(p, "idle")
    /\ cfg' = [cfg EXCEPT ![p] = ZeroConfig]
    /\ job' = [job EXCEPT ![p] = NoJob]
Fail(p) == Return(p) /\ UNCHANGED <<file, pkg, bare, calm, faults>>

-------------------------------------------------------------------------------
\* Initialize

\* Load.  A file that does not parse fails every command.
Load(p) ==
    /\ pc[p] = "idle" /\ file # Corrupt
    /\ cfg' = [cfg EXCEPT ![p] = Loaded]
    /\ Goto(p, "init")
    /\ calm' = (calm /\ Quiescent)
    /\ UNCHANGED <<file, job, pkg, bare, faults>>

\* The file does not exist: Save creates it, then writes it.
SaveDefaults(p) ==
    /\ pc[p] = "init"
    /\ IF file = Absent
       THEN file' = Empty /\ Goto(p, "initWrite")
       ELSE Goto(p, "run") /\ UNCHANGED file
    /\ UNCHANGED <<cfg, job, pkg, bare, calm, faults>>

\* The content of a Save.  Over what another process has written since the
\* truncation, the result may be a mix that does not parse.
PutFile(p) ==
    \/ file' = Saved(cfg[p])
    \/ file \notin {Empty, Saved(cfg[p])} /\ file' = Corrupt

WriteDefaults(p) ==
    /\ pc[p] = "initWrite"
    /\ PutFile(p)
    /\ Goto(p, "run")
    /\ UNCHANGED <<cfg, job, pkg, bare, calm, faults>>

-------------------------------------------------------------------------------
\* add registry, remove registry

\* The policy is built, Add refuses a name in use, and the entry is added.
AddRegistry(p) ==
    /\ pc[p] = "run" /\ "add" \in Commands
    /\ \E r \in RegNames, f \in FlagChoices, d \in BOOLEAN : \E pol \in buildPolicy(f) :
          /\ ~FindRegistry(cfg[p], r)
          /\ cfg' = [cfg EXCEPT ![p] =
                        UpsertRegistry(@, [name |-> r, policy |-> pol])]
          /\ job' = [job EXCEPT ![p] = [NoJob EXCEPT !.cmd = "add", !.name = r,
                                           !.second = d]]
          /\ bare' = IF f = NoFlags THEN bare \cup {r} ELSE bare
    /\ Goto(p, "truncate")
    /\ UNCHANGED <<file, pkg, calm, faults>>

\* Mutant: packages are not looked at.
RemoveRegistryUnchecked(p) ==
    /\ pc[p] = "run" /\ "remove" \in Commands
    /\ \E r \in NamesIn(cfg[p]) :
          /\ cfg' = [cfg EXCEPT ![p] = DropRegistry(@, r)]
          /\ job' = [job EXCEPT ![p] = [NoJob EXCEPT !.cmd = "remove", !.name = r,
                                           !.second = (cfg[p].default = r)]]
    /\ Goto(p, "truncate")
    /\ UNCHANGED <<file, pkg, bare, calm, faults>>

\* Mutant: the default pointer is left alone.
RemoveRegistryKeepsDefault(p) ==
    /\ pc[p] = "run" /\ "remove" \in Commands
    /\ \E r \in NamesIn(cfg[p]) :
          /\ \A k \in Packages : pkg[k].cur # r
          /\ cfg' = [cfg EXCEPT ![p] = DropRegistry(@, r)]
          /\ job' = [job EXCEPT ![p] = [NoJob EXCEPT !.cmd = "remove", !.name = r]]
    /\ Goto(p, "truncate")
    /\ UNCHANGED <<file, pkg, bare, calm, faults>>

\* ListInstalled names the packages whose active version came from r; then the
\* entry is dropped from memory.
RemoveRegistry(p) ==
    /\ pc[p] = "run" /\ "remove" \in Commands
    /\ \E r \in NamesIn(cfg[p]), force \in ForceOptions :
          /\ force \/ \A k \in Packages : pkg[k].cur # r
          /\ cfg' = [cfg EXCEPT ![p] = DropRegistry(@, r)]
          /\ job' = [job EXCEPT ![p] = [NoJob EXCEPT !.cmd = "remove", !.name = r,
                                           !.second = (cfg[p].default = r)]]
    /\ Goto(p, "truncate")
    /\ UNCHANGED <<file, pkg, bare, calm, faults>>

\* Save: os.WriteFile opens the file with O_TRUNC.
TruncateFile(p) ==
    /\ pc[p] = "truncate"
    /\ file' = Empty
    /\ Goto(p, "write")
    /\ UNCHANGED <<cfg, job, pkg, bare, calm, faults>>

\* Save: the content.  --default, and the removal of the default, change the
\* default pointer after the first Save and save again.
WriteFile(p) ==
    /\ pc[p] = "write"
    /\ PutFile(p)
    /\ IF job[p].second
       THEN /\ cfg' = [cfg EXCEPT ![p].default =
                          IF job[p].cmd = "add" THEN job[p].name ELSE None]
            /\ job' = [job EXCEPT ![p].second = FALSE]
            /\ Goto(p, "truncate")
       ELSE Return(p)
    /\ UNCHANGED <<pkg, bare, calm, faults>>

-------------------------------------------------------------------------------
\* Commands that depend on the registries

\* install resolves its reference against the loaded configuration.
InstallPackage(p) ==
    /\ pc[p] = "run" /\ "install" \in Commands
    /\ \E k \in Packages, r \in NamesIn(cfg[p]) :
          job' = [job EXCEPT ![p] = [NoJob EXCEPT !.name = r, !.pkg = k]]
    /\ Goto(p, "activate")
    /\ UNCHANGED <<file, cfg, pkg, bare, calm, faults>>

\* SetCurrent, long after: the version before stays as a digest directory.
Activate(p) ==
    /\ pc[p] = "activate"
    /\ pkg' = [pkg EXCEPT ![job[p].pkg] =
                  [cur |-> job[p].name, old |-> (@.old \cup {@.cur}) \ {None}]]
    /\ Return(p)
    /\ UNCHANGED <<file, bare, calm, faults>>

\* rollback to another digest directory.
Rollback(p) ==
    /\ pc[p] = "run" /\ "rollback" \in Commands
    /\ \E k \in Packages : \E r \in pkg[k].old :
          /\ pkg[k].cur # None
          /\ pkg' = [pkg EXCEPT ![k] = [cur |-> r, old |-> @.old \cup {@.cur}]]
    /\ Return(p)
    /\ calm' = FALSE
    /\ UNCHANGED <<file, bare, faults>>

RemovePackage(p) ==
    /\ pc[p] = "run" /\ "install" \in Commands
    /\ \E k \in Packages :
          /\ pkg[k].cur # None
          /\ pkg' = [pkg EXCEPT ![k] = NoPackage]
    /\ Return(p)
    /\ UNCHANGED <<file, bare, calm, faults>>

\* Any other command, or one refused, ends with nothing changed.
Refuse(p) == pc[p] = "run" /\ Fail(p)

\* The process is killed, or a write fails: what is on disk stays.
Fault(p) ==
    /\ pc[p] # "idle"
    /\ faults < MaxFaults
    /\ faults' = faults + 1
    /\ Return(p)
    /\ calm' = FALSE
    /\ UNCHANGED <<file, pkg, bare>>

Next == \E p \in Procs :
    \/ Load(p) \/ SaveDefaults(p) \/ WriteDefaults(p)
    \/ AddRegistry(p) \/ RemoveRegistry(p) \/ TruncateFile(p) \/ WriteFile(p)
    \/ InstallPackage(p) \/ Activate(p) \/ Rollback(p) \/ RemovePackage(p)
    \/ Refuse(p) \/ Fault(p)

Spec == Init /\ [][Next]_vars
-------------------------------------------------------------------------------
\* Properties

\* A policy that is stored can be used: no sequence of add and remove, with
\* crashes inside Save and reseeding, leaves a registry whose policy verifies
\* nothing because it is incomplete (buildPolicy, Load).
PoliciesUsable ==
    \A i \in 1..Len(Loaded.regs) :
        Loaded.regs[i].policy = None \/ Valid(Loaded.regs[i].policy)

\* A user who passed a signature flag never ends with an unsigned registry:
\* an entry without a policy is one added with no flag at all.
SignedIntent ==
    \A i \in 1..Len(Loaded.regs) :
        LET e == Loaded.regs[i] IN
        e.policy = None => e.name \in bare

\* No name is configured twice, whatever interleaves: FindRegistry returns the
\* first and RemoveRegistry drops the first.
NamesUnique ==
    \A i, j \in 1..Len(Loaded.regs) :
        Loaded.regs[i].name = Loaded.regs[j].name => i = j

\* Unless commands were cut short or overlapped, a short reference can be
\* resolved: the default the next command loads is a configured registry,
\* although adding and removing save twice.
DefaultConfigured == Quiescent /\ calm => FindRegistry(Loaded, Loaded.default)

\* "removing the registry would leave them un-updateable": unless commands were
\* cut short or overlapped, or brought a retained version back, the registry of
\* every installed package is configured (newRemoveRegistryCommand looks at
\* the active versions).
PackagesUpdatable ==
    Quiescent /\ calm => \A k \in Packages :
        pkg[k].cur # None => FindRegistry(Loaded, pkg[k].cur)
===============================================================================
