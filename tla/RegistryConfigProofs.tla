-------------------------- MODULE RegistryConfigProofs --------------------------
(***************************************************************************)
(* What add registry and remove registry keep true of config.yaml, for any  *)
(* number of dz processes, registries, templates and crashes.               *)
(*                                                                          *)
(* Three of the properties hold of every configuration there is, on disk or *)
(* in a process, and need no order of steps.  The other two are promises to *)
(* a user who runs one command at a time: they need where the only running  *)
(* command stands, and what it still has to save.                           *)
(***************************************************************************)
EXTENDS RegistryConfig, SequenceTheorems, TLAPS

-------------------------------------------------------------------------------
\* The inductive invariant

Unique(c) ==
    \A i, j \in 1..Len(c.regs) : c.regs[i].name = c.regs[j].name => i = j

\* Stored policies can be used, and only the names in b go without.
Usable(c, b) ==
    \A i \in 1..Len(c.regs) :
        IF c.regs[i].policy = None THEN c.regs[i].name \in b
        ELSE Valid(c.regs[i].policy)

Sound(c, b) == Unique(c) /\ Usable(c, b)

\* Every configuration there is.
AllSound ==
    /\ file.state = "ok" => Sound(file.config, bare)
    /\ \A p \in Procs : Sound(cfg[p], bare)

\* Load finds a default in it, or fills one in.
DefaultLoads(c) == c.default = None \/ FindRegistry(c, c.default)

\* As long as commands neither overlap nor break off there is one at most.
OneCommand ==
    /\ file # Corrupt
    /\ \A p, q \in Procs : pc[p] # "idle" /\ pc[q] # "idle" => p = q

Saving(p) == pc[p] \in {"truncate", "write"}

\* Where the one command stands: until it changes something, its copy is what
\* the file holds; while it saves, what the second Save will make of it.
CommandAt(p) ==
    /\ pc[p] \in {"initWrite", "write"} => file = Empty
    /\ pc[p] \in {"init", "run", "activate"} => cfg[p] = Loaded
    /\ pc[p] # "idle" /\ ~Saving(p) => FindRegistry(cfg[p], cfg[p].default)
    /\ Saving(p) /\ ~job[p].second => DefaultLoads(cfg[p])
    /\ Saving(p) /\ job[p].second /\ job[p].cmd = "add" =>
          FindRegistry(cfg[p], job[p].name)

Settled == Quiescent => FindRegistry(Loaded, Loaded.default)

CalmInv == calm => OneCommand /\ Settled /\ \A p \in Procs : CommandAt(p)

\* The registries of the active versions.
Sources(c) == \A k \in Packages : pkg[k].cur # None => FindRegistry(c, pkg[k].cur)

SourcesKept ==
    calm =>
      /\ Quiescent => Sources(Loaded)
      /\ \A p \in Procs :
            /\ pc[p] # "idle" => Sources(cfg[p])
            /\ pc[p] = "activate" => FindRegistry(cfg[p], job[p].name)

-------------------------------------------------------------------------------
\* The operators

LEMMA EntryType ==
    ASSUME NEW c \in Config
    PROVE  /\ c.regs \in Seq(RegistryEntry) /\ Len(c.regs) \in Nat
           /\ c.default \in RegNames \cup {None}
           /\ \A i \in 1..Len(c.regs) :
                 /\ c.regs[i] \in RegistryEntry /\ c.regs[i].name \in RegNames
                 /\ c.regs[i].policy \in Policy \cup {None}
           /\ c = [default |-> c.default, regs |-> c.regs]
<1>1. /\ c.regs \in Seq(RegistryEntry) /\ c.default \in RegNames \cup {None}
      /\ c = [default |-> c.default, regs |-> c.regs]
  BY DEF Config
<1>2. \A i \in 1..Len(c.regs) : c.regs[i] \in RegistryEntry
  BY <1>1, ElementOfSeq
<1> QED BY <1>1, <1>2, LenProperties DEF RegistryEntry

\* The seed is a configured registry with a policy that can be used.
LEMMA SeedSound ==
    /\ SeedRegs \in Seq(RegistryEntry) /\ Len(SeedRegs) = 1
    /\ SeedRegs[1].name = Seed /\ Seed \in RegNames
    /\ SeedRegs[1].policy # None /\ Valid(SeedRegs[1].policy)
    /\ None \notin RegNames
<1>1. SeedPolicy \in Policy /\ Valid(SeedPolicy) /\ Seed \in RegNames
  BY RegistryAssumption DEF Policy, Valid
<1>2. SeedPolicy # None
  BY <1>1, RegistryAssumption
<1> QED BY <1>1, <1>2, RegistryAssumption DEF SeedRegs, RegistryEntry

\* Load fills in a configuration that was sound, loses no name, and leaves one
\* whose default is configured as it is.
LEMMA BackfillSound ==
    ASSUME NEW c \in Config, NEW b, Sound(c, b)
    PROVE  /\ Backfill(c) \in Config /\ Sound(Backfill(c), b)
           /\ NamesIn(c) \subseteq NamesIn(Backfill(c))
           /\ FindRegistry(c, c.default) => Backfill(c) = c
           /\ DefaultLoads(c) => FindRegistry(Backfill(c), Backfill(c).default)
<1>0. /\ c.regs \in Seq(RegistryEntry) /\ Len(c.regs) \in Nat
      /\ c.default \in RegNames \cup {None}
      /\ \A i \in 1..Len(c.regs) :
            c.regs[i].name \in RegNames /\ c.regs[i].policy \in Policy \cup {None}
  BY EntryType
<1>1. CASE c.regs = <<>>
  <2>1. /\ Backfill(c).regs = SeedRegs
        /\ Backfill(c) = [regs |-> SeedRegs,
                          default |-> IF c.default = None THEN Seed ELSE c.default]
    BY <1>1 DEF Backfill
  <2>2. Len(c.regs) = 0
    BY <1>1, EmptySeq
  <2>3. NamesIn(c) = {}
    BY <2>2 DEF NamesIn
  <2>4. Backfill(c) \in Config
    BY <1>0, <2>1, SeedSound DEF Config
  <2>5. Sound(Backfill(c), b)
    BY <2>1, SeedSound DEF Sound, Unique, Usable
  <2>6. DefaultLoads(c) => Backfill(c).default = Seed
    BY <2>1, <2>3 DEF DefaultLoads, FindRegistry
  <2>7. Seed \in NamesIn(Backfill(c))
    BY <2>1, SeedSound DEF NamesIn
  <2> QED BY <2>3, <2>4, <2>5, <2>6, <2>7 DEF FindRegistry
<1>2. CASE c.regs # <<>> /\ c.default = None
  <2>1. Backfill(c) = [c EXCEPT !.default = c.regs[1].name]
    BY <1>2 DEF Backfill
  <2>2. Len(c.regs) \in Nat \ {0}
    BY <1>0, <1>2, EmptySeq
  <2>3. 1 \in 1..Len(c.regs)
    BY <2>2
  <2>4. /\ Backfill(c).regs = c.regs /\ Backfill(c).default = c.regs[1].name
        /\ Backfill(c) \in Config
    BY <1>0, <2>1, <2>3 DEF Config
  <2>5. NamesIn(Backfill(c)) = NamesIn(c) /\ Backfill(c).default \in NamesIn(c)
    BY <2>3, <2>4 DEF NamesIn
  <2>6. Sound(Backfill(c), b)
    BY <2>4 DEF Sound, Unique, Usable
  <2>7. ~FindRegistry(c, c.default)
    BY <1>0, <1>2, SeedSound DEF FindRegistry, NamesIn
  <2> QED BY <2>4, <2>5, <2>6, <2>7 DEF FindRegistry
<1>3. CASE c.regs # <<>> /\ c.default # None
  <2>1. Backfill(c) = c
    BY <1>3 DEF Backfill
  <2> QED BY <1>3, <2>1 DEF DefaultLoads
<1> QED BY <1>1, <1>2, <1>3

\* A new entry is appended.
LEMMA UpsertSound ==
    ASSUME NEW c \in Config, NEW b, Sound(c, b), NEW e \in RegistryEntry,
           ~FindRegistry(c, e.name),
           IF e.policy = None THEN e.name \in b ELSE Valid(e.policy)
    PROVE  /\ UpsertRegistry(c, e) \in Config /\ Sound(UpsertRegistry(c, e), b)
           /\ NamesIn(UpsertRegistry(c, e)) = NamesIn(c) \cup {e.name}
           /\ UpsertRegistry(c, e).default = c.default
<1> DEFINE u == UpsertRegistry(c, e)
           n == Len(c.regs)
<1>0. /\ c.regs \in Seq(RegistryEntry) /\ n \in Nat
      /\ c.default \in RegNames \cup {None}
  BY EntryType
<1>1. u = [c EXCEPT !.regs = Append(c.regs, e)]
  BY DEF UpsertRegistry
<1>2. u.regs = Append(c.regs, e) /\ u.default = c.default
  BY <1>1 DEF Config
<1>3. /\ u.regs \in Seq(RegistryEntry) /\ Len(u.regs) = n + 1
      /\ \A i \in 1..n : u.regs[i] = c.regs[i]
      /\ u.regs[n + 1] = e
  BY <1>0, <1>2, AppendProperties
<1>4. u \in Config
  BY <1>0, <1>1, <1>2, <1>3 DEF Config
<1>5. \A i \in 1..Len(u.regs) : i \in 1..n \/ i = n + 1
  BY <1>0, <1>3
<1>6. \A i \in 1..n : c.regs[i].name # e.name
  BY DEF FindRegistry, NamesIn
<1>7. Unique(u)
  <2> SUFFICES ASSUME NEW i \in 1..Len(u.regs), NEW j \in 1..Len(u.regs),
                      u.regs[i].name = u.regs[j].name
               PROVE  i = j
    BY DEF Unique
  <2>1. CASE i \in 1..n /\ j \in 1..n
    BY <1>3, <2>1 DEF Sound, Unique
  <2>2. CASE i = n + 1 \/ j = n + 1
    BY <1>3, <1>5, <1>6, <2>2
  <2> QED BY <1>5, <2>1, <2>2
<1>8. Usable(u, b)
  BY <1>3, <1>5 DEF Sound, Usable
<1>9. NamesIn(u) = NamesIn(c) \cup {e.name}
  <2>1. \A i \in 1..n : i \in 1..Len(u.regs)
    BY <1>0, <1>3
  <2>2. n + 1 \in 1..Len(u.regs)
    BY <1>0, <1>3
  <2> QED BY <1>3, <1>5, <2>1, <2>2 DEF NamesIn
<1> QED BY <1>2, <1>4, <1>7, <1>8, <1>9 DEF Sound

\* As names are unique, dropping the first entry of a name drops the name.
LEMMA DropSound ==
    ASSUME NEW c \in Config, NEW b, Sound(c, b), NEW r \in NamesIn(c)
    PROVE  /\ DropRegistry(c, r) \in Config /\ Sound(DropRegistry(c, r), b)
           /\ NamesIn(DropRegistry(c, r)) = NamesIn(c) \ {r}
           /\ DropRegistry(c, r).default = c.default
<1> DEFINE n == Len(c.regs)
           First(i) == /\ c.regs[i].name = r
                       /\ \A m \in 1..(i - 1) : c.regs[m].name # r
           k == CHOOSE i \in 1..n : First(i)
           u == DropRegistry(c, r)
<1>0. /\ c.regs \in Seq(RegistryEntry) /\ n \in Nat
      /\ c.default \in RegNames \cup {None}
      /\ \A i \in 1..n : c.regs[i] \in RegistryEntry
  BY EntryType
<1>1. k \in 1..n /\ First(k)
  <2>1. PICK i \in 1..n : c.regs[i].name = r
    BY DEF NamesIn
  <2>2. \A m \in 1..(i - 1) : c.regs[m].name # r
    BY <1>0, <2>1 DEF Sound, Unique
  <2>3. \E j \in 1..n : First(j)
    BY <2>1, <2>2
  <2> HIDE DEF First
  <2> QED BY <2>3
<1>2. u = [c EXCEPT !.regs = SubSeq(c.regs, 1, k - 1) \o SubSeq(c.regs, k + 1, n)]
  BY DEF DropRegistry
<1> HIDE DEF k
<1>3. u.regs = SubSeq(c.regs, 1, k - 1) \o SubSeq(c.regs, k + 1, n) /\ u.default = c.default
  BY <1>2 DEF Config
<1> DEFINE s == SubSeq(c.regs, 1, k - 1)
           t == SubSeq(c.regs, k + 1, n)
<1>4. /\ s \in Seq(RegistryEntry) /\ Len(s) = k - 1
      /\ \A i \in 1..(k - 1) : s[i] = c.regs[i]
  <2>1. \A i \in 1..(k - 1) : c.regs[i] \in RegistryEntry
    BY <1>0, <1>1
  <2>2. s \in Seq(RegistryEntry) /\ Len(s) = IF 1 <= k - 1 THEN k - 1 - 1 + 1 ELSE 0
    BY <1>0, <1>1, <2>1, SubSeqProperties
  <2>3. \A i \in 1..(k - 1 - 1 + 1) : s[i] = c.regs[1 + i - 1]
    BY <1>0, <1>1, <2>1, SubSeqProperties
  <2> QED BY <1>0, <1>1, <2>2, <2>3
<1>5. /\ t \in Seq(RegistryEntry) /\ Len(t) = n - k
      /\ \A i \in 1..(n - k) : t[i] = c.regs[k + i]
  <2>1. \A i \in (k + 1)..n : c.regs[i] \in RegistryEntry
    BY <1>0, <1>1
  <2>2. t \in Seq(RegistryEntry) /\ Len(t) = IF k + 1 <= n THEN n - (k + 1) + 1 ELSE 0
    BY <1>0, <1>1, <2>1, SubSeqProperties
  <2>3. \A i \in 1..(n - (k + 1) + 1) : t[i] = c.regs[k + 1 + i - 1]
    BY <1>0, <1>1, <2>1, SubSeqProperties
  <2> QED BY <1>0, <1>1, <2>2, <2>3
<1> HIDE DEF s, t
<1>6. /\ u.regs \in Seq(RegistryEntry) /\ Len(u.regs) = n - 1
      /\ \A i \in 1..(n - 1) : u.regs[i] = IF i < k THEN c.regs[i] ELSE c.regs[i + 1]
  <2>1. /\ s \o t \in Seq(RegistryEntry) /\ Len(s \o t) = Len(s) + Len(t)
        /\ \A i \in 1..Len(s) + Len(t) :
              (s \o t)[i] = IF i <= Len(s) THEN s[i] ELSE t[i - Len(s)]
    BY <1>4, <1>5, ConcatProperties
  <2>2. u.regs = s \o t
    BY <1>3 DEF s, t
  <2> QED BY <1>0, <1>1, <1>4, <1>5, <2>1, <2>2
<1>7. u \in Config
  BY <1>0, <1>2, <1>3, <1>6 DEF Config
\* Where an entry of the result comes from.
<1> DEFINE from(i) == IF i < k THEN i ELSE i + 1
<1>8. \A i \in 1..(n - 1) : from(i) \in (1..n) \ {k} /\ u.regs[i] = c.regs[from(i)]
  BY <1>0, <1>1, <1>6
<1>9. Unique(u)
  <2> SUFFICES ASSUME NEW i \in 1..(n - 1), NEW j \in 1..(n - 1),
                      u.regs[i].name = u.regs[j].name
               PROVE  i = j
    BY <1>6 DEF Unique
  <2>1. from(i) = from(j)
    <3>1. /\ from(i) \in 1..n /\ from(j) \in 1..n
          /\ c.regs[from(i)].name = c.regs[from(j)].name
      BY <1>8
    <3> HIDE DEF from
    <3> QED BY <3>1 DEF Sound, Unique
  <2> QED BY <1>0, <1>1, <2>1
<1>10. Usable(u, b)
  BY <1>6, <1>8 DEF Sound, Usable
<1>11. \A i \in (1..n) \ {k} : \E j \in 1..(n - 1) : from(j) = i
  <2> TAKE i \in (1..n) \ {k}
  <2>1. CASE i < k
    BY <1>0, <1>1, <2>1
  <2>2. CASE k < i
    <3>1. i - 1 \in 1..(n - 1) /\ from(i - 1) = i
      BY <1>0, <1>1, <2>2
    <3> QED BY <3>1
  <2> QED BY <1>0, <1>1, <2>1, <2>2
<1> HIDE DEF from
<1>12. \A i \in (1..n) \ {k} : c.regs[i].name # r
  BY <1>1 DEF Sound, Unique
<1>13. NamesIn(u) = NamesIn(c) \ {r}
  <2> HIDE DEF u
  <2>1. ASSUME NEW i \in 1..Len(u.regs) PROVE u.regs[i].name \in NamesIn(c) \ {r}
    <3>1. from(i) \in (1..n) \ {k} /\ u.regs[i] = c.regs[from(i)]
      BY <1>6, <1>8, <2>1
    <3> QED BY <1>12, <3>1 DEF NamesIn
  <2>2. ASSUME NEW i \in 1..n, c.regs[i].name # r PROVE c.regs[i].name \in NamesIn(u)
    <3>1. PICK j \in 1..(n - 1) : from(j) = i
      BY <1>1, <1>11, <2>2
    <3>2. j \in 1..Len(u.regs) /\ u.regs[j] = c.regs[i]
      BY <1>6, <1>8, <3>1
    <3> QED BY <3>2 DEF NamesIn
  <2> QED BY <2>1, <2>2 DEF NamesIn
<1> QED BY <1>3, <1>7, <1>9, <1>10, <1>13 DEF Sound

\* Flags never add up to an unsigned registry, and a policy that is built can
\* be used.
LEMMA BuildPolicyRight ==
    ASSUME NEW f \in FlagChoices, NEW pol \in buildPolicy(f)
    PROVE  /\ pol \in Policy \cup {None}
           /\ IF pol = None THEN f = NoFlags ELSE Valid(pol)
<1>1. /\ f \in Flags /\ None \notin Policy
      /\ f = [template |-> f.template, issuer |-> f.issuer, regex |-> f.regex]
  BY RegistryAssumption DEF Flags
<1>2. f.template # None => TemplatePolicy[f.template] \in Policy
  BY <1>1, RegistryAssumption DEF Flags
<1>3. Merge(f) \in Policy
  BY <1>1, <1>2 DEF Merge, Policy, Flags
<1>4. CASE Merge(f) = [issuer |-> None, regex |-> None]
  <2>1. f.issuer = None /\ f.regex = None
    BY <1>4 DEF Merge
  <2>2. f.template = None
    <3> SUFFICES ASSUME f.template # None PROVE FALSE
      OBVIOUS
    <3>1. TemplatePolicy[f.template].issuer # None
      BY <1>1, RegistryAssumption DEF Flags
    <3>2. Merge(f).issuer = TemplatePolicy[f.template].issuer
      BY <2>1 DEF Merge
    <3> QED BY <1>4, <3>1, <3>2
  <2> QED BY <1>1, <1>4, <2>1, <2>2 DEF buildPolicy, NoFlags
<1>5. CASE Merge(f) # [issuer |-> None, regex |-> None]
  BY <1>1, <1>3, <1>5 DEF buildPolicy
<1> QED BY <1>4, <1>5

LEMMA InitialConfigs ==
    ASSUME NEW b
    PROVE  /\ ZeroConfig \in Config /\ Sound(ZeroConfig, b) /\ NamesIn(ZeroConfig) = {}
           /\ DefaultConfig \in Config /\ Sound(DefaultConfig, b)
           /\ FindRegistry(DefaultConfig, DefaultConfig.default)
<1>1. <<>> \in Seq(RegistryEntry) /\ Len(<<>>) = 0
  BY EmptySeq
<1>2. ZeroConfig \in Config /\ ZeroConfig.regs = <<>>
  BY <1>1 DEF ZeroConfig, Config
<1>3. Sound(ZeroConfig, b) /\ NamesIn(ZeroConfig) = {}
  BY <1>1, <1>2 DEF Sound, Unique, Usable, NamesIn
<1>4. /\ DefaultConfig \in Config /\ DefaultConfig.regs = SeedRegs
      /\ DefaultConfig.default = Seed
  BY SeedSound DEF DefaultConfig, Config
<1>5. Sound(DefaultConfig, b)
  BY <1>4, SeedSound DEF Sound, Unique, Usable
<1>6. FindRegistry(DefaultConfig, DefaultConfig.default)
  BY <1>4, SeedSound DEF FindRegistry, NamesIn
<1> QED BY <1>2, <1>3, <1>4, <1>5, <1>6

LEMMA SoundGrows ==
    ASSUME NEW c, NEW b, NEW d, Sound(c, b), b \subseteq d
    PROVE  Sound(c, d)
BY DEF Sound, Usable

\* The states of the file.
LEMMA FileStates ==
    /\ Absent.state = "absent" /\ Empty.state = "empty" /\ Corrupt.state = "corrupt"
    /\ \A c : Saved(c).state = "ok" /\ Saved(c).config = c
    /\ \A c \in Config : Saved(c) \in [state : {"ok"}, config : Config]
BY DEF Absent, Empty, Corrupt, Saved

LEMMA LoadedSound ==
    ASSUME TypeOK, AllSound
    PROVE  /\ Loaded \in Config /\ Sound(Loaded, bare)
           /\ file.state = "ok" => file.config \in Config /\ Loaded = Backfill(file.config)
<1>1. file.state = "ok" => file.config \in Config
  BY FileStates DEF TypeOK
<1>2. file.state = "ok" => Loaded = Backfill(file.config)
  BY DEF Loaded
<1>3. CASE file.state = "ok"
  BY <1>1, <1>2, <1>3, BackfillSound DEF AllSound
<1>4. CASE file.state = "empty"
  <2>1. Loaded = Backfill(ZeroConfig)
    BY <1>4 DEF Loaded
  <2> QED BY <1>4, <2>1, BackfillSound, InitialConfigs
<1>5. CASE file.state \notin {"ok", "empty"}
  <2>1. Loaded = DefaultConfig
    BY <1>5 DEF Loaded
  <2> QED BY <1>5, <2>1, InitialConfigs
<1> QED BY <1>1, <1>2, <1>3, <1>4, <1>5

-------------------------------------------------------------------------------
\* Every configuration is sound

LEMMA JobType == NoJob \in Jobs
BY RegistryAssumption DEF NoJob, Jobs

LEMMA ReturnSound ==
    ASSUME TypeOK, AllSound, NEW p \in Procs, Return(p)
    PROVE  /\ cfg' \in [Procs -> Config] /\ job' \in [Procs -> Jobs]
           /\ pc' \in [Procs -> {"idle", "init", "initWrite", "run", "truncate", "write",
                                 "activate"}]
           /\ \A q \in Procs : Sound(cfg'[q], bare)
BY InitialConfigs, JobType DEF Return, Goto, TypeOK, AllSound

LEMMA PutFileSound ==
    ASSUME TypeOK, AllSound, NEW p \in Procs, PutFile(p)
    PROVE  /\ file' \in {Absent, Empty, Corrupt} \cup [state : {"ok"}, config : Config]
           /\ file'.state = "ok" => file' = Saved(cfg[p]) /\ Sound(file'.config, bare)
BY FileStates DEF PutFile, TypeOK, AllSound

LEMMA SoundInit == Init => TypeOK /\ AllSound
BY InitialConfigs, JobType, FileStates, RegistryAssumption
   DEF Init, TypeOK, AllSound, NoPackage

LEMMA SoundNext == TypeOK /\ AllSound /\ [Next]_vars => TypeOK' /\ AllSound'
<1> SUFFICES ASSUME TypeOK, AllSound, [Next]_vars PROVE TypeOK' /\ AllSound'
  OBVIOUS
<1>1. CASE UNCHANGED vars
  BY <1>1 DEF vars, TypeOK, AllSound
<1> SUFFICES ASSUME NEW p \in Procs,
        Load(p) \/ SaveDefaults(p) \/ WriteDefaults(p)
        \/ AddRegistry(p) \/ RemoveRegistry(p) \/ TruncateFile(p) \/ WriteFile(p)
        \/ InstallPackage(p) \/ Activate(p) \/ Rollback(p) \/ RemovePackage(p)
        \/ Refuse(p) \/ Fault(p)
    PROVE TypeOK' /\ AllSound'
  BY <1>1 DEF Next
<1> cfg[p] \in Config /\ Sound(cfg[p], bare) /\ job[p] \in Jobs
  BY DEF TypeOK, AllSound
<1>2. CASE Load(p)
  BY <1>2, LoadedSound DEF Load, Goto, TypeOK, AllSound
<1>3. CASE SaveDefaults(p) \/ TruncateFile(p)
  BY <1>3, FileStates DEF SaveDefaults, TruncateFile, Goto, TypeOK, AllSound
<1>4. CASE WriteDefaults(p)
  BY <1>4, PutFileSound DEF WriteDefaults, Goto, TypeOK, AllSound
<1>5. CASE AddRegistry(p)
  <2>0. PICK r \in RegNames, f \in FlagChoices, d \in BOOLEAN :
            \E pol \in buildPolicy(f) :
              /\ ~FindRegistry(cfg[p], r)
              /\ cfg' = [cfg EXCEPT ![p] = UpsertRegistry(@, [name |-> r, policy |-> pol])]
              /\ job' = [job EXCEPT ![p] = [NoJob EXCEPT !.cmd = "add", !.name = r,
                                               !.second = d]]
              /\ bare' = IF f = NoFlags THEN bare \cup {r} ELSE bare
    BY <1>5 DEF AddRegistry
  <2>1. PICK pol \in buildPolicy(f) :
            /\ ~FindRegistry(cfg[p], r)
            /\ cfg' = [cfg EXCEPT ![p] = UpsertRegistry(@, [name |-> r, policy |-> pol])]
            /\ job' = [job EXCEPT ![p] = [NoJob EXCEPT !.cmd = "add", !.name = r,
                                             !.second = d]]
            /\ bare' = IF f = NoFlags THEN bare \cup {r} ELSE bare
    BY <2>0
  <2> DEFINE e == [name |-> r, policy |-> pol]
  <2>2. bare \subseteq bare' /\ bare' \subseteq RegNames
    BY <2>1 DEF TypeOK
  <2>3. e \in RegistryEntry /\ e.name = r /\ e.policy = pol
    BY BuildPolicyRight DEF RegistryEntry
  <2>4. IF e.policy = None THEN e.name \in bare' ELSE Valid(e.policy)
    BY <2>1, <2>3, BuildPolicyRight
  <2>5. Sound(cfg[p], bare')
    BY <2>2, SoundGrows
  <2> HIDE DEF e
  <2>6. UpsertRegistry(cfg[p], e) \in Config /\ Sound(UpsertRegistry(cfg[p], e), bare')
    BY <2>1, <2>3, <2>4, <2>5, UpsertSound
  <2>7. cfg' = [cfg EXCEPT ![p] = UpsertRegistry(cfg[p], e)]
    BY <2>1 DEF e
  <2>8. job' \in [Procs -> Jobs]
    BY <2>1, JobType DEF TypeOK, Jobs
  <2>9. TypeOK'
    BY <1>5, <2>2, <2>6, <2>7, <2>8 DEF AddRegistry, Goto, TypeOK
  <2>10. AllSound'
    <3>1. \A q \in Procs : Sound(cfg'[q], bare')
      BY <2>2, <2>6, <2>7, SoundGrows DEF AllSound, TypeOK
    <3>2. file'.state = "ok" => Sound(file'.config, bare')
      BY <1>5, <2>2, SoundGrows DEF AddRegistry, AllSound
    <3> QED BY <3>1, <3>2 DEF AllSound
  <2> QED BY <2>9, <2>10
<1>6. CASE RemoveRegistry(p)
  <2>1. PICK r \in NamesIn(cfg[p]) :
            /\ cfg' = [cfg EXCEPT ![p] = DropRegistry(@, r)]
            /\ job' = [job EXCEPT ![p] = [NoJob EXCEPT !.cmd = "remove", !.name = r,
                                             !.second = (cfg[p].default = r)]]
    BY <1>6 DEF RemoveRegistry
  <2>2. DropRegistry(cfg[p], r) \in Config /\ Sound(DropRegistry(cfg[p], r), bare)
    BY DropSound
  <2>3. r \in RegNames
    BY EntryType DEF NamesIn
  <2>4. job' \in [Procs -> Jobs]
    BY <2>1, <2>3, JobType DEF TypeOK, Jobs
  <2> QED BY <1>6, <2>1, <2>2, <2>4 DEF RemoveRegistry, Goto, TypeOK, AllSound
<1>7. CASE WriteFile(p)
  <2>1. PutFile(p)
    BY <1>7 DEF WriteFile
  <2>2. CASE job[p].second
    <3> DEFINE d == IF job[p].cmd = "add" THEN job[p].name ELSE None
    <3>1. /\ cfg' = [cfg EXCEPT ![p] = [cfg[p] EXCEPT !.default = d]]
          /\ job' = [job EXCEPT ![p] = [job[p] EXCEPT !.second = FALSE]]
          /\ pc' = [pc EXCEPT ![p] = "truncate"]
          /\ UNCHANGED <<pkg, bare, calm, faults>>
      BY <1>7, <2>2 DEF WriteFile, Goto
    <3>2. d \in RegNames \cup {None}
      BY DEF Jobs
    <3> HIDE DEF d
    <3>3. [cfg[p] EXCEPT !.default = d] \in Config
      BY <3>2 DEF Config
    <3>4. Sound([cfg[p] EXCEPT !.default = d], bare)
      BY DEF Config, Sound, Unique, Usable
    <3>5. job' \in [Procs -> Jobs]
      BY <3>1 DEF TypeOK, Jobs
    <3> QED BY <2>1, <3>1, <3>3, <3>4, <3>5, PutFileSound DEF TypeOK, AllSound
  <2>3. CASE ~job[p].second
    BY <1>7, <2>1, <2>3, ReturnSound, PutFileSound DEF WriteFile, TypeOK, AllSound
  <2> QED BY <2>2, <2>3
<1>8. CASE InstallPackage(p)
  <2>1. PICK k \in Packages, r \in NamesIn(cfg[p]) :
            job' = [job EXCEPT ![p] = [NoJob EXCEPT !.name = r, !.pkg = k]]
    BY <1>8 DEF InstallPackage
  <2>2. r \in RegNames
    BY EntryType DEF NamesIn
  <2>3. job' \in [Procs -> Jobs]
    BY <2>1, <2>2, JobType DEF TypeOK, Jobs
  <2> QED BY <1>8, <2>3 DEF InstallPackage, Goto, TypeOK, AllSound
<1>9. CASE Activate(p) \/ Rollback(p) \/ RemovePackage(p) \/ Refuse(p) \/ Fault(p)
  <2>1. Return(p) /\ UNCHANGED <<file, bare>> /\ calm' \in BOOLEAN /\ faults' \in 0..MaxFaults
    <3>1. CASE Fault(p)
      <4>1. /\ Return(p) /\ UNCHANGED <<file, bare>> /\ calm' = FALSE
            /\ faults < MaxFaults /\ faults' = faults + 1
        BY <3>1 DEF Fault
      <4>2. faults \in 0..MaxFaults /\ MaxFaults \in Nat
        BY RegistryAssumption DEF TypeOK
      <4>3. faults' \in 0..MaxFaults
        BY <4>1, <4>2
      <4> QED BY <4>1, <4>3
    <3>2. CASE Activate(p) \/ Rollback(p) \/ RemovePackage(p) \/ Refuse(p)
      BY <3>2 DEF Activate, Rollback, RemovePackage, Refuse, Fail, TypeOK
    <3> QED BY <1>9, <3>1, <3>2
  <2>2. pkg' \in [Packages -> [cur: RegNames \cup {None}, old: SUBSET RegNames]]
    <3>1. job[p].name \in RegNames /\ job[p].pkg \in Packages
      BY DEF Jobs
    <3>2. CASE Activate(p)
      BY <3>1, <3>2 DEF Activate, TypeOK
    <3>3. CASE Rollback(p)
      BY <3>3 DEF Rollback, TypeOK
    <3>4. CASE RemovePackage(p)
      BY <3>4 DEF RemovePackage, NoPackage, TypeOK
    <3>5. CASE Refuse(p) \/ Fault(p)
      BY <3>5 DEF Refuse, Fail, Fault, TypeOK
    <3> QED BY <1>9, <3>2, <3>3, <3>4, <3>5
  <2> QED BY <2>1, <2>2, ReturnSound DEF TypeOK, AllSound
<1> QED BY <1>2, <1>3, <1>4, <1>5, <1>6, <1>7, <1>8, <1>9

LEMMA SoundCorrect == Spec => [](TypeOK /\ AllSound)
BY SoundInit, SoundNext, PTL DEF Spec

\* Every reachable state of the configuration is well typed (config.go).
THEOREM TypeCorrect == Spec => []TypeOK
BY SoundCorrect, PTL

\* No name is configured twice, whatever processes overlap or crash
\* (UpsertRegistry, RemoveRegistry, Load).
THEOREM NamesUniqueCorrect == Spec => []NamesUnique
<1>1. TypeOK /\ AllSound => NamesUnique
  BY LoadedSound DEF Sound, Unique, NamesUnique
<1> QED BY <1>1, SoundCorrect, PTL

\* No policy is stored that verifies nothing because it is incomplete
\* (buildPolicy, Load).
THEOREM PoliciesUsableCorrect == Spec => []PoliciesUsable
<1>1. TypeOK /\ AllSound => PoliciesUsable
  BY LoadedSound DEF Sound, Usable, PoliciesUsable
<1> QED BY <1>1, SoundCorrect, PTL

\* A registry added with any signature flag has a policy ever after
\* (newAddRegistryCommand, buildPolicy).
THEOREM SignedIntentCorrect == Spec => []SignedIntent
<1>1. TypeOK /\ AllSound => SignedIntent
  BY LoadedSound DEF Sound, Usable, SignedIntent
<1> QED BY <1>1, SoundCorrect, PTL

-------------------------------------------------------------------------------
\* One command at a time: the default

\* What is written over a truncated file is what the next Load fills in.
LEMMA WriteLoads ==
    ASSUME NEW p \in Procs, file = Empty, PutFile(p)
    PROVE  file' = Saved(cfg[p]) /\ file' # Corrupt /\ Loaded' = Backfill(cfg[p])
<1>1. file' = Saved(cfg[p])
  BY DEF PutFile
<1>2. file'.state = "ok" /\ file'.config = cfg[p]
  BY <1>1, FileStates
<1>3. Loaded' = Backfill(cfg[p])
  BY <1>2 DEF Loaded
<1> QED BY <1>1, <1>2, <1>3, FileStates

\* A step of the only command there is, or of the first.
LEMMA Alone ==
    ASSUME TypeOK, TypeOK', NEW p \in Procs,
           \A q \in Procs : q # p => pc'[q] = "idle",
           file' # Corrupt, CommandAt(p)',
           pc'[p] = "idle" => FindRegistry(Loaded', Loaded'.default)
    PROVE  OneCommand' /\ Settled' /\ \A q \in Procs : CommandAt(q)'
<1>1. \A q \in Procs : q # p => CommandAt(q)'
  BY DEF CommandAt, Saving
<1>2. OneCommand'
  BY DEF OneCommand
<1>3. Settled'
  BY DEF Settled, Quiescent
<1> QED BY <1>1, <1>2, <1>3

\* The others wait while a command goes on.
LEMMA OthersIdle ==
    ASSUME TypeOK, OneCommand, NEW p \in Procs, pc[p] # "idle",
           NEW l, pc' = [pc EXCEPT ![p] = l]
    PROVE  \A q \in Procs : q # p => pc'[q] = "idle"
BY DEF TypeOK, OneCommand

LEMMA CalmInit == Init => CalmInv
<1> SUFFICES ASSUME Init PROVE CalmInv
  OBVIOUS
<1>1. Loaded = DefaultConfig
  BY FileStates DEF Init, Loaded
<1>2. FindRegistry(Loaded, Loaded.default)
  BY <1>1, InitialConfigs
<1>3. OneCommand /\ \A p \in Procs : CommandAt(p)
  BY FileStates DEF Init, OneCommand, CommandAt, Saving
<1> QED BY <1>2, <1>3 DEF CalmInv, Settled

LEMMA CalmNext ==
    TypeOK /\ AllSound /\ TypeOK' /\ CalmInv /\ [Next]_vars => CalmInv'
<1> SUFFICES ASSUME TypeOK, AllSound, TypeOK', CalmInv, [Next]_vars, calm'
             PROVE  OneCommand' /\ Settled' /\ \A q \in Procs : CommandAt(q)'
  BY DEF CalmInv
<1>1. CASE UNCHANGED vars
  <2>1. OneCommand /\ Settled /\ \A q \in Procs : CommandAt(q)
    BY <1>1 DEF vars, CalmInv
  <2> QED BY <1>1, <2>1 DEF vars, OneCommand, Settled, Quiescent, Loaded, CommandAt, Saving
<1> SUFFICES ASSUME NEW p \in Procs,
        Load(p) \/ SaveDefaults(p) \/ WriteDefaults(p)
        \/ AddRegistry(p) \/ RemoveRegistry(p) \/ TruncateFile(p) \/ WriteFile(p)
        \/ InstallPackage(p) \/ Activate(p) \/ Rollback(p) \/ RemovePackage(p)
        \/ Refuse(p) \/ Fault(p)
    PROVE OneCommand' /\ Settled' /\ \A q \in Procs : CommandAt(q)'
  BY <1>1 DEF Next
<1>2. CASE Load(p)
  <2>1. calm /\ Quiescent /\ OneCommand /\ Settled
    BY <1>2 DEF Load, CalmInv
  <2>2. Loaded' = Loaded /\ cfg'[p] = Loaded /\ pc'[p] = "init" /\ file' # Corrupt
    BY <1>2 DEF Load, Goto, Loaded, TypeOK
  <2>3. CommandAt(p)'
    BY <2>1, <2>2 DEF Settled, CommandAt, Saving
  <2>4. \A q \in Procs : q # p => pc'[q] = "idle"
    BY <1>2, <2>1 DEF Load, Goto, Quiescent, TypeOK
  <2> QED BY <2>2, <2>3, <2>4, Alone
<1>3. CASE Rollback(p) \/ Fault(p)
  BY <1>3 DEF Rollback, Fault
<1> SUFFICES ASSUME SaveDefaults(p) \/ WriteDefaults(p)
        \/ AddRegistry(p) \/ RemoveRegistry(p) \/ TruncateFile(p) \/ WriteFile(p)
        \/ InstallPackage(p) \/ Activate(p) \/ RemovePackage(p) \/ Refuse(p)
    PROVE OneCommand' /\ Settled' /\ \A q \in Procs : CommandAt(q)'
  BY <1>2, <1>3
<1>4. /\ OneCommand /\ Settled /\ CommandAt(p) /\ pc[p] # "idle"
      /\ cfg[p] \in Config /\ Sound(cfg[p], bare) /\ job[p] \in Jobs
  BY DEF CalmInv, SaveDefaults, WriteDefaults, AddRegistry, RemoveRegistry, TruncateFile,
         WriteFile, InstallPackage, Activate, RemovePackage, Refuse, Fail, TypeOK, AllSound
<1>5. CASE SaveDefaults(p)
  <2>1. /\ file' # Corrupt /\ cfg' = cfg
        /\ IF file = Absent THEN file' = Empty /\ pc' = [pc EXCEPT ![p] = "initWrite"]
           ELSE file' = file /\ pc' = [pc EXCEPT ![p] = "run"]
    BY <1>4, <1>5, FileStates DEF SaveDefaults, Goto, OneCommand
  <2>2. file' = file => Loaded' = Loaded
    BY DEF Loaded
  <2>3. CommandAt(p)' /\ pc'[p] # "idle"
    BY <1>4, <1>5, <2>1, <2>2 DEF SaveDefaults, CommandAt, Saving, TypeOK
  <2> QED BY <1>4, <2>1, <2>3, Alone, OthersIdle
<1>6. CASE WriteDefaults(p)
  <2>1. /\ pc[p] = "initWrite" /\ PutFile(p) /\ cfg' = cfg
        /\ pc' = [pc EXCEPT ![p] = "run"]
    BY <1>6 DEF WriteDefaults, Goto
  <2>2. file' # Corrupt /\ Loaded' = Backfill(cfg[p])
    BY <1>4, <2>1, WriteLoads DEF CommandAt
  <2>3. Loaded' = cfg[p]
    BY <1>4, <2>1, <2>2, BackfillSound DEF CommandAt, Saving
  <2>4. CommandAt(p)' /\ pc'[p] = "run"
    BY <1>4, <2>1, <2>3 DEF CommandAt, Saving, TypeOK
  <2> QED BY <1>4, <2>1, <2>2, <2>4, Alone, OthersIdle
<1>7. CASE AddRegistry(p)
  <2>0. PICK r \in RegNames, f \in FlagChoices, d \in BOOLEAN :
            \E pol \in buildPolicy(f) :
              /\ ~FindRegistry(cfg[p], r)
              /\ cfg' = [cfg EXCEPT ![p] = UpsertRegistry(@, [name |-> r, policy |-> pol])]
              /\ job' = [job EXCEPT ![p] = [NoJob EXCEPT !.cmd = "add", !.name = r,
                                               !.second = d]]
    BY <1>7 DEF AddRegistry
  <2>1. PICK pol \in buildPolicy(f) :
            /\ ~FindRegistry(cfg[p], r)
            /\ cfg' = [cfg EXCEPT ![p] = UpsertRegistry(@, [name |-> r, policy |-> pol])]
            /\ job' = [job EXCEPT ![p] = [NoJob EXCEPT !.cmd = "add", !.name = r,
                                             !.second = d]]
    BY <2>0
  <2> DEFINE e == [name |-> r, policy |-> pol]
             c == UpsertRegistry(cfg[p], e)
  <2>2. cfg'[p] = c /\ job'[p].name = r
    BY <2>1 DEF TypeOK, NoJob
  <2>3. NamesIn(c) = NamesIn(cfg[p]) \cup {r} /\ c.default = cfg[p].default
    <3>1. e \in RegistryEntry /\ e.name = r
      BY BuildPolicyRight DEF RegistryEntry
    <3>2. IF e.policy = None THEN e.name \in bare \cup {r} ELSE Valid(e.policy)
      BY BuildPolicyRight
    <3>3. Sound(cfg[p], bare \cup {r})
      BY <1>4, SoundGrows
    <3> HIDE DEF e
    <3> QED BY <1>4, <2>1, <3>1, <3>2, <3>3, UpsertSound
  <2>4. FindRegistry(cfg[p], cfg[p].default)
    BY <1>4, <1>7 DEF AddRegistry, CommandAt, Saving
  <2> HIDE DEF c
  <2>5. pc' = [pc EXCEPT ![p] = "truncate"] /\ file' = file
    BY <1>7 DEF AddRegistry, Goto
  <2>6. CommandAt(p)' /\ pc'[p] # "idle"
    BY <2>2, <2>3, <2>4, <2>5 DEF CommandAt, Saving, DefaultLoads, FindRegistry, TypeOK
  <2> QED BY <1>4, <2>5, <2>6, Alone, OthersIdle DEF OneCommand
<1>8. CASE RemoveRegistry(p)
  <2>1. PICK r \in NamesIn(cfg[p]) :
            /\ cfg' = [cfg EXCEPT ![p] = DropRegistry(@, r)]
            /\ job' = [job EXCEPT ![p] = [NoJob EXCEPT !.cmd = "remove", !.name = r,
                                             !.second = (cfg[p].default = r)]]
    BY <1>8 DEF RemoveRegistry
  <2> DEFINE c == DropRegistry(cfg[p], r)
  <2>2. /\ cfg'[p] = c
        /\ job'[p].cmd = "remove" /\ (job'[p].second <=> cfg[p].default = r)
    BY <2>1 DEF TypeOK, NoJob
  <2>3. NamesIn(c) = NamesIn(cfg[p]) \ {r} /\ c.default = cfg[p].default
    BY <1>4, DropSound
  <2>4. FindRegistry(cfg[p], cfg[p].default)
    BY <1>4, <1>8 DEF RemoveRegistry, CommandAt, Saving
  <2> HIDE DEF c
  <2>5. pc' = [pc EXCEPT ![p] = "truncate"] /\ file' = file
    BY <1>8 DEF RemoveRegistry, Goto
  <2>6. CommandAt(p)' /\ pc'[p] # "idle"
    BY <2>2, <2>3, <2>4, <2>5 DEF CommandAt, Saving, DefaultLoads, FindRegistry, TypeOK
  <2> QED BY <1>4, <2>5, <2>6, Alone, OthersIdle DEF OneCommand
<1>9. CASE TruncateFile(p)
  <2>1. /\ pc[p] = "truncate" /\ pc' = [pc EXCEPT ![p] = "write"]
        /\ file' = Empty /\ UNCHANGED <<cfg, job>>
    BY <1>9 DEF TruncateFile, Goto
  <2>2. CommandAt(p)' /\ pc'[p] # "idle" /\ file' # Corrupt
    BY <1>4, <2>1, FileStates DEF CommandAt, Saving, TypeOK
  <2> QED BY <1>4, <2>1, <2>2, Alone, OthersIdle
<1>10. CASE WriteFile(p)
  <2>1. pc[p] = "write" /\ PutFile(p)
    BY <1>10 DEF WriteFile
  <2>2. file' # Corrupt /\ Loaded' = Backfill(cfg[p])
    BY <1>4, <2>1, WriteLoads DEF CommandAt
  <2>3. CASE job[p].second
    <3>1. /\ cfg' = [cfg EXCEPT ![p].default =
                        IF job[p].cmd = "add" THEN job[p].name ELSE None]
          /\ job' = [job EXCEPT ![p].second = FALSE]
          /\ pc' = [pc EXCEPT ![p] = "truncate"]
      BY <1>10, <2>3 DEF WriteFile, Goto
    <3>2. /\ cfg'[p].default = IF job[p].cmd = "add" THEN job[p].name ELSE None
          /\ cfg'[p].regs = cfg[p].regs
      BY <1>4, <3>1 DEF TypeOK, Config
    <3>3. NamesIn(cfg'[p]) = NamesIn(cfg[p])
      BY <3>2 DEF NamesIn
    <3>4. DefaultLoads(cfg'[p])
      BY <1>4, <2>1, <2>3, <3>2, <3>3 DEF CommandAt, Saving, DefaultLoads, FindRegistry
    <3>5. CommandAt(p)' /\ pc'[p] # "idle"
      BY <1>4, <3>1, <3>4 DEF CommandAt, Saving, TypeOK, Jobs
    <3> QED BY <1>4, <2>2, <3>1, <3>5, Alone, OthersIdle
  <2>4. CASE ~job[p].second
    <3>1. pc' = [pc EXCEPT ![p] = "idle"]
      BY <1>10, <2>4 DEF WriteFile, Return, Goto
    <3>2. FindRegistry(Loaded', Loaded'.default)
      BY <1>4, <2>1, <2>2, <2>4, BackfillSound DEF CommandAt, Saving
    <3>3. CommandAt(p)'
      BY <3>1 DEF CommandAt, Saving, TypeOK
    <3> QED BY <1>4, <2>2, <3>1, <3>2, <3>3, Alone, OthersIdle
  <2> QED BY <2>3, <2>4
<1>11. CASE InstallPackage(p)
  <2>1. /\ pc[p] = "run" /\ pc' = [pc EXCEPT ![p] = "activate"]
        /\ UNCHANGED <<file, cfg>>
    BY <1>11 DEF InstallPackage, Goto
  <2>2. Loaded' = Loaded
    BY <2>1 DEF Loaded
  <2>3. CommandAt(p)' /\ pc'[p] # "idle"
    BY <1>4, <2>1, <2>2 DEF CommandAt, Saving, TypeOK
  <2> QED BY <1>4, <2>1, <2>3, Alone, OthersIdle DEF OneCommand
<1>12. CASE Activate(p) \/ RemovePackage(p) \/ Refuse(p)
  <2>1. /\ pc[p] \in {"run", "activate"} /\ pc' = [pc EXCEPT ![p] = "idle"]
        /\ file' = file
    BY <1>12 DEF Activate, RemovePackage, Refuse, Fail, Return, Goto
  <2>2. Loaded' = Loaded
    BY <2>1 DEF Loaded
  <2>3. FindRegistry(Loaded', Loaded'.default)
    BY <1>4, <2>1, <2>2 DEF CommandAt, Saving
  <2>4. CommandAt(p)'
    BY <2>1 DEF CommandAt, Saving, TypeOK
  <2> QED BY <1>4, <2>1, <2>3, <2>4, Alone, OthersIdle DEF OneCommand
<1> QED BY <1>5, <1>6, <1>7, <1>8, <1>9, <1>10, <1>11, <1>12

LEMMA CalmCorrect == Spec => [](TypeOK /\ AllSound /\ CalmInv)
<1>1. Init => CalmInv
  BY CalmInit
<1>2. TypeOK /\ AllSound /\ TypeOK' /\ CalmInv /\ [Next]_vars => CalmInv'
  BY CalmNext
<1> QED BY <1>1, <1>2, SoundCorrect, PTL DEF Spec

\* The default the next command loads is a configured registry, unless commands
\* overlapped or were cut short (newAddRegistryCommand, Remove, Load).
THEOREM DefaultConfiguredCorrect == Spec => []DefaultConfigured
<1>1. CalmInv => DefaultConfigured
  BY DEF CalmInv, Settled, DefaultConfigured
<1> QED BY <1>1, CalmCorrect, PTL

-------------------------------------------------------------------------------
\* One command at a time: the sources of the packages

LEMMA SourcesInit == Init => SourcesKept
BY DEF Init, SourcesKept, Sources, NoPackage

LEMMA SourcesStep ==
    ASSUME TypeOK, TypeOK', NEW p \in Procs,
           \A q \in Procs : q # p => pc'[q] = "idle",
           pc'[p] # "idle" => Sources(cfg[p])',
           pc'[p] = "activate" => FindRegistry(cfg'[p], job'[p].name),
           pc'[p] = "idle" => Sources(Loaded)'
    PROVE  SourcesKept'
BY DEF SourcesKept, Quiescent, Sources

LEMMA SourcesNext ==
    ASSUME TRUE \notin ForceOptions
    PROVE  TypeOK /\ AllSound /\ TypeOK' /\ CalmInv /\ SourcesKept /\ [Next]_vars
              => SourcesKept'
<1> SUFFICES ASSUME TypeOK, AllSound, TypeOK', CalmInv, SourcesKept, [Next]_vars, calm'
             PROVE  SourcesKept'
  BY DEF SourcesKept
<1>1. CASE UNCHANGED vars
  BY <1>1 DEF vars, SourcesKept, Sources, Quiescent, Loaded
<1> SUFFICES ASSUME NEW p \in Procs,
        Load(p) \/ SaveDefaults(p) \/ WriteDefaults(p)
        \/ AddRegistry(p) \/ RemoveRegistry(p) \/ TruncateFile(p) \/ WriteFile(p)
        \/ InstallPackage(p) \/ Activate(p) \/ Rollback(p) \/ RemovePackage(p)
        \/ Refuse(p) \/ Fault(p)
    PROVE SourcesKept'
  BY <1>1 DEF Next
<1>2. CASE Load(p)
  <2>1. calm /\ Quiescent
    BY <1>2 DEF Load
  <2>2. /\ cfg'[p] = Loaded /\ pc'[p] = "init" /\ pkg' = pkg
        /\ \A q \in Procs : q # p => pc'[q] = "idle"
    BY <1>2, <2>1 DEF Load, Goto, Quiescent, TypeOK
  <2>3. Sources(Loaded)
    BY <2>1 DEF SourcesKept
  <2>4. Sources(cfg[p])'
    BY <2>2, <2>3 DEF Sources
  <2> QED BY <2>2, <2>4, SourcesStep
<1>3. CASE Rollback(p) \/ Fault(p)
  BY <1>3 DEF Rollback, Fault
<1> SUFFICES ASSUME SaveDefaults(p) \/ WriteDefaults(p)
        \/ AddRegistry(p) \/ RemoveRegistry(p) \/ TruncateFile(p) \/ WriteFile(p)
        \/ InstallPackage(p) \/ Activate(p) \/ RemovePackage(p) \/ Refuse(p)
    PROVE SourcesKept'
  BY <1>2, <1>3
<1>4. /\ calm /\ OneCommand /\ CommandAt(p) /\ pc[p] # "idle"
      /\ cfg[p] \in Config /\ Sound(cfg[p], bare) /\ job[p] \in Jobs
      /\ Sources(cfg[p])
      /\ pc[p] = "activate" => FindRegistry(cfg[p], job[p].name)
  BY DEF CalmInv, SourcesKept, SaveDefaults, WriteDefaults, AddRegistry, RemoveRegistry,
         TruncateFile, WriteFile, InstallPackage, Activate, RemovePackage, Refuse, Fail,
         TypeOK, AllSound
<1>5. CASE SaveDefaults(p) \/ WriteDefaults(p) \/ TruncateFile(p)
  <2>1. PICK l \in {"initWrite", "run", "write"} :
            pc' = [pc EXCEPT ![p] = l] /\ UNCHANGED <<cfg, pkg>>
    BY <1>5 DEF SaveDefaults, WriteDefaults, TruncateFile, Goto
  <2>2. pc'[p] = l
    BY <2>1 DEF TypeOK
  <2>3. Sources(cfg[p])'
    BY <1>4, <2>1 DEF Sources
  <2> QED BY <1>4, <2>1, <2>2, <2>3, SourcesStep, OthersIdle
<1>6. CASE AddRegistry(p)
  <2>0. PICK r \in RegNames, f \in FlagChoices, d \in BOOLEAN :
            \E pol \in buildPolicy(f) :
              /\ ~FindRegistry(cfg[p], r)
              /\ cfg' = [cfg EXCEPT ![p] = UpsertRegistry(@, [name |-> r, policy |-> pol])]
    BY <1>6 DEF AddRegistry
  <2>1. PICK pol \in buildPolicy(f) :
            /\ ~FindRegistry(cfg[p], r)
            /\ cfg' = [cfg EXCEPT ![p] = UpsertRegistry(@, [name |-> r, policy |-> pol])]
    BY <2>0
  <2> DEFINE e == [name |-> r, policy |-> pol]
  <2>2. NamesIn(UpsertRegistry(cfg[p], e)) = NamesIn(cfg[p]) \cup {r}
    <3>1. e \in RegistryEntry /\ e.name = r
      BY BuildPolicyRight DEF RegistryEntry
    <3>2. IF e.policy = None THEN e.name \in bare \cup {r} ELSE Valid(e.policy)
      BY BuildPolicyRight
    <3>3. Sound(cfg[p], bare \cup {r})
      BY <1>4, SoundGrows
    <3> HIDE DEF e
    <3> QED BY <1>4, <2>1, <3>1, <3>2, <3>3, UpsertSound
  <2>3. NamesIn(cfg'[p]) = NamesIn(cfg[p]) \cup {r}
    BY <2>1, <2>2 DEF TypeOK
  <2>4. pc' = [pc EXCEPT ![p] = "truncate"] /\ pc'[p] = "truncate" /\ pkg' = pkg
    BY <1>6 DEF AddRegistry, Goto, TypeOK
  <2>5. Sources(cfg[p])'
    BY <1>4, <2>3, <2>4 DEF Sources, FindRegistry
  <2> QED BY <1>4, <2>4, <2>5, SourcesStep, OthersIdle
<1>7. CASE RemoveRegistry(p)
  <2>1. PICK r \in NamesIn(cfg[p]) :
            /\ \A k \in Packages : pkg[k].cur # r
            /\ cfg' = [cfg EXCEPT ![p] = DropRegistry(@, r)]
    BY <1>7, RegistryAssumption DEF RemoveRegistry
  <2>2. NamesIn(cfg'[p]) = NamesIn(cfg[p]) \ {r}
    BY <1>4, <2>1, DropSound DEF TypeOK
  <2>3. pc' = [pc EXCEPT ![p] = "truncate"] /\ pc'[p] = "truncate" /\ pkg' = pkg
    BY <1>7 DEF RemoveRegistry, Goto, TypeOK
  <2>4. Sources(cfg[p])'
    BY <1>4, <2>1, <2>2, <2>3 DEF Sources, FindRegistry
  <2> QED BY <1>4, <2>3, <2>4, SourcesStep, OthersIdle
<1>8. CASE WriteFile(p)
  <2>1. pc[p] = "write" /\ PutFile(p) /\ pkg' = pkg
    BY <1>8 DEF WriteFile
  <2>2. CASE job[p].second
    <3>1. /\ cfg' = [cfg EXCEPT ![p].default =
                        IF job[p].cmd = "add" THEN job[p].name ELSE None]
          /\ pc' = [pc EXCEPT ![p] = "truncate"]
      BY <1>8, <2>2 DEF WriteFile, Goto
    <3>2. cfg'[p].regs = cfg[p].regs /\ pc'[p] = "truncate"
      BY <1>4, <3>1 DEF TypeOK, Config
    <3>3. NamesIn(cfg'[p]) = NamesIn(cfg[p])
      BY <3>2 DEF NamesIn
    <3>4. Sources(cfg[p])'
      BY <1>4, <2>1, <3>3 DEF Sources, FindRegistry
    <3> QED BY <1>4, <3>1, <3>2, <3>4, SourcesStep, OthersIdle
  <2>3. CASE ~job[p].second
    <3>1. pc' = [pc EXCEPT ![p] = "idle"] /\ pc'[p] = "idle"
      BY <1>8, <2>3 DEF WriteFile, Return, Goto, TypeOK
    <3>2. Loaded' = Backfill(cfg[p])
      BY <1>4, <2>1, WriteLoads DEF CommandAt
    <3>3. NamesIn(cfg[p]) \subseteq NamesIn(Loaded')
      BY <1>4, <3>2, BackfillSound
    <3>4. Sources(Loaded)'
      BY <1>4, <2>1, <3>3 DEF Sources, FindRegistry
    <3> QED BY <1>4, <3>1, <3>4, SourcesStep, OthersIdle
  <2> QED BY <2>2, <2>3
<1>9. CASE InstallPackage(p)
  <2>1. PICK k \in Packages, r \in NamesIn(cfg[p]) :
            job' = [job EXCEPT ![p] = [NoJob EXCEPT !.name = r, !.pkg = k]]
    BY <1>9 DEF InstallPackage
  <2>2. /\ pc' = [pc EXCEPT ![p] = "activate"] /\ pc'[p] = "activate"
        /\ UNCHANGED <<cfg, pkg>>
    BY <1>9 DEF InstallPackage, Goto, TypeOK
  <2>3. job'[p].name = r
    BY <2>1 DEF TypeOK, NoJob
  <2>4. FindRegistry(cfg'[p], job'[p].name) /\ Sources(cfg[p])'
    BY <1>4, <2>2, <2>3 DEF FindRegistry, Sources
  <2> QED BY <1>4, <2>2, <2>4, SourcesStep, OthersIdle
<1>10. CASE Activate(p) \/ RemovePackage(p) \/ Refuse(p)
  <2>1. /\ pc[p] \in {"run", "activate"} /\ file' = file
        /\ pc' = [pc EXCEPT ![p] = "idle"] /\ pc'[p] = "idle"
    BY <1>10 DEF Activate, RemovePackage, Refuse, Fail, Return, Goto, TypeOK
  <2>2. Loaded' = cfg[p]
    BY <1>4, <2>1 DEF CommandAt, Loaded
  <2>3. \A k \in Packages : pkg'[k].cur # None => FindRegistry(cfg[p], pkg'[k].cur)
    <3>1. CASE Activate(p)
      BY <1>4, <3>1 DEF Activate, TypeOK, Sources
    <3>2. CASE RemovePackage(p)
      BY <1>4, <3>2 DEF RemovePackage, NoPackage, TypeOK, Sources
    <3>3. CASE Refuse(p)
      BY <1>4, <3>3 DEF Refuse, Fail, Sources
    <3> QED BY <1>10, <3>1, <3>2, <3>3
  <2>4. Sources(Loaded)'
    BY <2>2, <2>3 DEF Sources
  <2> QED BY <1>4, <2>1, <2>4, SourcesStep, OthersIdle
<1> QED BY <1>5, <1>6, <1>7, <1>8, <1>9, <1>10

\* The registry of every active version stays configured, without --force, as
\* long as commands neither overlap nor break off and no retained version is
\* brought back (newRemoveRegistryCommand).
THEOREM PackagesUpdatableCorrect ==
    ASSUME TRUE \notin ForceOptions
    PROVE  Spec => []PackagesUpdatable
<1>1. Init => SourcesKept
  BY SourcesInit
<1>2. TypeOK /\ AllSound /\ TypeOK' /\ CalmInv /\ SourcesKept /\ [Next]_vars
         => SourcesKept'
  BY SourcesNext
<1>3. SourcesKept => PackagesUpdatable
  BY DEF SourcesKept, Sources, PackagesUpdatable
<1> QED BY <1>1, <1>2, <1>3, CalmCorrect, PTL DEF Spec
===============================================================================
