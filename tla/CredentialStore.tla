----------------------------- MODULE CredentialStore -----------------------------
(***************************************************************************)
(* auth.json: dz login and dz logout load it, change one entry and write it *)
(* back, with no lock and no temporary file; every call to a registry reads *)
(* it.  A write truncates and then writes, and whatever else was done to    *)
(* the file in between shows: a writer may find the file written again by   *)
(* another (the longer of the two leaves its tail behind) or removed (what  *)
(* it writes is lost with the name).                                        *)
(*                                                                          *)
(* A key is what the user typed: a host, or a host and a path below it.  A  *)
(* password is its user.  What the Docker configuration of the user has for *)
(* a host is the last resort.                                               *)
(***************************************************************************)
EXTENDS Integers, FiniteSets, Functions

CONSTANTS
    Procs,          \* dz processes
    Hosts,
    Paths,          \* paths below a host; "" is the host alone
    Keys,           \* what is typed at login
    Users,
    DockerOf,       \* DockerOf[h]: the user docker login has for h, or NoUser
    NoUser,         \* no credential: anonymous
    MaxCommands,    \* bound: dz commands
    MaxCrashes      \* bound: kills and writes that break off

Key == [host: Hosts, path: Paths]
HostKey(h) == [host |-> h, path |-> ""]

ASSUME CredentialAssumption ==
    /\ "" \in Paths /\ Keys \subseteq Key /\ NoUser \notin Users
    /\ DockerOf \in [Hosts -> Users \cup {NoUser}]
    /\ MaxCommands \in Nat /\ MaxCrashes \in Nat

VARIABLES
    auth,       \* auth.json: whether it is there and parses, and its entries
    work,       \* work[p]: where the command of p is, the entries it will
                \* write, and whether its file still has the name
    calm,       \* history: no two commands on auth.json at once, and no crash
    kept,       \* history: if so, the entries the commands should have left
    entered,    \* history: the users ever entered for a key
    commands, crashes

authVars == <<auth, work, calm, kept, entered>>
credentialVars == <<authVars, commands, crashes>>
-------------------------------------------------------------------------------
NoEntries == [k \in {} |-> NoUser]
EntrySets == UNION {[S -> Users] : S \in SUBSET Keys}
Gone    == [state |-> "absent", entries |-> NoEntries]
Empty   == [state |-> "empty", entries |-> NoEntries]
Corrupt == [state |-> "corrupt", entries |-> NoEntries]
Whole(f) == [state |-> "whole", entries |-> f]

Done == [pc |-> "idle", mem |-> NoEntries, open |-> FALSE]
Works == [pc: {"idle", "truncate", "write", "remove"}, mem: EntrySets, open: BOOLEAN]

CredentialTypeOK ==
    /\ auth \in {Gone, Empty, Corrupt} \cup {Whole(f) : f \in EntrySets}
    /\ work \in [Procs -> Works]
    /\ kept \in EntrySets
    /\ entered \subseteq Keys \X Users
    /\ calm \in BOOLEAN
    /\ commands \in 0..MaxCommands /\ crashes \in 0..MaxCrashes

CredentialInit ==
    /\ auth = Gone /\ work = [p \in Procs |-> Done]
    /\ kept = NoEntries /\ entered = {} /\ calm = TRUE
    /\ commands = 0 /\ crashes = 0

\* Mutant: the entry of any key on the host will do.
lookupAnyPath(entries, key) ==
    LET near == {k \in DOMAIN entries : k.host = key.host} IN
    IF key \in DOMAIN entries THEN entries[key]
    ELSE IF near # {} THEN entries[CHOOSE k \in near : TRUE]
    ELSE NoUser

\* lookup: the entry of the key itself, then that of its host.
lookup(entries, key) ==
    IF key \in DOMAIN entries THEN entries[key]
    ELSE IF HostKey(key.host) \in DOMAIN entries THEN entries[HostKey(key.host)]
    ELSE NoUser

\* Resolve on the chained keychain: a file that does not parse has nothing, and
\* what it does not have is asked of Docker's.  The two look-ups each load the
\* file; a command that ends in between is taken to end before or after both.
Resolve(entries, resource) ==
    LET own == IF lookup(entries, resource) # NoUser THEN lookup(entries, resource)
               ELSE lookup(entries, HostKey(resource.host))
    IN IF own # NoUser THEN own ELSE DockerOf[resource.host]

Busy == {p \in Procs : work[p].pc # "idle"}

\* A command leaves f, if it is alone with the file.
Leaves(f) ==
    /\ calm' = (calm /\ Busy = {})
    /\ kept' = IF calm' THEN f ELSE NoEntries

\* A command begins, or a step of one that leaves the file.
Command == commands < MaxCommands /\ commands' = commands + 1
Finish(p) == work' = [work EXCEPT ![p] = Done]
-------------------------------------------------------------------------------
\* The entries with u for k.
With(entries, k, u) == [x \in DOMAIN entries \cup {k} |-> IF x = k THEN u ELSE entries[x]]

\* Mutant: the file is built anew from what was typed.
SavedAlone(entries, k, u) == With(NoEntries, k, u)

\* The entries that Save writes.
Saved(entries, k, u) == With(entries, k, u)

\* Save up to its write: load, and the entry in place of the old one.  A file
\* that does not parse is an error.
Login(p) ==
    /\ work[p] = Done /\ Command
    /\ \E k \in Keys, u \in Users :
          /\ entered' = entered \cup {<<k, u>>}
          /\ Leaves(With(kept, k, u))
          /\ IF auth = Corrupt THEN UNCHANGED work
             ELSE work' = [work EXCEPT ![p].pc = "truncate",
                                       ![p].mem = Saved(auth.entries, k, u)]
    /\ UNCHANGED <<auth, crashes>>

\* Delete up to its write: no entry, no change; the last one takes the file
\* with it.
Logout(p) ==
    /\ work[p] = Done /\ Command
    /\ \E k \in Keys :
          LET rest == Restrict(auth.entries, DOMAIN auth.entries \ {k}) IN
          /\ Leaves(Restrict(kept, DOMAIN kept \ {k}))
          /\ IF k \notin DOMAIN auth.entries THEN UNCHANGED work
             ELSE work' = [work EXCEPT ![p].pc = IF rest = NoEntries THEN "remove"
                                                 ELSE "truncate",
                                       ![p].mem = rest]
    /\ UNCHANGED <<auth, entered, crashes>>

\* write: os.WriteFile opens the file, empty from then on.
Truncate(p) ==
    /\ work[p].pc = "truncate"
    /\ auth' = Empty
    /\ work' = [work EXCEPT ![p].pc = "write", ![p].open = TRUE]
    /\ UNCHANGED <<kept, entered, calm, commands, crashes>>

\* write: the entries, in one piece.  Over the entries of another writer the
\* tail of the longer text remains.
Write(p) ==
    /\ work[p].pc = "write"
    /\ \/ ~work[p].open /\ UNCHANGED auth
       \/ work[p].open /\ auth' = Whole(work[p].mem)
       \/ work[p].open /\ auth \notin {Empty, Whole(work[p].mem)} /\ auth' = Corrupt
    /\ Finish(p)
    /\ UNCHANGED <<kept, entered, calm, commands, crashes>>

\* auth.json goes, and with it the name of the files others have open.
Unlink ==
    /\ auth' = Gone
    /\ work' = [q \in Procs |-> [work[q] EXCEPT !.open = FALSE]]

\* Delete: os.Remove.
RemoveAuth(p) ==
    /\ work[p].pc = "remove"
    /\ auth' = Gone
    /\ work' = [q \in Procs |-> IF q = p THEN Done ELSE [work[q] EXCEPT !.open = FALSE]]
    /\ UNCHANGED <<kept, entered, calm, commands, crashes>>

\* The process is killed, or its write breaks off, part of it written or none.
CredentialCrash(p) ==
    /\ p \in Busy
    /\ crashes < MaxCrashes /\ crashes' = crashes + 1
    /\ \/ UNCHANGED auth
       \/ work[p].open /\ auth' = Corrupt
    /\ Finish(p) /\ calm' = FALSE /\ kept' = NoEntries
    /\ UNCHANGED <<entered, commands>>

CredentialNext ==
    \E p \in Procs : \/ Login(p) \/ Logout(p)
                     \/ Truncate(p) \/ Write(p) \/ RemoveAuth(p)
                     \/ CredentialCrash(p)
===============================================================================
