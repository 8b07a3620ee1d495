----------------------------- MODULE RegistryAccess -----------------------------
(***************************************************************************)
(* The commands that share auth.json and the cache: dz login, logout,       *)
(* search, purge, and every command that asks a registry for an image.  A   *)
(* request carries what the keychain finds in auth.json at that moment, and *)
(* it goes by the canonical name of what was asked for: the library gives   *)
(* docker.io its older name before the keychain sees it.                    *)
(***************************************************************************)
EXTENDS CredentialStore, CatalogCache

CONSTANTS
    Resources,      \* repositories that commands ask for, as configured
    HubAlias, Hub,  \* docker.io, and index.docker.io, its canonical name
    Accepts         \* Accepts[h]: the users, perhaps NoUser, host h answers to

ASSUME AccessAssumption ==
    /\ Searchers = Procs /\ Servers \subseteq Hosts
    /\ Resources \subseteq Key /\ {HubAlias, Hub} \subseteq Hosts
    /\ Accepts \in [Hosts -> SUBSET (Users \cup {NoUser})]

VARIABLES
    purging,    \* purging[p]: what the purge of p has still to remove
    sent        \* the request the last step sent: for what, as whom

accessVars == <<credentialVars, catalogVars, purging, sent>>

TypeOK ==
    /\ CredentialTypeOK /\ CatalogTypeOK
    /\ purging \in [Procs -> SUBSET {"auth", "cache"}]
    /\ sent \in {Nothing} \cup [resource: Key, user: Users \cup {NoUser}]

Init ==
    /\ CredentialInit /\ CatalogInit
    /\ purging = [p \in Procs |-> {}] /\ sent = Nothing

Idle(p) == work[p] = Done /\ search[p] = Still /\ purging[p] = {}

\* name.NewRegistry, NewRepository and ParseReference.  A path is one with a
\* namespace; one without it would be put below library/ as well.
Canonical(key) == IF key.host = HubAlias THEN [key EXCEPT !.host = Hub] ELSE key

Request(asked) ==
    sent' = [resource |-> Canonical(asked),
             user |-> Resolve(auth.entries, Canonical(asked))]
Silent == sent' = Nothing
-------------------------------------------------------------------------------
\* login and logout, alone on their process.
Credentials(p) ==
    /\ \/ Idle(p) /\ (Login(p) \/ Logout(p))
       \/ Truncate(p) \/ Write(p) \/ RemoveAuth(p) \/ CredentialCrash(p)
    /\ shown' = Nothing /\ Silent
    /\ UNCHANGED <<World, cache, search, purging>>

BeginSearch(p) ==
    /\ Idle(p) /\ Command
    /\ StartSearch(p) /\ Silent
    /\ UNCHANGED <<authVars, crashes, purging>>

\* The catalog is asked for as whoever the keychain says, and its later pages as
\* the same; a server that does not answer to them has no catalog for dz.
Ask(p) ==
    /\ search[p].pc = "fetch"
    /\ Request(HostKey(search[p].url.host))
    /\ \/ sent'.user \in Accepts[sent'.resource.host] /\ Fetch(p)
       \/ FetchFails(p)
    /\ UNCHANGED <<credentialVars, purging>>

Search(p) ==
    /\ \/ GetCatalog(p) \/ Discard(p) \/ OpenEntry(p) \/ WriteEntry(p) \/ SearchEnds(p)
       \/ search[p].pc = "pages" /\ (FetchNext(p) \/ FetchFails(p))
    /\ Silent
    /\ UNCHANGED <<credentialVars, purging>>

\* Tags, Digest, Pull and the calls for signatures: a repository is asked for.
AskForImage(p) ==
    /\ Idle(p)
    /\ \E r \in Resources : Request(r)
    /\ shown' = Nothing
    /\ UNCHANGED <<credentialVars, World, cache, search, purging>>

\* purge: os.RemoveAll, one thing after the other, in either order, while other
\* commands go on.
StartPurge(p) ==
    /\ Idle(p) /\ Command
    /\ purging' = [purging EXCEPT ![p] = {"auth", "cache"}]
    /\ shown' = Nothing /\ Silent
    /\ UNCHANGED <<authVars, crashes, World, cache, search>>

PurgeAuth(p) ==
    /\ "auth" \in purging[p]
    /\ Unlink
    /\ Leaves(NoEntries)
    /\ purging' = [purging EXCEPT ![p] = @ \ {"auth"}]
    /\ shown' = Nothing /\ Silent
    /\ UNCHANGED <<entered, commands, crashes, World, cache, search>>

PurgeCache(p) ==
    /\ "cache" \in purging[p]
    /\ cache' = [n \in Names |-> Nothing]
    /\ search' = [q \in Procs |-> IF search[q].pc = "write"
                                  THEN [search[q] EXCEPT !.open = FALSE] ELSE search[q]]
    /\ purging' = [purging EXCEPT ![p] = @ \ {"cache"}]
    /\ shown' = Nothing /\ Silent
    /\ UNCHANGED <<credentialVars, World>>

Outside ==
    /\ \/ \E h \in Servers : Push(h)
       \/ \E n \in Names : Reconfigure(n)
       \/ Tick
    /\ Silent
    /\ UNCHANGED <<credentialVars, purging>>

Next ==
    \/ \E p \in Procs :
          \/ Credentials(p)
          \/ BeginSearch(p) \/ Ask(p) \/ Search(p)
          \/ AskForImage(p)
          \/ StartPurge(p) \/ PurgeAuth(p) \/ PurgeCache(p)
    \/ Outside

Spec == Init /\ [][Next]_accessVars
-------------------------------------------------------------------------------
\* Who dz is to a registry asked by the name r, when f is what has been entered:
\* the user for the repository, or for its host, or the one Docker knows.
Meant(f, r) ==
    CASE r \in DOMAIN f -> f[r]
      [] r \notin DOMAIN f /\ HostKey(r.host) \in DOMAIN f -> f[HostKey(r.host)]
      [] OTHER -> DockerOf[r.host]

\* A host is sent the credentials the user entered for it, or for the very
\* repository asked for, or has given to Docker for it, and no others: whatever
\* commands overlap, crash, tear the file or reconfigure registries, and by
\* whichever name the host was asked for (lookup, Resolve, registryHost).
OwnCredentials ==
    sent # Nothing =>
        \/ sent.user \in {NoUser, DockerOf[sent.resource.host]}
        \/ <<HostKey(sent.resource.host), sent.user>> \in entered
        \/ <<sent.resource, sent.user>> \in entered

\* As long as commands on auth.json neither overlap nor break off, a request
\* carries what the completed logins, logouts and purges have left for the NAME
\* it goes by, whatever searches run meanwhile: no login for that name is
\* forgotten, and none outlives its logout (Save, Delete, lookup, Resolve).  A
\* login for another name of the same host is not among them (README.md): the
\* code keeps it and never uses it.
LoginsKept ==
    sent # Nothing /\ calm /\ Busy = {} => sent.user = Meant(kept, sent.resource)
===============================================================================
