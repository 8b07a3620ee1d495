-------------------------- MODULE RegistryAccessProofs --------------------------
(***************************************************************************)
(* What the commands on auth.json and on the cache keep true of what is     *)
(* sent to a registry and shown to the user, for any number of processes,   *)
(* hosts, users and crashes.                                                *)
(***************************************************************************)
EXTENDS RegistryAccess, TLAPS

-------------------------------------------------------------------------------
\* The inductive invariants

\* Nothing is in a file, in a process or remembered that no user has entered.
EnteredOnly(f) == \A k \in DOMAIN f : <<k, f[k]>> \in entered

CredentialsEntered ==
    /\ EnteredOnly(auth.entries) /\ EnteredOnly(kept)
    /\ \A p \in Procs : EnteredOnly(work[p].mem)

\* As long as commands on auth.json neither overlap nor break off there is one
\* at most, and it has in hand what it is to leave.
OneWriter ==
    /\ auth # Corrupt
    /\ \A p, q \in Busy : p = q
    /\ Busy = {} => auth.entries = kept
    /\ \A p \in Procs :
          /\ work[p].pc \in {"truncate", "write"} => work[p].mem = kept
          /\ work[p].pc = "write" => work[p].open /\ auth = Empty
          /\ work[p].pc = "remove" => kept = NoEntries

WriterInv == calm => OneWriter

\* The pages of the listing l are ones that a URL of the name n advertised at t.
Backed(n, l, t) ==
    /\ <<n, l.url>> \in history.configured
    /\ \A v \in l.versions :
          [url |-> l.url, version |-> v, at |-> t] \in history.advertised

HistoryOK ==
    /\ history = [advertised |-> history.advertised, configured |-> history.configured]
    /\ \A n \in Names : <<n, conf[n]>> \in history.configured
    /\ \A u \in URLs :
          [url |-> u, version |-> catalog[u.host], at |-> now] \in history.advertised

CacheBacked ==
    \A n \in Names : cache[n] \notin {Nothing, Broken} =>
        cache[n].at <= now /\ Backed(n, cache[n].listing, cache[n].at)

\* A listing in hand is of this tick.
SearchBacked ==
    \A p \in Procs : search[p] # Still =>
        /\ <<search[p].name, search[p].url>> \in history.configured
        /\ search[p].pc \in {"pages", "open", "write"} =>
              Backed(search[p].name, search[p].listing, now)
        /\ search[p].pc = "pages" => search[p].listing.url = search[p].url
        /\ search[p].pc = "write" => search[p].at = now

CatalogInv == HistoryOK /\ CacheBacked /\ SearchBacked

-------------------------------------------------------------------------------
\* Entries

LEMMA EntriesType ==
    ASSUME NEW f \in EntrySets
    PROVE  f \in [DOMAIN f -> Users] /\ DOMAIN f \subseteq Keys
BY DEF EntrySets

LEMMA EntriesIntro ==
    ASSUME NEW S \in SUBSET Keys, NEW f \in [S -> Users]
    PROVE  f \in EntrySets
BY DEF EntrySets

LEMMA NoEntriesType ==
    /\ DOMAIN NoEntries = {} /\ NoEntries \in EntrySets
    /\ EnteredOnly(NoEntries)
<1>1. DOMAIN NoEntries = {}
  BY DEF NoEntries
<1>2. NoEntries \in [{} -> Users]
  BY DEF NoEntries
<1> QED BY <1>1, <1>2, EntriesIntro DEF EnteredOnly

LEMMA WithType ==
    ASSUME NEW f \in EntrySets, NEW k \in Keys, NEW u \in Users
    PROVE  /\ With(f, k, u) \in EntrySets
           /\ DOMAIN With(f, k, u) = DOMAIN f \cup {k}
           /\ \A x \in DOMAIN f \cup {k} :
                 With(f, k, u)[x] = IF x = k THEN u ELSE f[x]
<1>1. With(f, k, u) \in [DOMAIN f \cup {k} -> Users] /\ DOMAIN f \cup {k} \in SUBSET Keys
  BY EntriesType DEF With
<1>2. With(f, k, u) \in EntrySets
  BY <1>1, EntriesIntro
<1> QED BY <1>2 DEF With

LEMMA RestrictType ==
    ASSUME NEW f \in EntrySets, NEW k
    PROVE  /\ Restrict(f, DOMAIN f \ {k}) \in EntrySets
           /\ DOMAIN Restrict(f, DOMAIN f \ {k}) = DOMAIN f \ {k}
           /\ \A x \in DOMAIN f \ {k} : Restrict(f, DOMAIN f \ {k})[x] = f[x]
           /\ k \notin DOMAIN f => Restrict(f, DOMAIN f \ {k}) = f
<1>1. Restrict(f, DOMAIN f \ {k}) \in [DOMAIN f \ {k} -> Users]
  BY EntriesType DEF Restrict
<1>2. Restrict(f, DOMAIN f \ {k}) \in EntrySets
  BY <1>1, EntriesType, EntriesIntro
<1>3. /\ DOMAIN Restrict(f, DOMAIN f \ {k}) = DOMAIN f \ {k}
      /\ \A x \in DOMAIN f \ {k} : Restrict(f, DOMAIN f \ {k})[x] = f[x]
  BY DEF Restrict
<1>4. k \notin DOMAIN f => Restrict(f, DOMAIN f \ {k}) = f
  BY <1>1, EntriesType DEF Restrict
<1> QED BY <1>2, <1>3, <1>4

\* The user sent for a resource is one of the entries looked at, or Docker's.
LEMMA ResolveFrom ==
    ASSUME NEW f \in EntrySets, NEW r \in Key
    PROVE  /\ Resolve(f, r) \in Users \cup {NoUser}
           /\ \/ Resolve(f, r) = DockerOf[r.host]
              \/ r \in DOMAIN f /\ Resolve(f, r) = f[r]
              \/ HostKey(r.host) \in DOMAIN f /\ Resolve(f, r) = f[HostKey(r.host)]
<1>1. /\ DockerOf[r.host] \in Users \cup {NoUser} /\ HostKey(r.host).host = r.host
      /\ \A k \in DOMAIN f : f[k] \in Users /\ f[k] # NoUser
  BY EntriesType, CredentialAssumption DEF Key, HostKey
<1> QED BY <1>1 DEF Resolve, lookup

-------------------------------------------------------------------------------
\* Types

CredentialStep ==
    \/ \E p \in Procs : \/ Login(p) \/ Logout(p) \/ Truncate(p) \/ Write(p)
                        \/ RemoveAuth(p) \/ CredentialCrash(p)
    \/ \E p \in Procs : PurgeAuth(p)
    \/ UNCHANGED authVars /\ UNCHANGED crashes /\ Command
    \/ UNCHANGED credentialVars

LEMMA WorkType ==
    ASSUME CredentialTypeOK, NEW p \in Procs
    PROVE  /\ work[p] \in Works /\ work[p].mem \in EntrySets
           /\ auth.entries \in EntrySets
           /\ Done \in Works
           /\ \A f \in EntrySets : Whole(f).entries = f /\ Whole(f).state = "whole"
BY NoEntriesType DEF CredentialTypeOK, Works, Gone, Empty, Corrupt, Whole, Done

LEMMA CredentialTypes == CredentialTypeOK /\ CredentialStep => CredentialTypeOK'
<1> SUFFICES ASSUME CredentialTypeOK, CredentialStep PROVE CredentialTypeOK'
  OBVIOUS
<1>0. MaxCommands \in Nat /\ MaxCrashes \in Nat /\ NoEntries \in EntrySets
  BY CredentialAssumption, NoEntriesType
<1>1. Command => commands' \in 0..MaxCommands
  BY <1>0 DEF Command, CredentialTypeOK
<1>2. ASSUME NEW p \in Procs, Login(p) PROVE CredentialTypeOK'
  <2>1. PICK k \in Keys, u \in Users :
          /\ entered' = entered \cup {<<k, u>>}
          /\ Leaves(With(kept, k, u))
          /\ IF auth = Corrupt THEN UNCHANGED work
             ELSE work' = [work EXCEPT ![p].pc = "truncate",
                                       ![p].mem = Saved(auth.entries, k, u)]
    BY <1>2 DEF Login
  <2>2. With(kept, k, u) \in EntrySets /\ Saved(auth.entries, k, u) \in EntrySets
    BY WithType, WorkType DEF Saved, CredentialTypeOK
  <2>3. work' \in [Procs -> Works]
    BY <2>1, <2>2, WorkType DEF CredentialTypeOK, Works
  <2>4. kept' \in EntrySets /\ calm' \in BOOLEAN
    BY <1>0, <2>1, <2>2 DEF Leaves, CredentialTypeOK
  <2>5. entered' \subseteq Keys \X Users
    BY <2>1 DEF CredentialTypeOK
  <2> QED BY <1>1, <1>2, <2>3, <2>4, <2>5 DEF Login, CredentialTypeOK
<1>3. ASSUME NEW p \in Procs, Logout(p) PROVE CredentialTypeOK'
  <2> DEFINE rest(k) == Restrict(auth.entries, DOMAIN auth.entries \ {k})
  <2>1. PICK k \in Keys :
          /\ Leaves(Restrict(kept, DOMAIN kept \ {k}))
          /\ IF k \notin DOMAIN auth.entries THEN UNCHANGED work
             ELSE work' = [work EXCEPT ![p].pc = IF rest(k) = NoEntries THEN "remove"
                                                 ELSE "truncate",
                                       ![p].mem = rest(k)]
    BY <1>3 DEF Logout
  <2>2. Restrict(kept, DOMAIN kept \ {k}) \in EntrySets /\ rest(k) \in EntrySets
    BY RestrictType, WorkType DEF CredentialTypeOK
  <2> HIDE DEF rest
  <2>3. work' \in [Procs -> Works]
    BY <2>1, <2>2, WorkType DEF CredentialTypeOK, Works
  <2>4. kept' \in EntrySets /\ calm' \in BOOLEAN
    BY <1>0, <2>1, <2>2 DEF Leaves, CredentialTypeOK
  <2> QED BY <1>1, <1>3, <2>3, <2>4 DEF Logout, CredentialTypeOK
<1>4. ASSUME NEW p \in Procs, Truncate(p) PROVE CredentialTypeOK'
  BY <1>4 DEF Truncate, CredentialTypeOK, Works
<1>5. ASSUME NEW p \in Procs, Write(p) PROVE CredentialTypeOK'
  <2>1. auth' \in {Gone, Empty, Corrupt} \cup {Whole(f) : f \in EntrySets}
    BY <1>5, WorkType DEF Write, CredentialTypeOK
  <2> QED BY <1>5, <2>1, WorkType DEF Write, Finish, CredentialTypeOK
<1>6. ASSUME NEW p \in Procs, RemoveAuth(p) PROVE CredentialTypeOK'
  <2>0. \A q \in Procs : [work[q] EXCEPT !.open = FALSE] \in Works
    BY DEF CredentialTypeOK, Works
  <2>1. work' \in [Procs -> Works]
    BY <1>6, <2>0, WorkType DEF RemoveAuth
  <2> QED BY <1>6, <2>1 DEF RemoveAuth, CredentialTypeOK
<1>7. ASSUME NEW p \in Procs, CredentialCrash(p) PROVE CredentialTypeOK'
  <2>1. crashes' \in 0..MaxCrashes
    BY <1>0, <1>7 DEF CredentialCrash, CredentialTypeOK
  <2>2. work' \in [Procs -> Works] /\ auth' \in {auth, Corrupt}
    BY <1>7, WorkType DEF CredentialCrash, Finish, CredentialTypeOK
  <2> QED BY <1>0, <1>7, <2>1, <2>2 DEF CredentialCrash, CredentialTypeOK
<1>8. ASSUME NEW p \in Procs, PurgeAuth(p) PROVE CredentialTypeOK'
  <2>0. \A q \in Procs : [work[q] EXCEPT !.open = FALSE] \in Works
    BY DEF CredentialTypeOK, Works
  <2>1. work' \in [Procs -> Works]
    BY <1>8, <2>0 DEF PurgeAuth, Unlink
  <2> QED BY <1>0, <1>8, <2>1 DEF PurgeAuth, Unlink, Leaves, CredentialTypeOK
<1>9. CASE UNCHANGED authVars /\ UNCHANGED crashes /\ Command
  BY <1>1, <1>9 DEF authVars, CredentialTypeOK
<1>10. CASE UNCHANGED credentialVars
  BY <1>10 DEF credentialVars, authVars, CredentialTypeOK
<1> QED BY <1>2, <1>3, <1>4, <1>5, <1>6, <1>7, <1>8, <1>9, <1>10 DEF CredentialStep

CatalogStep ==
    \/ \E p \in Procs : \/ StartSearch(p) \/ GetCatalog(p) \/ Discard(p) \/ Fetch(p)
                        \/ FetchNext(p) \/ FetchFails(p) \/ OpenEntry(p) \/ WriteEntry(p) \/ SearchEnds(p)
                        \/ PurgeCache(p)
    \/ \E h \in Servers : Push(h)
    \/ \E n \in Names : Reconfigure(n)
    \/ Tick
    \/ UNCHANGED <<World, cache, search>> /\ shown' = Nothing
    \/ UNCHANGED catalogVars

\* What a search has in hand, by where it is.
LEMMA SearchType ==
    ASSUME NEW s \in Searches, s # Still
    PROVE  /\ s.pc \in {"read", "discard", "fetch", "pages", "open", "write"}
           /\ s.name \in Names /\ s.url \in URLs
           /\ s.pc \in {"pages", "open", "write"} => s.listing \in Listings
           /\ s.pc = "write" =>
                 /\ s.at \in 0..MaxTime /\ s.open \in BOOLEAN
                 /\ [s EXCEPT !.open = FALSE] \in
                        [pc: {"write"}, name: Names, url: URLs, listing: Listings,
                         at: 0..MaxTime, open: BOOLEAN]
BY DEF Searches, Still

LEMMA StillType == Still \in Searches /\ Still.pc = "idle"
BY DEF Searches, Still

LEMMA DetachedType ==
    ASSUME CatalogTypeOK, NEW q \in Procs, search[q].pc = "write"
    PROVE  [search[q] EXCEPT !.open = FALSE] \in Searches
<1>1. search[q] \in Searches /\ search[q] # Still
  BY AccessAssumption, StillType DEF CatalogTypeOK
<1> QED BY <1>1, SearchType DEF Searches

LEMMA CatalogTypes == CatalogTypeOK /\ CatalogStep => CatalogTypeOK'
<1> SUFFICES ASSUME CatalogTypeOK, CatalogStep PROVE CatalogTypeOK'
  OBVIOUS
<1>0. /\ MaxTime \in Nat /\ MaxVersions \in Nat /\ Searchers = Procs
      /\ \A u \in URLs : u.host \in Servers
  BY CatalogAssumption, AccessAssumption DEF URL
<1>a. search \in [Procs -> Searches]
  BY <1>0 DEF CatalogTypeOK
<1>1. ASSUME NEW p \in Procs, StartSearch(p) PROVE CatalogTypeOK'
  <2>1. PICK n \in Names :
          search' = [search EXCEPT ![p] = [pc |-> "read", name |-> n, url |-> conf[n]]]
    BY <1>1 DEF StartSearch
  <2>2. [pc |-> "read", name |-> n, url |-> conf[n]] \in Searches
    BY DEF CatalogTypeOK, Searches
  <2>3. search' \in [Procs -> Searches]
    BY <1>a, <2>1, <2>2
  <2> QED BY <1>0, <1>1, <2>3 DEF StartSearch, World, CatalogTypeOK
<1>2. ASSUME NEW p \in Procs, GetCatalog(p) PROVE CatalogTypeOK'
  <2>1. search[p].pc = "read" /\ search[p] # Still
    BY <1>2, StillType DEF GetCatalog
  <2>2. search[p].name \in Names /\ search[p].url \in URLs
    BY <1>a, <2>1, SearchType
  <2>3. ToFetch(p) \in Searches /\ [ToFetch(p) EXCEPT !.pc = "discard"] \in Searches
    BY <2>2 DEF ToFetch, Searches
  <2>4. search' \in [Procs -> Searches]
    BY <1>2, <1>a, <2>3, StillType DEF GetCatalog
  <2>5. shown' \in {Nothing} \cup [name: Names, listing: Listings]
    BY <1>2, <2>2 DEF GetCatalog, Show, Entries, CatalogTypeOK
  <2> QED BY <1>0, <1>2, <2>4, <2>5 DEF GetCatalog, World, CatalogTypeOK
<1>3. ASSUME NEW p \in Procs, Discard(p) PROVE CatalogTypeOK'
  <2>1. search[p].pc = "discard" /\ search[p] # Still
    BY <1>3, StillType DEF Discard
  <2>2. search[p].name \in Names /\ search[p].url \in URLs
    BY <1>a, <2>1, SearchType
  <2>3. ToFetch(p) \in Searches
    BY <2>2 DEF ToFetch, Searches
  <2>4. Detached(search[p].name) \in [Procs -> Searches]
    BY <1>0, <1>a, DetachedType DEF Detached
  <2>5. search' \in [Procs -> Searches]
    BY <1>3, <2>3, <2>4 DEF Discard
  <2> QED BY <1>0, <1>3, <2>2, <2>5 DEF Discard, World, CatalogTypeOK
<1>4. ASSUME NEW p \in Procs, Fetch(p) \/ FetchNext(p) PROVE CatalogTypeOK'
  <2>1. search[p].pc \in {"fetch", "pages"} /\ search[p] # Still
    BY <1>4, StillType DEF Fetch, FetchNext
  <2>2. /\ search[p].name \in Names /\ search[p].url \in URLs
        /\ search[p].pc = "pages" => search[p].listing.versions \subseteq 0..MaxVersions
    BY <1>a, <2>1, SearchType DEF Listings
  <2>3. PICK l \in Listings : Received(p, l)
    <3>1. \A V \in SUBSET (0..MaxVersions) : WithPage(p, V) \in Listings
      BY <1>0, <2>2 DEF WithPage, Listings, CatalogTypeOK
    <3> QED BY <1>4, <2>2, <3>1 DEF Fetch, FetchNext
  <2>4. search' \in [Procs -> Searches]
    BY <1>a, <2>2, <2>3 DEF Received, Searches
  <2>5. UNCHANGED <<World, cache>> /\ shown' = Nothing
    BY <1>4 DEF Fetch, FetchNext
  <2> QED BY <1>0, <2>4, <2>5 DEF World, CatalogTypeOK
<1>5. ASSUME NEW p \in Procs, FetchFails(p) PROVE CatalogTypeOK'
  BY <1>0, <1>5, StillType DEF FetchFails, World, CatalogTypeOK
<1>6. ASSUME NEW p \in Procs, OpenEntry(p) PROVE CatalogTypeOK'
  <2>1. search[p].pc = "open" /\ search[p] # Still
    BY <1>6, StillType DEF OpenEntry
  <2>2. search[p].name \in Names /\ search[p].url \in URLs /\ search[p].listing \in Listings
    BY <1>a, <2>1, SearchType
  <2>3. search' \in [Procs -> Searches]
    BY <1>6, <1>a, <2>2 DEF OpenEntry, Searches, CatalogTypeOK
  <2>4. cache' \in [Names -> Entries \cup {Nothing, Broken}]
    BY <1>6, <2>2 DEF OpenEntry, CatalogTypeOK
  <2> QED BY <1>0, <1>6, <2>3, <2>4 DEF OpenEntry, World, CatalogTypeOK
<1>w. ASSUME NEW p \in Procs, search[p].pc = "write", Written(p)
      PROVE  cache' \in [Names -> Entries \cup {Nothing, Broken}]
  <2>1. search[p] # Still
    BY <1>w, StillType
  <2>2. /\ search[p].name \in Names /\ search[p].listing \in Listings
        /\ search[p].at \in 0..MaxTime
    BY <1>a, <1>w, <2>1, SearchType
  <2>3. Stamped(search[p].listing, search[p].at) \in Entries
    BY <2>2 DEF Stamped, Entries
  <2> QED BY <1>w, <2>2, <2>3 DEF Written, CatalogTypeOK
<1>e. ASSUME NEW p \in Procs, SearchEnds(p) PROVE CatalogTypeOK'
  <2>1. cache' \in [Names -> Entries \cup {Nothing, Broken}]
    BY <1>e, <1>w DEF SearchEnds, CatalogTypeOK
  <2> QED BY <1>0, <1>e, <2>1, StillType DEF SearchEnds, World, CatalogTypeOK
<1>7. ASSUME NEW p \in Procs, WriteEntry(p) PROVE CatalogTypeOK'
  <2>1. search[p].pc = "write" /\ search[p] # Still
    BY <1>7, StillType DEF WriteEntry
  <2>2. search[p].name \in Names /\ search[p].listing \in Listings
    BY <1>a, <2>1, SearchType
  <2>4. cache' \in [Names -> Entries \cup {Nothing, Broken}]
    BY <1>7, <1>w DEF WriteEntry
  <2>5. shown' \in [name: Names, listing: Listings]
    BY <1>7, <2>2 DEF WriteEntry, Show
  <2>6. search' \in [Procs -> Searches]
    BY <1>7, <1>a, StillType DEF WriteEntry
  <2> QED BY <1>0, <1>7, <2>4, <2>5, <2>6 DEF WriteEntry, World, CatalogTypeOK
<1>8. ASSUME NEW p \in Procs, PurgeCache(p) PROVE CatalogTypeOK'
  <2>1. search' \in [Procs -> Searches]
    BY <1>8, <1>a, DetachedType DEF PurgeCache
  <2> QED BY <1>0, <1>8, <2>1 DEF PurgeCache, World, CatalogTypeOK
<1>9. ASSUME NEW h \in Servers, Push(h) PROVE CatalogTypeOK'
  <2>1. catalog' \in [Servers -> 0..MaxVersions]
    BY <1>0, <1>9 DEF Push, CatalogTypeOK
  <2> QED BY <1>0, <1>9, <2>1 DEF Push, CatalogTypeOK
<1>10. ASSUME NEW n \in Names, Reconfigure(n) PROVE CatalogTypeOK'
  BY <1>10 DEF Reconfigure, CatalogTypeOK
<1>11. CASE Tick
  <2>1. now' \in 0..MaxTime
    BY <1>0, <1>11 DEF Tick, CatalogTypeOK
  <2> QED BY <1>11, <2>1 DEF Tick, CatalogTypeOK
<1>12. CASE \/ UNCHANGED <<World, cache, search>> /\ shown' = Nothing
            \/ UNCHANGED catalogVars
  BY <1>12 DEF World, catalogVars, CatalogTypeOK
<1> QED BY <1>1, <1>2, <1>3, <1>4, <1>5, <1>e, <1>6, <1>7, <1>8, <1>9, <1>10, <1>11, <1>12
        DEF CatalogStep

\* A step of the composition is one of the credentials and one of the catalogs.
LEMMA Steps == [Next]_accessVars => CredentialStep /\ CatalogStep
<1> SUFFICES ASSUME [Next]_accessVars PROVE CredentialStep /\ CatalogStep
  OBVIOUS
<1>1. CASE UNCHANGED accessVars
  BY <1>1 DEF accessVars, CredentialStep, CatalogStep
<1>2. ASSUME NEW p \in Procs, Credentials(p) PROVE CredentialStep /\ CatalogStep
  BY <1>2 DEF Credentials, CredentialStep, CatalogStep
<1>3. ASSUME NEW p \in Procs, BeginSearch(p) PROVE CredentialStep /\ CatalogStep
  BY <1>3 DEF BeginSearch, CredentialStep, CatalogStep
<1>4. ASSUME NEW p \in Procs, Ask(p) PROVE CredentialStep /\ CatalogStep
  BY <1>4 DEF Ask, CredentialStep, CatalogStep
<1>5. ASSUME NEW p \in Procs, Search(p) PROVE CredentialStep /\ CatalogStep
  BY <1>5 DEF Search, CredentialStep, CatalogStep
<1>6. ASSUME NEW p \in Procs, AskForImage(p) PROVE CredentialStep /\ CatalogStep
  BY <1>6 DEF AskForImage, CredentialStep, CatalogStep
<1>7. ASSUME NEW p \in Procs, StartPurge(p) PROVE CredentialStep /\ CatalogStep
  BY <1>7 DEF StartPurge, CredentialStep, CatalogStep
<1>8. ASSUME NEW p \in Procs, PurgeAuth(p) PROVE CredentialStep /\ CatalogStep
  BY <1>8 DEF PurgeAuth, CredentialStep, CatalogStep
<1>9. ASSUME NEW p \in Procs, PurgeCache(p) PROVE CredentialStep /\ CatalogStep
  BY <1>9 DEF PurgeCache, CredentialStep, CatalogStep
<1>10. CASE Outside
  BY <1>10, AccessAssumption DEF Outside, CredentialStep, CatalogStep
<1> QED BY <1>1, <1>2, <1>3, <1>4, <1>5, <1>6, <1>7, <1>8, <1>9, <1>10 DEF Next

\* A request by the canonical name c.
Sends(c) == sent' = [resource |-> c, user |-> Resolve(auth.entries, c)]

LEMMA CanonicalType == \A r \in Key : Canonical(r) \in Key
BY AccessAssumption DEF Canonical, Key

\* The requests: who asks, for what, and with which entries.
LEMMA Requests ==
    ASSUME TypeOK, Next
    PROVE  \/ sent' = Nothing
           \/ UNCHANGED credentialVars /\ \E c \in Key : Sends(c)
<1>1. ASSUME NEW p \in Procs, Ask(p) PROVE \E c \in Key : Sends(c)
  <2>1. search[p].pc = "fetch" /\ search[p] # Still /\ search[p] \in Searches
    BY <1>1, StillType, AccessAssumption DEF Ask, TypeOK, CatalogTypeOK
  <2>2. HostKey(search[p].url.host) \in Key
    <3>1. search[p].url \in URL /\ Servers \subseteq Hosts
      BY <2>1, SearchType, CatalogAssumption, AccessAssumption
    <3>2. search[p].url.host \in Hosts
      BY <3>1 DEF URL
    <3> QED BY <3>2, CredentialAssumption DEF HostKey, Key
  <2> QED BY <1>1, <2>2, CanonicalType DEF Ask, Request, Sends
<1>2. ASSUME NEW p \in Procs, AskForImage(p) PROVE \E c \in Key : Sends(c)
  BY <1>2, AccessAssumption, CanonicalType DEF AskForImage, Request, Sends
<1>3. \A p \in Procs : Ask(p) \/ AskForImage(p) => UNCHANGED credentialVars
  BY DEF Ask, AskForImage
<1>4. ASSUME NEW p \in Procs, 
             \/ Credentials(p) \/ BeginSearch(p) \/ Search(p)
             \/ StartPurge(p) \/ PurgeAuth(p) \/ PurgeCache(p)
      PROVE  sent' = Nothing
  BY <1>4 DEF Credentials, BeginSearch, Search, StartPurge, PurgeAuth, PurgeCache, Silent
<1>5. Outside => sent' = Nothing
  BY DEF Outside, Silent
<1> QED BY <1>1, <1>2, <1>3, <1>4, <1>5 DEF Next

LEMMA TypeInit == Init => TypeOK
<1> SUFFICES ASSUME Init PROVE TypeOK
  OBVIOUS
<1>1. CredentialTypeOK
  <2>1. Done \in Works
    BY NoEntriesType DEF Done, Works
  <2>2. MaxCommands \in Nat /\ MaxCrashes \in Nat
    BY CredentialAssumption
  <2>3. 0 \in 0..MaxCommands /\ 0 \in 0..MaxCrashes
    BY <2>2
  <2> QED BY <2>1, <2>3, NoEntriesType DEF Init, CredentialInit, CredentialTypeOK
<1>2. CatalogTypeOK
  BY CatalogAssumption, StillType DEF Init, CatalogInit, CatalogTypeOK
<1> QED BY <1>1, <1>2 DEF Init, TypeOK

LEMMA TypeNext == TypeOK /\ [Next]_accessVars => TypeOK'
<1> SUFFICES ASSUME TypeOK, [Next]_accessVars PROVE TypeOK'
  OBVIOUS
<1>1. CredentialTypeOK'
  BY Steps, CredentialTypes DEF TypeOK
<1>2. CatalogTypeOK'
  BY Steps, CatalogTypes DEF TypeOK
<1>3. sent' \in {Nothing} \cup [resource: Key, user: Users \cup {NoUser}]
  <2>1. CASE UNCHANGED accessVars
    BY <2>1 DEF accessVars, TypeOK
  <2>2. CASE Next
    <3>1. CASE sent' = Nothing
      BY <3>1
    <3>2. ASSUME NEW c \in Key, Sends(c)
          PROVE  sent' \in [resource: Key, user: Users \cup {NoUser}]
      <4>1. auth.entries \in EntrySets
        BY NoEntriesType DEF TypeOK, CredentialTypeOK, Gone, Empty, Corrupt, Whole
      <4> QED BY <3>2, <4>1, ResolveFrom DEF Sends
    <3> QED BY <2>2, <3>1, <3>2, Requests
  <2> QED BY <2>1, <2>2
<1>4. purging' \in [Procs -> SUBSET {"auth", "cache"}]
  <2>1. ASSUME NEW p \in Procs, StartPurge(p) \/ PurgeAuth(p) \/ PurgeCache(p)
        PROVE  purging' \in [Procs -> SUBSET {"auth", "cache"}]
    BY <2>1 DEF StartPurge, PurgeAuth, PurgeCache, TypeOK
  <2>2. ASSUME NEW p \in Procs,
               \/ Credentials(p) \/ BeginSearch(p) \/ Ask(p) \/ Search(p) \/ AskForImage(p)
        PROVE  purging' = purging
    BY <2>2 DEF Credentials, BeginSearch, Ask, Search, AskForImage
  <2>3. Outside \/ UNCHANGED accessVars => purging' = purging
    BY DEF Outside, accessVars
  <2> QED BY <2>1, <2>2, <2>3 DEF Next, TypeOK
<1> QED BY <1>1, <1>2, <1>3, <1>4 DEF TypeOK

\* Every reachable state of auth.json, the cache and the commands on them is
\* well typed (auth.go, cache.go).
THEOREM TypeCorrect == Spec => []TypeOK
BY TypeInit, TypeNext, PTL DEF Spec

-------------------------------------------------------------------------------
\* Whose credentials are sent

LEMMA EnteredGrows ==
    ASSUME NEW f, EnteredOnly(f), entered \subseteq entered'
    PROVE  \A k \in DOMAIN f : <<k, f[k]>> \in entered'
BY DEF EnteredOnly

\* No command invents credentials, in any interleaving.
LEMMA CredentialsNext ==
    CredentialTypeOK /\ CredentialsEntered /\ CredentialStep => CredentialsEntered'
<1> SUFFICES ASSUME CredentialTypeOK, CredentialsEntered, CredentialStep
             PROVE  CredentialsEntered'
  OBVIOUS
<1> DEFINE Ent(f) == \A k \in DOMAIN f : <<k, f[k]>> \in entered'
<1>0. /\ Gone.entries = NoEntries /\ Empty.entries = NoEntries
      /\ Corrupt.entries = NoEntries
      /\ \A f : Whole(f).entries = f
      /\ Done.mem = NoEntries
  BY DEF Gone, Empty, Corrupt, Whole, Done
<1>1. ASSUME entered \subseteq entered'
      PROVE  /\ Ent(NoEntries) /\ Ent(auth.entries) /\ Ent(kept)
             /\ \A p \in Procs : Ent(work[p].mem)
  BY <1>1, NoEntriesType, EnteredGrows DEF CredentialsEntered
<1>2. ASSUME Ent(auth'.entries), Ent(kept'), \A p \in Procs : Ent(work'[p].mem)
      PROVE  CredentialsEntered'
  BY <1>2 DEF CredentialsEntered, EnteredOnly
<1>3. \A k \in Keys, u \in Users, f \in EntrySets :
          Ent(f) /\ <<k, u>> \in entered' => Ent(With(f, k, u))
  <2> SUFFICES ASSUME NEW k \in Keys, NEW u \in Users, NEW f \in EntrySets,
                      Ent(f), <<k, u>> \in entered'
               PROVE  Ent(With(f, k, u))
    BY Zenon
  <2> DEFINE w == With(f, k, u)
  <2>1. /\ DOMAIN w = DOMAIN f \cup {k}
        /\ \A x \in DOMAIN f \cup {k} : w[x] = IF x = k THEN u ELSE f[x]
    BY DEF With
  <2> HIDE DEF w
  <2>2. Ent(w)
    BY <2>1
  <2> QED BY <2>2 DEF w
<1>4. \A k \in Keys, f \in EntrySets : Ent(f) => Ent(Restrict(f, DOMAIN f \ {k}))
  BY RestrictType
<1> HIDE DEF Ent
<1>5. ASSUME NEW p \in Procs, Login(p) PROVE CredentialsEntered'
  <2>1. PICK k \in Keys, u \in Users :
          /\ entered' = entered \cup {<<k, u>>}
          /\ Leaves(With(kept, k, u))
          /\ IF auth = Corrupt THEN UNCHANGED work
             ELSE work' = [work EXCEPT ![p].pc = "truncate",
                                       ![p].mem = Saved(auth.entries, k, u)]
    BY <1>5 DEF Login
  <2>2. Ent(With(kept, k, u)) /\ Ent(Saved(auth.entries, k, u)) /\ Ent(kept')
    BY <1>1, <1>3, <2>1, WorkType DEF Saved, Leaves, CredentialTypeOK
  <2>3. \A q \in Procs : work'[q].mem \in {work[q].mem, Saved(auth.entries, k, u)}
    BY <2>1 DEF CredentialTypeOK, Works
  <2>4. auth' = auth
    BY <1>5 DEF Login
  <2> QED BY <1>1, <1>2, <2>1, <2>2, <2>3, <2>4
<1>6. ASSUME NEW p \in Procs, Logout(p) PROVE CredentialsEntered'
  <2> DEFINE rest(k) == Restrict(auth.entries, DOMAIN auth.entries \ {k})
  <2>1. PICK k \in Keys :
          /\ Leaves(Restrict(kept, DOMAIN kept \ {k}))
          /\ IF k \notin DOMAIN auth.entries THEN UNCHANGED work
             ELSE work' = [work EXCEPT ![p].pc = IF rest(k) = NoEntries THEN "remove"
                                                 ELSE "truncate",
                                       ![p].mem = rest(k)]
    BY <1>6 DEF Logout
  <2>2. auth' = auth /\ entered' = entered
    BY <1>6 DEF Logout
  <2>3. Ent(Restrict(kept, DOMAIN kept \ {k})) /\ Ent(rest(k)) /\ Ent(kept')
    BY <1>1, <1>4, <2>1, <2>2, WorkType DEF Leaves, CredentialTypeOK
  <2> HIDE DEF rest
  <2>4. \A q \in Procs : work'[q].mem \in {work[q].mem, rest(k)}
    BY <2>1 DEF CredentialTypeOK, Works
  <2> QED BY <1>1, <1>2, <2>2, <2>3, <2>4
<1>7. ASSUME NEW p \in Procs,
             \/ Truncate(p) \/ Write(p) \/ RemoveAuth(p) \/ CredentialCrash(p)
             \/ PurgeAuth(p)
      PROVE  CredentialsEntered'
  <2>1. entered' = entered /\ kept' \in {kept, NoEntries}
    BY <1>7 DEF Truncate, Write, RemoveAuth, CredentialCrash, PurgeAuth, Leaves
  <2>2. \A q \in Procs : work'[q].mem \in {work[q].mem, NoEntries}
    BY <1>0, <1>7 DEF Truncate, Write, RemoveAuth, CredentialCrash, PurgeAuth, Unlink,
                      Finish, CredentialTypeOK, Works
  <2>3. auth'.entries \in {auth.entries, NoEntries, work[p].mem}
    BY <1>0, <1>7 DEF Truncate, Write, RemoveAuth, CredentialCrash, PurgeAuth, Unlink
  <2> QED BY <1>1, <1>2, <2>1, <2>2, <2>3
<1>8. CASE \/ UNCHANGED authVars /\ UNCHANGED crashes /\ Command
           \/ UNCHANGED credentialVars
  <2>1. UNCHANGED <<auth, work, kept, entered>>
    BY <1>8 DEF credentialVars, authVars
  <2> QED BY <1>1, <1>2, <2>1
<1> QED BY <1>5, <1>6, <1>7, <1>8 DEF CredentialStep

LEMMA CredentialsCorrect == Spec => [](TypeOK /\ CredentialsEntered)
<1>1. Init => CredentialsEntered
  BY NoEntriesType DEF Init, CredentialInit, CredentialsEntered, EnteredOnly, Gone, Done
<1>2. TypeOK /\ CredentialsEntered /\ [Next]_accessVars => CredentialsEntered'
  BY Steps, CredentialsNext DEF TypeOK
<1> QED BY <1>1, <1>2, TypeCorrect, PTL DEF Spec

\* A host is sent what was entered for it, for the repository asked for, or
\* given to Docker for it (lookup, Resolve).
THEOREM OwnCredentialsCorrect == Spec => []OwnCredentials
<1>1. Init => OwnCredentials
  BY DEF Init, OwnCredentials
<1>2. TypeOK /\ CredentialsEntered /\ OwnCredentials /\ [Next]_accessVars
         => OwnCredentials'
  <2> SUFFICES ASSUME TypeOK, CredentialsEntered, OwnCredentials, [Next]_accessVars
               PROVE  OwnCredentials'
    OBVIOUS
  <2>1. CASE UNCHANGED accessVars
    BY <2>1 DEF accessVars, credentialVars, authVars, OwnCredentials
  <2>2. CASE sent' = Nothing
    BY <2>2 DEF OwnCredentials
  <2>3. ASSUME NEW c \in Key, UNCHANGED credentialVars, Sends(c)
        PROVE  OwnCredentials'
    <3>1. auth.entries \in EntrySets /\ EnteredOnly(auth.entries) /\ entered' = entered
      BY <2>3, NoEntriesType
         DEF TypeOK, CredentialTypeOK, Gone, Empty, Corrupt, Whole, CredentialsEntered,
             credentialVars, authVars
    <3> QED BY <2>3, <3>1, ResolveFrom DEF OwnCredentials, EnteredOnly, Sends
  <2> QED BY <2>1, <2>2, <2>3, Requests
<1> QED BY <1>1, <1>2, CredentialsCorrect, PTL DEF Spec

-------------------------------------------------------------------------------
\* Which logins are kept

\* auth.json has two states without entries and is one record otherwise.
LEMMA AuthStates ==
    /\ Gone # Corrupt /\ Empty # Corrupt
    /\ Gone.entries = NoEntries /\ Empty.entries = NoEntries
    /\ \A f : Whole(f) # Corrupt /\ Whole(f).entries = f
<1>1. Gone.state # Corrupt.state /\ Empty.state # Corrupt.state
  BY DEF Gone, Empty, Corrupt
<1>2. \A f : Whole(f).state # Corrupt.state
  BY DEF Whole, Corrupt
<1> QED BY <1>1, <1>2 DEF Gone, Empty, Whole

\* A step of the only command on auth.json, or of the first.
LEMMA AloneOnFile ==
    ASSUME NEW p \in Procs, \A q \in Procs : q # p => work'[q].pc = "idle",
           auth' # Corrupt,
           work'[p].pc = "idle" => auth'.entries = kept',
           work'[p].pc \in {"truncate", "write"} => work'[p].mem = kept',
           work'[p].pc = "write" => work'[p].open /\ auth' = Empty,
           work'[p].pc = "remove" => kept' = NoEntries
    PROVE  OneWriter'
<1>1. \A q \in Busy' : q = p
  BY DEF Busy
<1>2. Busy' = {} => work'[p].pc = "idle"
  BY DEF Busy
<1> QED BY <1>1, <1>2 DEF OneWriter

LEMMA WriterNext ==
    CredentialTypeOK /\ WriterInv /\ CredentialStep => WriterInv'
<1> SUFFICES ASSUME CredentialTypeOK, WriterInv, CredentialStep, calm'
             PROVE  OneWriter'
  BY DEF WriterInv
<1>1. Done.pc = "idle"
  BY DEF Done
<1>2. ASSUME NEW p \in Procs, Login(p) PROVE OneWriter'
  <2>1. PICK k \in Keys, u \in Users :
          /\ Leaves(With(kept, k, u))
          /\ IF auth = Corrupt THEN UNCHANGED work
             ELSE work' = [work EXCEPT ![p].pc = "truncate",
                                       ![p].mem = Saved(auth.entries, k, u)]
    BY <1>2 DEF Login
  <2>2. calm /\ Busy = {} /\ kept' = With(kept, k, u) /\ auth' = auth
    BY <1>2, <2>1 DEF Leaves, Login
  <2>3. auth # Corrupt /\ auth.entries = kept
    BY <2>2 DEF WriterInv, OneWriter
  <2>4. /\ work'[p].pc = "truncate" /\ work'[p].mem = With(kept, k, u)
        /\ \A q \in Procs : q # p => work'[q] = work[q]
    BY <2>1, <2>3 DEF Saved, CredentialTypeOK, Works
  <2>5. \A q \in Procs : q # p => work'[q].pc = "idle"
    BY <2>2, <2>4 DEF Busy
  <2> QED BY <2>2, <2>3, <2>4, <2>5, AloneOnFile
<1>3. ASSUME NEW p \in Procs, Logout(p) PROVE OneWriter'
  <2> DEFINE rest(k) == Restrict(auth.entries, DOMAIN auth.entries \ {k})
  <2>1. PICK k \in Keys :
          /\ Leaves(Restrict(kept, DOMAIN kept \ {k}))
          /\ IF k \notin DOMAIN auth.entries THEN UNCHANGED work
             ELSE work' = [work EXCEPT ![p].pc = IF rest(k) = NoEntries THEN "remove"
                                                 ELSE "truncate",
                                       ![p].mem = rest(k)]
    BY <1>3 DEF Logout
  <2>2. calm /\ Busy = {} /\ kept' = Restrict(kept, DOMAIN kept \ {k}) /\ auth' = auth
    BY <1>3, <2>1 DEF Leaves, Logout
  <2>3. auth # Corrupt /\ auth.entries = kept
    BY <2>2 DEF WriterInv, OneWriter
  <2>4. rest(k) = kept'
    BY <2>2, <2>3
  <2>5. \A q \in Procs : work[q].pc = "idle"
    BY <2>2 DEF Busy
  <2> HIDE DEF rest
  <2>6. CASE k \notin DOMAIN auth.entries
    <3>1. kept' = kept
      BY <2>2, <2>3, <2>6, RestrictType DEF CredentialTypeOK
    <3>2. work' = work
      BY <2>1, <2>6
    <3> QED BY <2>2, <2>3, <2>5, <3>1, <3>2, AloneOnFile
  <2>7. CASE k \in DOMAIN auth.entries
    <3>1. /\ work'[p].pc = (IF rest(k) = NoEntries THEN "remove" ELSE "truncate")
          /\ work'[p].mem = rest(k)
          /\ \A q \in Procs : q # p => work'[q] = work[q]
      BY <2>1, <2>7 DEF CredentialTypeOK, Works
    <3> QED BY <2>2, <2>3, <2>4, <2>5, <3>1, AloneOnFile
  <2> QED BY <2>6, <2>7
\* The other steps are of a command that has begun, alone.
<1>4. ASSUME NEW p \in Procs, work[p].pc # "idle", calm
      PROVE  /\ auth # Corrupt
             /\ \A q \in Procs : q # p => work[q].pc = "idle"
             /\ work[p].pc \in {"truncate", "write"} => work[p].mem = kept
             /\ work[p].pc = "write" => work[p].open /\ auth = Empty
             /\ work[p].pc = "remove" => kept = NoEntries
  <2>1. OneWriter
    BY <1>4 DEF WriterInv
  <2>2. \A q \in Procs : q # p => q \notin Busy
    BY <1>4, <2>1 DEF OneWriter, Busy
  <2> QED BY <2>1, <2>2 DEF OneWriter, Busy
<1>5. ASSUME NEW p \in Procs, Truncate(p) PROVE OneWriter'
  <2>1. /\ work[p].pc = "truncate" /\ calm /\ auth' = Empty /\ kept' = kept
        /\ work' = [work EXCEPT ![p].pc = "write", ![p].open = TRUE]
    BY <1>5 DEF Truncate
  <2>2. /\ work'[p].pc = "write" /\ work'[p].open /\ work'[p].mem = work[p].mem
        /\ \A q \in Procs : q # p => work'[q] = work[q]
    BY <2>1 DEF CredentialTypeOK, Works
  <2>3. /\ work'[p].mem = kept' /\ auth' # Corrupt
        /\ \A q \in Procs : q # p => work'[q].pc = "idle"
    BY <1>4, <2>1, <2>2, AuthStates
  <2> QED BY <2>1, <2>2, <2>3, AloneOnFile
<1>6. ASSUME NEW p \in Procs, Write(p) PROVE OneWriter'
  <2>1. /\ work[p].pc = "write" /\ calm /\ kept' = kept
        /\ work' = [work EXCEPT ![p] = Done]
    BY <1>6 DEF Write, Finish
  <2>2. auth' = Whole(work[p].mem)
    BY <1>4, <1>6, <2>1 DEF Write
  <2>3. work'[p].pc = "idle" /\ \A q \in Procs : q # p => work'[q] = work[q]
    BY <1>1, <2>1 DEF CredentialTypeOK
  <2> QED BY <1>4, <2>1, <2>2, <2>3, AloneOnFile, AuthStates
<1>7. ASSUME NEW p \in Procs, RemoveAuth(p) PROVE OneWriter'
  <2>1. /\ work[p].pc = "remove" /\ calm /\ kept' = kept /\ auth' = Gone
        /\ work' = [q \in Procs |-> IF q = p THEN Done
                                    ELSE [work[q] EXCEPT !.open = FALSE]]
    BY <1>7 DEF RemoveAuth
  <2>2. /\ work'[p].pc = "idle"
        /\ \A q \in Procs : q # p => work'[q].pc = work[q].pc
    BY <1>1, <2>1 DEF CredentialTypeOK, Works
  <2> QED BY <1>4, <2>1, <2>2, AloneOnFile, AuthStates
<1>8. ASSUME NEW p \in Procs, CredentialCrash(p) PROVE OneWriter'
  BY <1>8 DEF CredentialCrash
<1>9. ASSUME NEW p \in Procs, PurgeAuth(p) PROVE OneWriter'
  <2>1. calm /\ Busy = {} /\ kept' = NoEntries /\ auth' = Gone
    BY <1>9 DEF PurgeAuth, Unlink, Leaves
  <2>2. \A q \in Procs : work'[q].pc = work[q].pc
    BY <1>9 DEF PurgeAuth, Unlink, CredentialTypeOK, Works
  <2>3. \A q \in Procs : work'[q].pc = "idle"
    BY <2>1, <2>2 DEF Busy
  <2> QED BY <2>1, <2>3, AloneOnFile, AuthStates
<1>10. CASE \/ UNCHANGED authVars /\ UNCHANGED crashes /\ Command
            \/ UNCHANGED credentialVars
  <2>1. UNCHANGED <<auth, work, kept, calm>>
    BY <1>10 DEF credentialVars, authVars
  <2> QED BY <2>1 DEF WriterInv, OneWriter, Busy
<1> QED BY <1>2, <1>3, <1>5, <1>6, <1>7, <1>8, <1>9, <1>10 DEF CredentialStep

LEMMA WriterCorrect == Spec => [](TypeOK /\ WriterInv)
<1>1. Init => WriterInv
  BY AuthStates DEF Init, CredentialInit, WriterInv, OneWriter, Busy, Done
<1>2. TypeOK /\ WriterInv /\ [Next]_accessVars => WriterInv'
  BY Steps, WriterNext DEF TypeOK
<1> QED BY <1>1, <1>2, TypeCorrect, PTL DEF Spec

\* The two lookups of the keychain, and what it falls back on, find whom dz is
\* meant to be.
LEMMA ResolveMeant ==
    ASSUME NEW f \in EntrySets, NEW r \in Key
    PROVE  Resolve(f, r) = Meant(f, r)
<1>1. /\ HostKey(r.host).host = r.host
      /\ \A k \in DOMAIN f : f[k] # NoUser
  BY EntriesType, CredentialAssumption DEF Key, HostKey
<1>2. CASE r \in DOMAIN f
  BY <1>1, <1>2 DEF Resolve, lookup, Meant
<1>3. CASE r \notin DOMAIN f /\ HostKey(r.host) \in DOMAIN f
  BY <1>1, <1>3 DEF Resolve, lookup, Meant
<1>4. CASE r \notin DOMAIN f /\ HostKey(r.host) \notin DOMAIN f
  BY <1>1, <1>4 DEF Resolve, lookup, Meant
<1> QED BY <1>2, <1>3, <1>4

\* As long as commands on auth.json neither overlap nor break off, a request
\* carries what the completed ones have left for the name it goes by: no login
\* for that name is forgotten, and none outlives its logout or a purge (Save,
\* Delete, lookup, Resolve, removeAll).
THEOREM LoginsKeptCorrect == Spec => []LoginsKept
<1>1. Init => LoginsKept
  BY DEF Init, LoginsKept
<1>2. TypeOK /\ WriterInv /\ LoginsKept /\ [Next]_accessVars => LoginsKept'
  <2> SUFFICES ASSUME TypeOK, WriterInv, LoginsKept, [Next]_accessVars
               PROVE  LoginsKept'
    OBVIOUS
  <2>1. CASE UNCHANGED accessVars
    BY <2>1 DEF accessVars, credentialVars, authVars, LoginsKept, Busy
  <2>2. CASE sent' = Nothing
    BY <2>2 DEF LoginsKept
  <2>3. ASSUME NEW c \in Key, UNCHANGED credentialVars, Sends(c)
        PROVE  LoginsKept'
    <3>1. UNCHANGED <<auth, work, kept, calm>> /\ Busy' = Busy
      BY <2>3 DEF credentialVars, authVars, Busy
    <3>2. calm /\ Busy = {} => auth.entries = kept
      BY DEF WriterInv, OneWriter
    <3>3. Resolve(kept, c) = Meant(kept, c) /\ Meant(kept, c)' = Meant(kept, c)
      BY <3>1, ResolveMeant DEF TypeOK, CredentialTypeOK, Meant
    <3> QED BY <2>3, <3>1, <3>2, <3>3 DEF LoginsKept, Sends
  <2> QED BY <2>1, <2>2, <2>3, Requests
<1> QED BY <1>1, <1>2, WriterCorrect, PTL DEF Spec

-------------------------------------------------------------------------------
\* Which listings are shown

\* A step that leaves the world alone need only answer for what it changed.
LEMMA WorldSame ==
    ASSUME CatalogInv, UNCHANGED World
    PROVE  /\ HistoryOK'
           /\ \A n, l, t : Backed(n, l, t)' <=> Backed(n, l, t)
           /\ now' = now /\ history' = history
BY DEF World, CatalogInv, HistoryOK, Backed

LEMMA SearchSame ==
    ASSUME CatalogTypeOK, CatalogInv, UNCHANGED World, NEW p \in Procs,
           \A q \in Procs : q # p => search'[q] = search[q],
           search'[p] = Still
             \/ /\ search[p] # Still
                /\ search'[p].name = search[p].name /\ search'[p].url = search[p].url
                /\ search'[p].pc \notin {"pages", "open", "write"}
    PROVE  SearchBacked'
BY WorldSame DEF CatalogInv, SearchBacked

\* What a search has in hand when its file loses its name.
LEMMA DetachedSame ==
    ASSUME CatalogTypeOK, NEW q \in Procs
    PROVE  LET s == IF search[q].pc = "write"
                    THEN [search[q] EXCEPT !.open = FALSE] ELSE search[q]
           IN /\ s = Still <=> search[q] = Still
              /\ search[q] # Still =>
                    /\ s.pc = search[q].pc /\ s.name = search[q].name
                    /\ s.url = search[q].url
                    /\ s.pc \in {"pages", "open", "write"} =>
                          s.listing = search[q].listing
                    /\ s.pc = "write" => s.at = search[q].at
<1>1. search[q] \in Searches
  BY AccessAssumption DEF CatalogTypeOK
<1>2. CASE search[q].pc = "write"
  <2>1. search[q] \in [pc: {"write"}, name: Names, url: URLs, listing: Listings,
                       at: 0..MaxTime, open: BOOLEAN]
    BY <1>1, <1>2 DEF Searches, Still
  <2>2. [search[q] EXCEPT !.open = FALSE].pc # Still.pc /\ search[q].pc # Still.pc
    BY <1>2, <2>1, StillType
  <2> QED BY <1>2, <2>1, <2>2
<1>3. CASE search[q].pc # "write"
  BY <1>3
<1> QED BY <1>2, <1>3

LEMMA CatalogNext == CatalogTypeOK /\ CatalogInv /\ CatalogStep => CatalogInv'
<1> SUFFICES ASSUME CatalogTypeOK, CatalogInv, CatalogStep PROVE CatalogInv'
  OBVIOUS
<1>0. /\ search \in [Procs -> Searches] /\ cache \in [Names -> Entries \cup {Nothing, Broken}]
      /\ conf \in [Names -> URLs] /\ \A u \in URLs : u.host \in Servers
  BY CatalogAssumption, AccessAssumption DEF CatalogTypeOK, URL
<1>b. now \in 0..MaxTime /\ now \in Int
  BY CatalogAssumption DEF CatalogTypeOK
<1>1. ASSUME NEW p \in Procs, StartSearch(p) PROVE CatalogInv'
  <2>1. PICK n \in Names :
          search' = [search EXCEPT ![p] = [pc |-> "read", name |-> n, url |-> conf[n]]]
    BY <1>1 DEF StartSearch
  <2>2. UNCHANGED World /\ cache' = cache
    BY <1>1 DEF StartSearch
  <2>3. <<n, conf[n]>> \in history.configured
    BY DEF CatalogInv, HistoryOK
  <2>4. SearchBacked'
    BY <1>0, <2>1, <2>2, <2>3, WorldSame DEF CatalogInv, SearchBacked
  <2> QED BY <2>2, <2>4, WorldSame DEF CatalogInv, CacheBacked
<1>2. ASSUME NEW p \in Procs,
             GetCatalog(p) \/ FetchFails(p)
      PROVE  CatalogInv'
  <2>1. UNCHANGED World /\ cache' = cache
    BY <1>2 DEF GetCatalog, FetchFails
  <2>2. \A q \in Procs : q # p => search'[q] = search[q]
    BY <1>0, <1>2 DEF GetCatalog, FetchFails
  <2>3. \/ search'[p] = Still
        \/ /\ search[p] # Still
           /\ search'[p].name = search[p].name /\ search'[p].url = search[p].url
           /\ search'[p].pc \notin {"pages", "open", "write"}
    BY <1>0, <1>2, StillType DEF GetCatalog, FetchFails, ToFetch
  <2>4. SearchBacked'
    BY <2>1, <2>2, <2>3, SearchSame
  <2> QED BY <2>1, <2>4, WorldSame DEF CatalogInv, CacheBacked
<1>3. ASSUME NEW p \in Procs, Discard(p) PROVE CatalogInv'
  <2>1. UNCHANGED World /\ search[p].pc = "discard" /\ search[p] # Still
    BY <1>3, StillType DEF Discard
  <2>2. cache' = [cache EXCEPT ![search[p].name] = Nothing]
    BY <1>3 DEF Discard
  <2>3. CacheBacked'
    BY <1>0, <2>1, <2>2, WorldSame DEF CatalogInv, CacheBacked
  <2>4. SearchBacked'
    <3> SUFFICES ASSUME NEW q \in Procs, search'[q] # Still
                 PROVE  /\ <<search'[q].name, search'[q].url>> \in history'.configured
                        /\ search'[q].pc \in {"pages", "open", "write"} =>
                              Backed(search[q].name, search[q].listing, now)'
                        /\ search'[q].pc = "pages" =>
                              search'[q].listing.url = search'[q].url
                        /\ search'[q].pc = "write" => search'[q].at = now'
      BY DEF SearchBacked
    <3>1. CASE q = p
      <4>1. search'[p] = ToFetch(p)
        BY <1>0, <1>3, AccessAssumption DEF Discard, Detached
      <4>2. <<search[p].name, search[p].url>> \in history.configured
        BY <2>1 DEF CatalogInv, SearchBacked
      <4> QED BY <2>1, <3>1, <4>1, <4>2, WorldSame DEF ToFetch
    <3>2. CASE q # p
      <4>1. search'[q] \in {search[q], IF search[q].pc = "write"
                            THEN [search[q] EXCEPT !.open = FALSE] ELSE search[q]}
        BY <1>0, <1>3, <3>2, AccessAssumption DEF Discard, Detached
      <4> QED BY <2>1, <4>1, DetachedSame, WorldSame DEF CatalogInv, SearchBacked
    <3> QED BY <3>1, <3>2
  <2> QED BY <2>1, <2>3, <2>4, WorldSame DEF CatalogInv
<1>4. ASSUME NEW p \in Procs, Fetch(p) \/ FetchNext(p) PROVE CatalogInv'
  <2>1. /\ UNCHANGED World /\ cache' = cache
        /\ search[p].pc \in {"fetch", "pages"} /\ search[p] # Still
    BY <1>4, StillType DEF Fetch, FetchNext
  <2>2. <<search[p].name, search[p].url>> \in history.configured /\ search[p].url \in URLs
    BY <1>0, <2>1, SearchType DEF CatalogInv, SearchBacked
  <2>3. PICK l : /\ Received(p, l)
                 /\ Backed(search[p].name, l, now) /\ l.url = search[p].url
    <3>0. \A V : WithPage(p, V).url = search[p].url
      BY DEF WithPage
    <3>1. Backed(search[p].name, WithPage(p, {}), now)
      BY <2>2 DEF WithPage, Backed, CatalogInv, HistoryOK
    <3>2. CASE Fetch(p)
      BY <3>0, <3>1, <3>2 DEF Fetch
    <3>3. CASE FetchNext(p)
      <4> DEFINE V == search[p].listing.versions
      <4>1. Backed(search[p].name, search[p].listing, now) /\ search[p].pc = "pages"
        BY <2>1, <3>3 DEF FetchNext, CatalogInv, SearchBacked
      <4>2. search[p].listing.url = search[p].url
        BY <2>1, <4>1 DEF CatalogInv, SearchBacked
      <4>3. Backed(search[p].name, WithPage(p, V), now)
        BY <2>2, <3>1, <4>1, <4>2 DEF WithPage, Backed
      <4> QED BY <3>0, <3>3, <4>3 DEF FetchNext
    <3> QED BY <1>4, <3>2, <3>3
  <2>4. PICK next \in {"pages", "open"} :
          search' = [search EXCEPT ![p] = [pc |-> next, name |-> search[p].name,
                                           url |-> search[p].url, listing |-> l]]
    BY <2>3 DEF Received
  <2>5. SearchBacked'
    BY <1>0, <2>1, <2>2, <2>3, <2>4, WorldSame DEF CatalogInv, SearchBacked
  <2> QED BY <2>1, <2>5, WorldSame DEF CatalogInv, CacheBacked
<1>5. ASSUME NEW p \in Procs, OpenEntry(p) PROVE CatalogInv'
  <2>1. UNCHANGED World /\ search[p].pc = "open" /\ search[p] # Still
    BY <1>5, StillType DEF OpenEntry
  <2>2. /\ cache' = [cache EXCEPT ![search[p].name] = Broken]
        /\ search' = [search EXCEPT ![p] = [pc |-> "write", name |-> search[p].name,
                                            url |-> search[p].url,
                                            listing |-> search[p].listing,
                                            at |-> now, open |-> TRUE]]
    BY <1>5 DEF OpenEntry
  <2>3. CacheBacked'
    BY <1>0, <2>1, <2>2, WorldSame DEF CatalogInv, CacheBacked
  <2>4. SearchBacked'
    BY <1>0, <2>1, <2>2, WorldSame DEF CatalogInv, SearchBacked
  <2> QED BY <2>1, <2>3, <2>4, WorldSame DEF CatalogInv
<1>6. ASSUME NEW p \in Procs, WriteEntry(p) \/ SearchEnds(p) PROVE CatalogInv'
  <2>1. UNCHANGED World /\ search[p] # Still /\ search' = [search EXCEPT ![p] = Still]
    BY <1>6, StillType DEF WriteEntry, SearchEnds, Searching
  <2>2. SearchBacked'
    BY <1>0, <2>1, SearchSame
  <2>3. CASE cache' = cache
    BY <2>1, <2>2, <2>3, WorldSame DEF CatalogInv, CacheBacked
  <2>4. CASE search[p].pc = "write" /\ Written(p)
    <3>1. /\ Backed(search[p].name, search[p].listing, search[p].at)
          /\ search[p].at = now
      BY <2>1, <2>4 DEF CatalogInv, SearchBacked
    <3> DEFINE n == search[p].name
               e == Stamped(search[p].listing, search[p].at)
    <3>2. e.at = now /\ Backed(n, e.listing, e.at)
      BY <3>1 DEF Stamped
    <3>3. cache' \in {cache, [cache EXCEPT ![n] = e], [cache EXCEPT ![n] = Broken]}
      BY <2>4 DEF Written
    <3> HIDE DEF e
    <3>4. CacheBacked'
      <4> SUFFICES ASSUME NEW m \in Names, cache'[m] \notin {Nothing, Broken}
                   PROVE  cache'[m].at <= now' /\ Backed(m, cache[m].listing, cache[m].at)'
        BY DEF CacheBacked
      <4>1. cache'[m] = cache[m] \/ (m = n /\ cache'[m] = e)
        BY <1>0, <3>3
      <4>2. CASE cache'[m] = cache[m]
        BY <2>1, <4>2, WorldSame DEF CatalogInv, CacheBacked
      <4>3. CASE m = n /\ cache'[m] = e
        BY <1>b, <2>1, <3>2, <4>3, WorldSame
      <4> QED BY <4>1, <4>2, <4>3
    <3> QED BY <2>1, <2>2, <3>4, WorldSame DEF CatalogInv
  <2> QED BY <1>6, <2>3, <2>4 DEF WriteEntry, SearchEnds
<1>7. ASSUME NEW p \in Procs, PurgeCache(p) PROVE CatalogInv'
  <2>1. UNCHANGED World /\ cache' = [n \in Names |-> Nothing]
    BY <1>7 DEF PurgeCache
  <2>2. \A q \in Procs : search'[q] = IF search[q].pc = "write"
                                      THEN [search[q] EXCEPT !.open = FALSE] ELSE search[q]
    BY <1>7 DEF PurgeCache
  <2>3. SearchBacked'
    <3>1. ASSUME NEW q \in Procs, search'[q] # Still
          PROVE  /\ search[q] # Still
                 /\ search'[q].pc = search[q].pc /\ search'[q].name = search[q].name
                 /\ search'[q].url = search[q].url
                 /\ search[q].pc \in {"pages", "open", "write"} =>
                       search'[q].listing = search[q].listing
                 /\ search[q].pc = "write" => search'[q].at = search[q].at
      BY <2>2, <3>1, DetachedSame DEF TypeOK
    <3> QED BY <2>1, <3>1, WorldSame DEF CatalogInv, SearchBacked
  <2> QED BY <2>1, <2>3, WorldSame DEF CatalogInv, CacheBacked
<1>8. ASSUME UNCHANGED <<cache, search>>,
             history.advertised \subseteq history'.advertised,
             history.configured \subseteq history'.configured,
             HistoryOK', now' >= now, now \in Int, now' \in Int,
             \/ now' = now
             \/ \A q \in Procs : search[q].pc \notin {"pages", "open", "write"}
      PROVE  CatalogInv'
  <2>1. \A n, l, t : Backed(n, l, t) => Backed(n, l, t)'
    BY <1>8 DEF Backed
  <2>2. CacheBacked'
    <3> SUFFICES ASSUME NEW m \in Names, cache[m] \notin {Nothing, Broken}
                 PROVE  cache[m].at <= now' /\ Backed(m, cache[m].listing, cache[m].at)'
      BY <1>8 DEF CacheBacked
    <3>1. cache[m].at \in Int
      BY <1>0, CatalogAssumption DEF Entries
    <3> QED BY <1>8, <2>1, <3>1 DEF CatalogInv, CacheBacked
  <2>3. SearchBacked'
    BY <1>8, <2>1 DEF CatalogInv, SearchBacked
  <2> QED BY <1>8, <2>2, <2>3 DEF CatalogInv
<1>10. ASSUME NEW h \in Servers, Push(h) PROVE CatalogInv'
  <2>1. /\ history' = [history EXCEPT !.advertised = @ \cup Advertised(catalog', now)]
        /\ UNCHANGED <<conf, cache, search, now>>
    BY <1>10 DEF Push
  <2>2. /\ history'.advertised = history.advertised \cup Advertised(catalog', now)
        /\ history'.configured = history.configured
        /\ history' = [advertised |-> history'.advertised,
                       configured |-> history'.configured]
    BY <2>1 DEF CatalogInv, HistoryOK
  <2>3. HistoryOK'
    BY <2>1, <2>2 DEF CatalogInv, HistoryOK, Advertised
  <2> QED BY <1>8, <1>b, <2>1, <2>2, <2>3
<1>11. ASSUME NEW n \in Names, Reconfigure(n) PROVE CatalogInv'
  <2>1. PICK u \in URLs :
          /\ conf' = [conf EXCEPT ![n] = u]
          /\ history' = [history EXCEPT !.configured = @ \cup {<<n, u>>}]
    BY <1>11 DEF Reconfigure
  <2>2. UNCHANGED <<catalog, cache, search, now>>
    BY <1>11 DEF Reconfigure
  <2>3. /\ history'.configured = history.configured \cup {<<n, u>>}
        /\ history'.advertised = history.advertised
        /\ history' = [advertised |-> history'.advertised,
                       configured |-> history'.configured]
    BY <2>1 DEF CatalogInv, HistoryOK
  <2>4. HistoryOK'
    BY <1>0, <2>1, <2>2, <2>3 DEF CatalogInv, HistoryOK
  <2> QED BY <1>8, <1>b, <2>2, <2>3, <2>4
<1>12. CASE Tick
  <2>1. /\ now' = now + 1
        /\ \A q \in Procs : search[q].pc \notin {"pages", "open", "write"}
        /\ history' = [history EXCEPT !.advertised = @ \cup Advertised(catalog, now')]
        /\ UNCHANGED <<conf, catalog, cache, search>>
    BY <1>12, AccessAssumption DEF Tick
  <2>2. /\ history'.advertised = history.advertised \cup Advertised(catalog, now')
        /\ history'.configured = history.configured
        /\ history' = [advertised |-> history'.advertised,
                       configured |-> history'.configured]
    BY <2>1 DEF CatalogInv, HistoryOK
  <2>3. HistoryOK'
    BY <2>1, <2>2 DEF CatalogInv, HistoryOK, Advertised
  <2>4. now' >= now /\ now' \in Int
    BY <1>b, <2>1
  <2> QED BY <1>8, <1>b, <2>1, <2>2, <2>3, <2>4
<1>13. CASE \/ UNCHANGED <<World, cache, search>> /\ shown' = Nothing
            \/ UNCHANGED catalogVars
  <2>1. UNCHANGED <<World, cache, search>>
    BY <1>13 DEF catalogVars, World
  <2> QED BY <2>1, WorldSame DEF CatalogInv, CacheBacked, SearchBacked
<1> QED BY <1>1, <1>2, <1>3, <1>4, <1>5, <1>6, <1>7, <1>10, <1>11, <1>12, <1>13
        DEF CatalogStep

LEMMA CatalogCorrect == Spec => [](TypeOK /\ CatalogInv)
<1>1. ASSUME Init PROVE CatalogInv
  <2>1. /\ history.advertised = Advertised(catalog, 0) /\ now = 0
        /\ history.configured = {<<n, conf[n]>> : n \in Names}
        /\ history = [advertised |-> history.advertised,
                      configured |-> history.configured]
    BY <1>1 DEF Init, CatalogInit
  <2>2. HistoryOK
    BY <2>1 DEF HistoryOK, Advertised
  <2>3. CacheBacked /\ SearchBacked
    BY <1>1, AccessAssumption DEF Init, CatalogInit, CacheBacked, SearchBacked
  <2> QED BY <2>2, <2>3 DEF CatalogInv
<1>2. TypeOK /\ CatalogInv /\ [Next]_accessVars => CatalogInv'
  BY Steps, CatalogNext DEF TypeOK
<1> QED BY <1>1, <1>2, TypeCorrect, PTL DEF Spec

\* A listing is shown by the reader of a fresh entry and by the search that has
\* just written one.
LEMMA Shows == CatalogStep =>
    \/ shown' = Nothing
    \/ UNCHANGED catalogVars
    \/ UNCHANGED World /\ \E p \in Procs :
          \/ /\ search[p].pc = "read"
             /\ cache[search[p].name] \notin {Nothing, Broken}
             /\ Fresh(cache[search[p].name])
             /\ Show(p, cache[search[p].name].listing)
          \/ search[p].pc = "write" /\ Show(p, search[p].listing)
BY DEF CatalogStep, StartSearch, GetCatalog, Discard, Fetch, FetchNext, FetchFails, OpenEntry,
       WriteEntry, SearchEnds, PurgeCache, Push, Reconfigure, Tick

\* What a search shows is a listing that a URL of that name did advertise
\* within the TTL (Cache.read, Cache.write).
THEOREM ListingRecentCorrect == Spec => []ListingRecent
<1>1. Init => ListingRecent
  BY DEF Init, CatalogInit, ListingRecent
<1>2. TypeOK /\ CatalogInv /\ ListingRecent /\ [Next]_accessVars => ListingRecent'
  <2> SUFFICES ASSUME TypeOK, CatalogInv, ListingRecent, [Next]_accessVars
               PROVE  ListingRecent'
    OBVIOUS
  <2>0. CatalogTypeOK /\ CatalogStep /\ now \in Int /\ TTL \in Nat
    BY Steps, CatalogAssumption DEF TypeOK, CatalogTypeOK
  <2>1. CASE shown' = Nothing
    BY <2>1 DEF ListingRecent
  <2>2. CASE UNCHANGED catalogVars
    BY <2>2 DEF catalogVars, ListingRecent
  <2>3. ASSUME UNCHANGED World, NEW p \in Procs, NEW l \in Listings, NEW t \in (now - TTL)..now,
               Backed(search[p].name, l, t), Show(p, l)
        PROVE  ListingRecent'
    <3>1. /\ shown'.name = search[p].name /\ shown'.listing = l
          /\ now' = now /\ history' = history
      BY <2>3 DEF Show, World
    <3> QED BY <2>3, <3>1 DEF ListingRecent, Backed
  <2>4. ASSUME UNCHANGED World, NEW p \in Procs, search[p].pc = "read",
               cache[search[p].name] \notin {Nothing, Broken},
               Fresh(cache[search[p].name]), Show(p, cache[search[p].name].listing)
        PROVE  ListingRecent'
    <3> DEFINE e == cache[search[p].name]
    <3>1. search[p] \in Searches /\ search[p] # Still
      BY <2>0, <2>4, StillType, AccessAssumption DEF CatalogTypeOK
    <3>2. search[p].name \in Names
      BY <3>1, SearchType
    <3>3. e \in Entries /\ e.at <= now /\ Backed(search[p].name, e.listing, e.at)
      BY <2>0, <2>4, <3>2 DEF CatalogTypeOK, CatalogInv, CacheBacked
    <3>4. e.listing \in Listings /\ e.at \in 0..MaxTime /\ now - e.at <= TTL
      BY <2>4, <3>3 DEF Entries, Fresh
    <3> HIDE DEF e
    <3>5. e.at \in (now - TTL)..now
      BY <2>0, <3>3, <3>4, CatalogAssumption
    <3>6. Show(p, e.listing)
      BY <2>4 DEF e
    <3> QED BY <2>3, <2>4, <3>3, <3>4, <3>5, <3>6
  <2>5. ASSUME UNCHANGED World, NEW p \in Procs, search[p].pc = "write",
               Show(p, search[p].listing)
        PROVE  ListingRecent'
    <3>1. search[p] \in Searches /\ search[p] # Still
      BY <2>0, <2>5, StillType, AccessAssumption DEF CatalogTypeOK
    <3>2. search[p].listing \in Listings /\ Backed(search[p].name, search[p].listing, now)
      BY <2>5, <3>1, SearchType DEF CatalogInv, SearchBacked
    <3>3. now \in (now - TTL)..now
      BY <2>0
    <3> QED BY <2>3, <2>5, <3>2, <3>3
  <2> QED BY <2>0, <2>1, <2>2, <2>4, <2>5, Shows
<1> QED BY <1>1, <1>2, CatalogCorrect, PTL DEF Spec
===============================================================================
