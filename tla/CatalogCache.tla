------------------------------ MODULE CatalogCache ------------------------------
(***************************************************************************)
(* dz search: the catalog of a configured registry, from the cache if it   *)
(* is there and no older than the TTL, else from the registry, and then    *)
(* put into the cache.  An entry is kept under the NAME of the registry;   *)
(* it is truncated and written in place, and one that does not parse is    *)
(* removed by its reader, with nothing to keep the commands apart.         *)
(*                                                                         *)
(* A server answers page by page, and each page is of its own moment.      *)
(*                                                                         *)
(* Time is counted in ticks.  A tick is long for a process that has a page *)
(* in hand: it asks for the others, stores and shows them before the next. *)
(***************************************************************************)
EXTENDS Integers, FiniteSets

CONSTANTS
    Searchers,      \* dz processes
    Servers,        \* hosts
    Names,          \* configured names of registries
    URLs,           \* what a name may be configured to: a host and a namespace
    Nothing,        \* no entry, no listing
    TTL, MaxTime,   \* in ticks; MaxTime is a bound
    MaxVersions     \* bound: changes of the catalogs

URL == [host: Servers, namespace: STRING]

ASSUME CatalogAssumption ==
    /\ URLs \subseteq URL /\ URLs # {}
    /\ TTL \in Nat /\ MaxTime \in Nat /\ MaxVersions \in Nat

VARIABLES
    conf,       \* conf[n]: the URL of registry n
    catalog,    \* catalog[h]: what the server advertises, as a version
    cache,      \* cache[n]: catalog.json of n
    search,     \* search[p]: the search of process p
    now,
    shown,      \* the listing the last step showed, and for which name
    history     \* history: what each URL advertised when, and the URLs a name
                \* has had

catalogVars == <<conf, catalog, cache, search, now, shown, history>>
-------------------------------------------------------------------------------
\* A listing is that of a namespace, its pages of one or more versions of the
\* server's catalog.
Listings == [url: URLs, versions: SUBSET (0..MaxVersions)]
Entries == [listing: Listings, at: 0..MaxTime]
Broken == [listing |-> Nothing]         \* empty, or not what any writer meant

Still == [pc |-> "idle"]
Searches == {Still} \cup
    [pc: {"read", "discard", "fetch"}, name: Names, url: URLs] \cup
    [pc: {"pages", "open"}, name: Names, url: URLs, listing: Listings] \cup
    [pc: {"write"}, name: Names, url: URLs, listing: Listings, at: 0..MaxTime,
     open: BOOLEAN]

CatalogTypeOK ==
    /\ conf \in [Names -> URLs]
    /\ catalog \in [Servers -> 0..MaxVersions]
    /\ cache \in [Names -> Entries \cup {Nothing, Broken}]
    /\ search \in [Searchers -> Searches]
    /\ now \in 0..MaxTime
    /\ shown \in {Nothing} \cup [name: Names, listing: Listings]

Advertised(cat, t) == {[url |-> u, version |-> cat[u.host], at |-> t] : u \in URLs}

CatalogInit ==
    /\ conf \in [Names -> URLs]
    /\ catalog = [h \in Servers |-> 0]
    /\ cache = [n \in Names |-> Nothing]
    /\ search = [p \in Searchers |-> Still]
    /\ now = 0 /\ shown = Nothing
    /\ history = [advertised |-> Advertised(catalog, 0),
                  configured |-> {<<n, conf[n]>> : n \in Names}]

Searching(p) == search[p] # Still
ToFetch(p) == [pc |-> "fetch", name |-> search[p].name, url |-> search[p].url]
Show(p, l) == shown' = [name |-> search[p].name, listing |-> l]
World == <<conf, catalog, now, history>>
-------------------------------------------------------------------------------
\* Mutant: an entry is good for one tick more than its TTL.
FreshLonger(entry) == now - entry.at <= TTL + 1

\* read: an entry is good until it is older than the TTL.
Fresh(entry) == now - entry.at <= TTL

\* Catalog: the registry as the command found it configured.
StartSearch(p) ==
    /\ search[p] = Still
    /\ \E n \in Names :
          search' = [search EXCEPT ![p] = [pc |-> "read", name |-> n, url |-> conf[n]]]
    /\ shown' = Nothing /\ UNCHANGED <<World, cache>>

\* GetCatalog: a hit is shown; what does not parse is to be removed.
GetCatalog(p) ==
    /\ search[p].pc = "read"
    /\ LET e == cache[search[p].name] IN
       IF e \notin {Nothing, Broken} /\ Fresh(e)
       THEN Show(p, e.listing) /\ search' = [search EXCEPT ![p] = Still]
       ELSE /\ search' = [search EXCEPT ![p] = IF e = Broken
                                               THEN [ToFetch(p) EXCEPT !.pc = "discard"]
                                               ELSE ToFetch(p)]
            /\ shown' = Nothing
    /\ UNCHANGED <<World, cache>>

\* The entry of n goes, and its name for those who have it open.
Detached(n) ==
    [q \in Searchers |-> IF search[q].pc = "write" /\ search[q].name = n
                         THEN [search[q] EXCEPT !.open = FALSE] ELSE search[q]]

\* read: os.Remove of an entry that did not parse, whatever it is by now.
Discard(p) ==
    /\ search[p].pc = "discard"
    /\ cache' = [cache EXCEPT ![search[p].name] = Nothing]
    /\ search' = [Detached(search[p].name) EXCEPT ![p] = ToFetch(p)]
    /\ shown' = Nothing /\ UNCHANGED World

\* The versions of a listing, and another page as the server has it now.
WithPage(p, versions) ==
    [url |-> search[p].url, versions |-> versions \cup {catalog[search[p].url.host]}]

\* The listing so far, and whether there is another page.
Received(p, l) ==
    \E next \in {"pages", "open"} :
        search' = [search EXCEPT ![p] = [pc |-> next, name |-> search[p].name,
                                         url |-> search[p].url, listing |-> l]]

\* Client.Catalog: the first page of the server's catalog, and what of it is in
\* the namespace of the URL.
Fetch(p) ==
    /\ search[p].pc = "fetch"
    /\ Received(p, WithPage(p, {}))
    /\ shown' = Nothing /\ UNCHANGED <<World, cache>>

\* Client.Catalog: the pages after it.
FetchNext(p) ==
    /\ search[p].pc = "pages"
    /\ Received(p, WithPage(p, search[p].listing.versions))
    /\ shown' = Nothing /\ UNCHANGED <<World, cache>>

\* ErrCatalogUnavailable, or another error: nothing is shown, nothing cached.
FetchFails(p) ==
    /\ search[p].pc \in {"fetch", "pages"}
    /\ search' = [search EXCEPT ![p] = Still]
    /\ shown' = Nothing /\ UNCHANGED <<World, cache>>

\* PutCatalog: the time is taken, and the file opened, empty from then on.
OpenEntry(p) ==
    /\ search[p].pc = "open"
    /\ cache' = [cache EXCEPT ![search[p].name] = Broken]
    /\ search' = [search EXCEPT ![p] = [pc |-> "write", name |-> search[p].name,
                                        url |-> search[p].url,
                                        listing |-> search[p].listing,
                                        at |-> now, open |-> TRUE]]
    /\ shown' = Nothing /\ UNCHANGED World

\* Mutant: the listing without its time.
StampedNot(listing, at) == listing

\* cachedEntry.
Stamped(listing, at) == [listing |-> listing, at |-> at]

\* What a write leaves: nothing, if it fails or the file has lost its name; the
\* entry; or a part of it, or the entry with the tail of another's longer text.
Written(p) ==
    LET n == search[p].name
        e == Stamped(search[p].listing, search[p].at)
    IN \/ UNCHANGED cache
       \/ search[p].open /\ \E f \in {e, Broken} : cache' = [cache EXCEPT ![n] = f]

\* PutCatalog: an error is ignored, and the listing is shown.
WriteEntry(p) ==
    /\ search[p].pc = "write"
    /\ Written(p)
    /\ Show(p, search[p].listing)
    /\ search' = [search EXCEPT ![p] = Still]
    /\ UNCHANGED World

\* The process is killed, or the user interrupts it, perhaps while it writes.
SearchEnds(p) ==
    /\ Searching(p)
    /\ IF search[p].pc = "write" THEN Written(p) ELSE UNCHANGED cache
    /\ search' = [search EXCEPT ![p] = Still]
    /\ shown' = Nothing /\ UNCHANGED World

-------------------------------------------------------------------------------
\* The environment

\* An image is pushed or deleted.
Push(h) ==
    /\ \A g \in Servers : catalog[g] < MaxVersions
    /\ catalog' = [catalog EXCEPT ![h] = @ + 1]
    /\ history' = [history EXCEPT !.advertised = @ \cup Advertised(catalog', now)]
    /\ shown' = Nothing /\ UNCHANGED <<conf, cache, search, now>>

\* remove registry and add registry, or an edit of config.yaml; the cache stays.
Reconfigure(n) ==
    /\ \E u \in URLs \ {conf[n]} :
          /\ conf' = [conf EXCEPT ![n] = u]
          /\ history' = [history EXCEPT !.configured = @ \cup {<<n, u>>}]
    /\ shown' = Nothing /\ UNCHANGED <<catalog, cache, search, now>>

Tick ==
    /\ now < MaxTime /\ now' = now + 1
    /\ \A p \in Searchers : search[p].pc \notin {"pages", "open", "write"}
    /\ history' = [history EXCEPT !.advertised = @ \cup Advertised(catalog, now')]
    /\ shown' = Nothing /\ UNCHANGED <<conf, catalog, cache, search>>
-------------------------------------------------------------------------------
\* What a search shows is a listing of which a URL configured under that name
\* did advertise every page within the TTL: never what outlived it, what two
\* writers made of one file, or a page of another registry, however searches,
\* crashes and reconfigurations overlap (Cache.read, Cache.write).  A name that
\* was never moved to another URL so shows its own.
ListingRecent ==
    shown # Nothing =>
        /\ <<shown.name, shown.listing.url>> \in history.configured
        /\ \A v \in shown.listing.versions : \E t \in (now - TTL)..now :
              [url |-> shown.listing.url, version |-> v, at |-> t] \in history.advertised
===============================================================================
