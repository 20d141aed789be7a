---------------------------- MODULE Distribution ----------------------------
(***************************************************************************)
(* What the distribution API answers, and to whom: the frameworks and      *)
(* versions it lists, the pages of the change feed, and the documents it   *)
(* serves, each under its own form of the rule on regions and copyright.   *)
(*                                                                         *)
(* A caller is a bearer token, which belongs to the platform's tenant, or  *)
(* an approved organization, which has a tenant of its own.  A request     *)
(* resolves its caller once; every query after that is a statement on a    *)
(* connection without a transaction, so what one statement saw may be gone *)
(* at the next.  Callers only read, so they meet in nothing but the rows:  *)
(* one of them, any one, is followed, one request at a time.  Review and   *)
(* signing are those of VersionLifecycle: here a version is released in    *)
(* one step.                                                               *)
(***************************************************************************)
EXTENDS Integers, Sequences, FiniteSetsExt

CONSTANTS
  Frameworks,      \* framework rows, one after another under a reference id
  RefOf,           \* the reference id of each
  RegionOf,        \* the region of each
  OpenLicense,     \* the frameworks in the public domain or statutory
  Versions,        \* version rows: 1 .. n, in order of creation
  FrameworkOf,     \* the framework of each
  NameOf,          \* the name of each
  Tokens,          \* distribution tokens
  RegionsOf,       \* the regions each token was issued with, blanks included
  Blank,           \* an empty region in that list
  Organizations,   \* organizations that sync without a token
  PageLimit,       \* events in a page of the feed
  MaxEvents,       \* bound: events appended to the feed
  NoRegion,        \* a catalog request that names no region
  NoVersion

Callers == Tokens \union Organizations
Regions == {RegionOf[f] : f \in Frameworks}
VersionsOf(f) == {v \in Versions : FrameworkOf[v] = f}
References == {RefOf[f] : f \in Frameworks}
Names == {NameOf[v] : v \in Versions}

ASSUME DistributionAssumption ==
  /\ IsFiniteSet(Versions) /\ Versions = 1 .. Cardinality(Versions)
  /\ FrameworkOf \in [Versions -> Frameworks]
  /\ \A f \in Frameworks : VersionsOf(f) # {}
  /\ RegionsOf \in [Tokens -> SUBSET (Regions \union {Blank})]
  /\ OpenLicense \subseteq Frameworks /\ Tokens \intersect Organizations = {}
  /\ Blank \notin Regions /\ NoRegion \notin Regions
  /\ \A f \in Frameworks : \A v, w \in VersionsOf(f) : NameOf[v] = NameOf[w] => v = w
  /\ PageLimit \in Nat \ {0} /\ MaxEvents \in Nat

VARIABLES
  framework,   \* frameworks: whether the row is there, and its public column
  version,     \* framework_versions: status, and when it was published
  mapped,      \* versions with a published mapping set
  feed,        \* distribution_events, by sequence number
  origin,      \* history: the version row each event was emitted for
  caller,      \* the caller that is followed
  access,      \* of its token or organization: whether it authenticates
  walk,        \* its requests for /changes, and its cursor
  fetch,       \* its fetch under way: what is resolved so far
  document     \* the document its last request was served

vars == <<framework, version, mapped, feed, origin, caller, access, walk, fetch, document>>
registry == <<framework, version, mapped, feed, origin>>
requests == <<caller, walk, fetch, document>>

Kinds == {"published", "deprecated", "mapping_published"}
Event == [kind : Kinds, framework : References, version : Names, region : Regions, public : BOOLEAN]
NoFetch == [pc |-> "idle", framework |-> CHOOSE f \in Frameworks : TRUE, version |-> NoVersion]
NoDocument == [kind |-> "none", version |-> NoVersion, whole |-> FALSE, recorded |-> FALSE]

Init ==
  /\ framework = [f \in Frameworks |-> "absent"]
  /\ version = [v \in Versions |-> [status |-> "absent", at |-> 0]]
  /\ mapped = {}
  /\ feed = <<>> /\ origin = <<>>
  /\ caller \in Callers
  /\ access = "absent"
  /\ walk = [pc |-> "idle", head |-> 0, cursor |-> 0, more |-> TRUE, got |-> {}]
  /\ fetch = NoFetch
  /\ document = NoDocument

-----------------------------------------------------------------------------
(* The registry *)

Exists(f) == framework[f] \in {"private", "public"}
Public(f) == framework[f] = "public"

\* The rows go by their ids and names, the visibility is that of the framework
\* row in hand.
Announcement(kind, v, public) ==
  [kind |-> kind, framework |-> RefOf[FrameworkOf[v]], version |-> NameOf[v],
   region |-> RegionOf[FrameworkOf[v]], public |-> public]

emitDistributionEvent(kind, v, public) ==
  /\ Len(feed) < MaxEvents
  /\ feed' = Append(feed, Announcement(kind, v, public))
  /\ origin' = Append(origin, v)

Rows(f) == {v \in VersionsOf(f) : version[v].status \in {"draft", "published", "deprecated"}}

\* With a first draft.  frameworks_tenant_ref_unique: an id is free again once its
\* framework is gone.
CreateFramework(f) ==
  /\ framework[f] = "absent" /\ \A g \in Frameworks : RefOf[g] = RefOf[f] => ~Exists(g)
  /\ framework' = [framework EXCEPT ![f] = "private"]
  /\ version' = [version EXCEPT ![Min(VersionsOf(f))].status = "draft"]
  /\ UNCHANGED <<mapped, feed, origin, access, requests>>

OpenDraft(f) ==
  /\ Rows(f) # {} /\ Rows(f) # VersionsOf(f)
  /\ version' = [version EXCEPT ![Min(VersionsOf(f) \ Rows(f))].status = "draft"]
  /\ UNCHANGED <<framework, mapped, feed, origin, access, requests>>

\* Mutant of Publish: announced before the license has settled the visibility.
PublishAnnouncingFirst(v) ==
  LET f == FrameworkOf[v] IN
  /\ version[v].status = "draft"
  /\ version' = [version EXCEPT ![v] = [status |-> "published", at |-> Len(feed) + 1]]
  /\ emitDistributionEvent("published", v, Public(f))
  /\ framework' = [framework EXCEPT ![f] = IF f \in OpenLicense THEN "public" ELSE "private"]
  /\ UNCHANGED <<mapped, access, requests>>

\* The license decides who may see the framework, and the event says so.
Publish(v) ==
  LET f == FrameworkOf[v] IN
  /\ version[v].status = "draft"
  /\ version' = [version EXCEPT ![v] = [status |-> "published", at |-> Len(feed) + 1]]
  /\ framework' = [framework EXCEPT ![f] = IF f \in OpenLicense THEN "public" ELSE "private"]
  /\ emitDistributionEvent("published", v, f \in OpenLicense)
  /\ UNCHANGED <<mapped, access, requests>>

Deprecate(v) ==
  /\ version[v].status = "published"
  /\ version' = [version EXCEPT ![v].status = "deprecated"]
  /\ emitDistributionEvent("deprecated", v, Public(FrameworkOf[v]))
  /\ UNCHANGED <<framework, mapped, access, requests>>

\* On the newest version, which may be a draft of a framework nobody else sees.
PublishMappingSet(f) ==
  /\ Rows(f) # {}
  /\ mapped' = mapped \union {Max(Rows(f))}
  /\ emitDistributionEvent("mapping_published", Max(Rows(f)), Public(f))
  /\ UNCHANGED <<framework, version, access, requests>>

\* The versions and their sets go by cascade.  Nothing is announced.
DeleteFramework(f) ==
  /\ Exists(f)
  /\ framework' = [framework EXCEPT ![f] = "deleted"]
  /\ version' = [v \in Versions |->
       IF v \in VersionsOf(f) THEN [status |-> "deleted", at |-> 0] ELSE version[v]]
  /\ mapped' = mapped \ VersionsOf(f)
  /\ UNCHANGED <<feed, origin, access, requests>>

-----------------------------------------------------------------------------
(* Tokens and organizations *)

IssueToken ==
  /\ caller \in Tokens /\ access = "absent" /\ access' = "active"
  /\ UNCHANGED <<registry, requests>>

\* tokenAction: each is an UPDATE or DELETE of the row, if it is there.
TokenAction(status) ==
  /\ caller \in Tokens /\ access \in {"active", "revoked"} /\ access' = status
  /\ UNCHANGED <<registry, requests>>

RevokeToken == TokenAction("revoked")
ReinstateToken == TokenAction("active")
DeleteToken == TokenAction("deleted")

RegisterOrganization ==
  /\ caller \in Organizations /\ access = "absent" /\ access' = "pending"
  /\ UNCHANGED <<registry, requests>>

\* Whatever the status was.
SetOrgStatus(status) ==
  /\ caller \in Organizations /\ access # "absent" /\ access' = status
  /\ UNCHANGED <<registry, requests>>

\* LoadByHashedToken: a revoked token is not found.
TokenResolves == access = "active"

\* SyncContextForOrg: pending, suspended and unknown are refused alike.
OrgApproved == access = "approved"

-----------------------------------------------------------------------------
(* Who sees what *)

\* The platform's tenant owns every framework; a token is issued under it.
Owns(c) == c \in Tokens

\* Split at the commas, trimmed, blanks dropped.  Empty means every region.
RegionList(c) == IF c \in Tokens THEN RegionsOf[c] \ {Blank} ELSE {}

\* LoadCatalog, restricted to some regions.
LoadCatalog(c, regions) ==
  {f \in Frameworks : /\ Exists(f) /\ (Public(f) \/ Owns(c))
                      /\ regions = {} \/ RegionOf[f] \in regions}

LatestPublished(f) ==
  LET published == {v \in VersionsOf(f) : version[v].status = "published"}
  IN  {v \in published : \A w \in published : version[w].at <= version[v].at}

\* The rows of /catalog, asked for one region or for none.
Catalog(c, region) ==
  LET scope == RegionList(c)
      asked == IF region = NoRegion THEN scope
               ELSE IF scope = {} THEN {region} ELSE scope \intersect {region}
  IN  IF region # NoRegion /\ asked = {} THEN {}
      ELSE UNION {LatestPublished(f) : f \in LoadCatalog(c, asked)}

\* Mutant of AllVersions: without the regions of the token.
AllVersionsAnywhere(c, f) == IF ~Exists(f) \/ (~Public(f) /\ ~Owns(c)) THEN {} ELSE Rows(f)

\* Service.Versions: every version of a framework the caller may see.
AllVersions(c, f) ==
  IF \/ ~Exists(f) \/ (~Public(f) /\ ~Owns(c))
     \/ (RegionList(c) # {} /\ RegionOf[f] \notin RegionList(c)) THEN {}
  ELSE Rows(f)

\* /frameworks/{id} lists the published ones.
ListVersions(c, f) == {v \in AllVersions(c, f) : version[v].status = "published"}

\* The gate of resolveDistributable, on the framework found by its reference id.
Distributable(c, f) ==
  /\ Exists(f)
  /\ Public(f) \/ Owns(c)
  /\ RegionList(c) = {} \/ RegionOf[f] \in RegionList(c)

\* The version of some name.  "latest" is the newest, whatever is named so.
VersionNamed(f, name) ==
  IF name = "latest" THEN LatestPublished(f)
  ELSE {v \in VersionsOf(f) : NameOf[v] = name /\ version[v].status = "published"}

Resolved(c, f, name) == IF Distributable(c, f) THEN VersionNamed(f, name) ELSE {}

\* The framework is looked up by the reference id asked for.
Served(c, ref, name) == UNION {Resolved(c, f, name) : f \in {f \in Frameworks : RefOf[f] = ref}}

\* Mutant of Visible: the framework row of today decides.
VisibleToday(c, e) ==
  /\ Owns(c) \/ \E f \in Frameworks : RefOf[f] = e.framework /\ Public(f)
  /\ RegionList(c) = {} \/ e.region \in RegionList(c)

\* The visibility of an event is the one it was appended with.
Visible(c, e) ==
  /\ e.public \/ Owns(c)
  /\ RegionList(c) = {} \/ e.region \in RegionList(c)

VisibleSeqs(c) == {i \in DOMAIN feed : Visible(c, feed[i])}

-----------------------------------------------------------------------------
(* Requests *)

\* A request begins with the caller, once.
Authenticated ==
  /\ walk.pc = "idle" /\ fetch.pc = "idle"
  /\ IF caller \in Tokens THEN TokenResolves ELSE OrgApproved

\* The head of the feed is read before the page.
HeadSeq ==
  /\ Authenticated
  /\ document' = NoDocument
  /\ walk' = [walk EXCEPT !.pc = "head",
                          !.head = IF VisibleSeqs(caller) = {} THEN 0 ELSE Max(VisibleSeqs(caller))]
  /\ UNCHANGED <<registry, caller, access, fetch>>

\* The n smallest members of S, or S.
First(n, S) == {i \in S : Cardinality({j \in S : j <= i}) <= n}

\* LoadSince: one event more than the limit, to tell whether there are more.
Page == First(PageLimit + 1, {i \in VisibleSeqs(caller) : i > walk.cursor})

\* The caller goes on from nextSeq, the last event of the page.
Changes ==
  LET page == First(PageLimit, Page) IN
  /\ walk.pc = "head"
  /\ walk' = [walk EXCEPT !.pc = "idle", !.more = Cardinality(Page) > PageLimit,
                          !.cursor = IF page = {} THEN @ ELSE Max(page),
                          !.got = @ \union page]
  /\ UNCHANGED <<registry, caller, access, fetch, document>>

\* A bundle or a seed: the framework, then the version, then its structure.
ResolveFramework(f) ==
  /\ Authenticated /\ Distributable(caller, f)
  /\ fetch' = [pc |-> "framework", framework |-> f, version |-> NoVersion]
  /\ document' = NoDocument
  /\ UNCHANGED <<registry, caller, access, walk>>

\* The name is looked up among the versions of the framework found before.
ResolveVersion(v) ==
  /\ fetch.pc = "framework"
  /\ \E name \in Names \union {"latest"} : v \in VersionNamed(fetch.framework, name)
  /\ fetch' = [fetch EXCEPT !.pc = "version", !.version = v]
  /\ UNCHANGED <<registry, caller, access, walk, document>>

\* The version named is withdrawn or gone meanwhile, or never was.
NotFound ==
  /\ fetch.pc = "framework"
  /\ fetch' = NoFetch
  /\ UNCHANGED <<registry, caller, access, walk, document>>

\* Put together from the rows there are by then, and recorded.  A bundle is
\* served with the signature read with its version, and a consumer that verifies
\* it refuses it unless it is whole; a seed has no signature.
Serve(kind) ==
  LET whole == version[fetch.version].status # "deleted" IN
  /\ fetch.pc = "version"
  /\ fetch' = NoFetch
  /\ document' = IF kind = "bundle" /\ ~whole THEN NoDocument
                 ELSE [kind |-> kind, version |-> fetch.version, whole |-> whole, recorded |-> TRUE]
  /\ UNCHANGED <<registry, caller, access, walk>>

\* MappingSetDocument: the stored document, on the same gate; "latest" is the
\* newest version of any status.
FetchMappingSet(v) ==
  /\ Authenticated /\ Distributable(caller, FrameworkOf[v]) /\ v \in mapped
  /\ NameOf[v] = "latest" => v = Max(Rows(FrameworkOf[v]))
  /\ document' = [kind |-> "mapping", version |-> v, whole |-> TRUE, recorded |-> FALSE]
  /\ UNCHANGED <<registry, caller, access, walk, fetch>>

Next ==
  \/ \E f \in Frameworks :
       \/ CreateFramework(f) \/ OpenDraft(f) \/ PublishMappingSet(f) \/ DeleteFramework(f)
       \/ ResolveFramework(f)
  \/ \E v \in Versions : Publish(v) \/ Deprecate(v) \/ ResolveVersion(v) \/ FetchMappingSet(v)
  \/ IssueToken \/ RevokeToken \/ ReinstateToken \/ DeleteToken
  \/ RegisterOrganization \/ \E status \in {"approved", "suspended"} : SetOrgStatus(status)
  \/ HeadSeq \/ Changes \/ NotFound
  \/ \E kind \in {"bundle", "seed"} : Serve(kind)

Spec == Init /\ [][Next]_vars

-----------------------------------------------------------------------------
(* Properties *)

\* A caller that goes on from nextSeq, page after page, gets every event it may
\* ever see, and knows by hasMore when it has reached the head it was told: no
\* event turns visible behind its cursor, whatever is published, deleted or
\* created again meanwhile.
NothingMissed ==
  /\ walk.got = {i \in VisibleSeqs(caller) : i <= walk.cursor}
  /\ walk.pc = "idle" /\ ~walk.more => walk.head <= walk.cursor

\* What a caller is told of a version it knows by reference id and name.
Told(c, ref, name, kinds) ==
  {i \in VisibleSeqs(c) : feed[i].framework = ref /\ feed[i].version = name /\ feed[i].kind \in kinds}

\* The release it is told of and not that it was withdrawn, by what it heard last.
LastToldReleased(c, ref, name) ==
  LET told == Told(c, ref, name, {"published", "deprecated"})
  IN  {i \in told : feed[i].kind = "published" /\ \A j \in told : j <= i}

\* The feed and the API agree.  A version that is served under its reference id
\* and name is the very one of the event a caller heard last of that name, and a
\* release it heard of last is served, to it, unless its framework is deleted,
\* which nothing announces: whether or not a framework of another license or
\* another region took the id since.  The event goes by what it kept, the API by
\* the row of today.
FeedMatchesCatalog ==
  \A c \in Callers, ref \in References, name \in Names \ {"latest"} :
    Served(c, ref, name) =
      {origin[i] : i \in {i \in LastToldReleased(c, ref, name) : Exists(FrameworkOf[origin[i]])}}

Listed(c, ref) == UNION {ListVersions(c, f) : f \in {f \in Frameworks : RefOf[f] = ref}}

\* What is listed is served and what is served is listed: the four forms of the
\* rule on regions and copyright, two in SQL and two in Go, let the same
\* versions through, for every list of regions a token can be issued with, and a
\* reference id and a name never stand for two.  A version named "latest" is
\* listed and not served under its name, which means the newest of them all.
ListedIsServed ==
  \A c \in Callers :
    /\ \A ref \in References :
         LET latest == Served(c, ref, "latest") IN
         /\ \A name \in Names \union {"latest"} : \A v, w \in Served(c, ref, name) : v = w
         /\ {v \in Listed(c, ref) : NameOf[v] # "latest"} =
              UNION {Served(c, ref, name) : name \in Names \ {"latest"}}
         /\ latest \subseteq Listed(c, ref) /\ (latest = {} => Listed(c, ref) = {})
         /\ {v \in Catalog(c, NoRegion) : RefOf[FrameworkOf[v]] = ref} = latest
    /\ UNION {Catalog(c, region) : region \in Regions} = Catalog(c, NoRegion)

\* What docs/API-SYNC.md:342 says of framework and version, "idempotency key;
\* content behind it never changes".  The code fails it: a framework that is
\* deleted and created again begins with the same name of a version.
KeyNamesOneVersion ==
  \A i, j \in DOMAIN feed :
    /\ feed[i].kind = "published" /\ feed[j].kind = "published"
    /\ feed[i].framework = feed[j].framework /\ feed[i].version = feed[j].version
    => origin[i] = origin[j]

\* What src/pkg/coredata/distribution_event.go:51 says of the visibility kept in
\* an event, "so the feed filters identically to /catalog".  The code fails it:
\* the release of a framework deleted since speaks for the one that took its id,
\* which the caller may not see.
ToldIsServed ==
  \A c \in Callers, v \in Versions :
    LET ref == RefOf[FrameworkOf[v]] IN
    version[v].status = "published" /\ NameOf[v] # "latest"
      /\ LastToldReleased(c, ref, NameOf[v]) # {} => v \in Served(c, ref, NameOf[v])

\* A document a caller holds has the content of its version: a claim of the API
\* guide that does not hold of a seed put together while its framework goes.
DocumentIsWhole == document.kind # "none" => document.whole

\* Every fetch is recorded: a claim of the integration guide that does not hold
\* of mapping sets.
FetchIsRecorded == document.kind # "none" => document.recorded

\* A caller that is served a mapping set was told of it: a claim of the
\* integration guide that fails for a set published before its framework was
\* public.
SetIsAnnounced ==
  \A c \in Callers, v \in mapped :
    Distributable(c, FrameworkOf[v]) =>
      Told(c, RefOf[FrameworkOf[v]], NameOf[v], {"mapping_published"}) # {}
=============================================================================
