--------------------------- MODULE CrossMappings ---------------------------
(***************************************************************************)
(* Requirement cross-mappings (table requirement_cross_mappings) and the   *)
(* releases that drive them.  A mapping names a target framework and a     *)
(* target code; it starts as an unresolved stub, is linked to a            *)
(* requirement of a published version when there is one, and is flagged    *)
(* when a later release changes or drops what it points at.                *)
(*                                                                         *)
(* Versions are seen here only as far as mappings depend on them: review   *)
(* is one state, approval is part of Publish, and requests are serial (see *)
(* VersionLifecycle for what overlapping ones do).  The exception is       *)
(* AddItemMapping, whose transaction may overlap any other request when    *)
(* Overlap is TRUE: neither sees what the other has not committed.         *)
(***************************************************************************)
EXTENDS Naturals, FiniteSets

CONSTANTS
  Frameworks, Versions, FrameworkOf,
  Codes, Texts,
  NoVersion,        \* SQL NULL as a target, "" as a pinned version
  NoText,           \* "the version has no requirement with this code"
  NoLink,           \* no AddItemMapping transaction is under way
  Links,            \* the mappings that may be authored
  Overlap,          \* whether AddItemMapping overlaps other requests
  MaxDeprecations   \* bound: versions deprecated

\* A mapping row is identified by what cannot be edited in it (rxmap_unique).
LinkType ==
  [source : Versions, code : Codes, framework : Frameworks,
   pin : Versions \union {NoVersion}, target : Codes]

ASSUME MappingAssumption ==
  /\ FrameworkOf \in [Versions -> Frameworks] /\ IsFiniteSet(Versions)
  /\ NoVersion \notin Versions /\ NoText \notin Texts
  /\ Links \subseteq LinkType /\ NoLink \notin Links
  /\ Overlap \in BOOLEAN /\ MaxDeprecations \in Nat

VARIABLES
  rows,       \* framework_versions: status, creation and publication order
  content,    \* requirements: the text of each code in each version
  xm,         \* requirement_cross_mappings
  adding,     \* the AddItemMapping transaction under way, if any
  deprecated, \* counter for MaxDeprecations
  raced       \* history: links whose AddItemMapping overlapped a publication

vars == <<rows, content, xm, adding, deprecated, raced>>

Bodies == [Codes -> Texts \union {NoText}]
EmptyBody == [c \in Codes |-> NoText]
Reviews == {"current", "needs_review", "orphaned"}

NoMapping == [present |-> FALSE, resolved |-> NoVersion, review |-> "current"]
Stub == [NoMapping EXCEPT !.present = TRUE]
NoAdd == [link |-> NoLink, outcome |-> [l \in Links |-> NoMapping]]
NewRow == [status |-> "absent", createdAt |-> 0, publishedAt |-> 0]

Init ==
  /\ rows = [v \in Versions |-> NewRow]
  /\ content = [v \in Versions |-> EmptyBody]
  /\ xm = [l \in Links |-> NoMapping]
  /\ adding = NoAdd
  /\ deprecated = 0
  /\ raced = {}

-----------------------------------------------------------------------------
(* The statements, as functions of the state of the table they update *)

IsOpen(m, l) == m[l].present /\ m[l].resolved = NoVersion
HasCode(v, c) == content[v][c] # NoText
Honours(l, v) == l.pin \in {NoVersion, v}

\* Mutant of PublishedIn: drafts count.
PublishedInOrDraft(r, f) ==
  {v \in Versions : FrameworkOf[v] = f /\ r[v].status \in {"draft", "published"}}

PublishedIn(r, f) == {v \in Versions : FrameworkOf[v] = f /\ r[v].status = "published"}
LatestPublished(r, V) == CHOOSE v \in V : \A w \in V : r[w].publishedAt <= r[v].publishedAt
NewestCreated(r, V) == CHOOSE v \in V : \A w \in V : r[w].createdAt <= r[v].createdAt

\* Mutant of ResolveTo: what is resolved already is resolved again.
ResolveToAgain(m, target) ==
  [l \in Links |-> IF l \in DOMAIN target /\ m[l].present
                   THEN [m[l] EXCEPT !.resolved = target[l]] ELSE m[l]]

\* Every open stub with a target becomes a link to the version target names.
ResolveTo(m, target) ==
  [l \in Links |-> IF l \in DOMAIN target /\ IsOpen(m, l)
                   THEN [m[l] EXCEPT !.resolved = target[l]] ELSE m[l]]

\* The stubs of one source version, each against the latest published version
\* of its target framework, or against the version it pins.
ResolveOwnStubs(m, source, r) ==
  LET Candidates(l) == {v \in PublishedIn(r, l.framework) : Honours(l, v)}
      own == {l \in Links : l.source = source /\ Candidates(l) # {}}
      latest == [l \in own |-> LatestPublished(r, Candidates(l))]
  IN  ResolveTo(m, [l \in {k \in own : HasCode(latest[k], k.target)} |-> latest[l]])

\* Mutant of ResolveStubsTargeting: stubs that pin a version are passed over.
ResolveStubsTargetingUnpinned(m, v) ==
  ResolveTo(m, [l \in {k \in Links : /\ k.framework = FrameworkOf[v]
                                     /\ k.pin = NoVersion
                                     /\ HasCode(v, k.target)} |-> v])

\* Every stub that points at the framework of v, against v.
ResolveStubsTargeting(m, v) ==
  ResolveTo(m, [l \in {k \in Links : /\ k.framework = FrameworkOf[v]
                                     /\ Honours(k, v)
                                     /\ HasCode(v, k.target)} |-> v])

\* The release of v is compared with the newest other version still published.
FlagMappings(m, v, r) ==
  LET others == PublishedIn(r, FrameworkOf[v]) \ {v}
      base == NewestCreated(r, others)
      Moved(l) == /\ m[l].present
                  /\ l.framework = FrameworkOf[v]
                  /\ HasCode(base, l.target)
                  /\ content[v][l.target] # content[base][l.target]
  IN  IF others = {} THEN m
      ELSE [l \in Links |->
              IF Moved(l)
              THEN [m[l] EXCEPT !.review = IF HasCode(v, l.target) THEN "needs_review" ELSE "orphaned"]
              ELSE m[l]]

\* Mutant of ResolveAfterPublish: the flagging is forgotten.
ResolveAfterPublishUnflagged(m, v, r) == ResolveStubsTargeting(ResolveOwnStubs(m, v, r), v)

ResolveAfterPublish(m, v, r) ==
  FlagMappings(ResolveStubsTargeting(ResolveOwnStubs(m, v, r), v), v, r)

\* ON DELETE CASCADE from the source requirement, ON DELETE SET NULL from the
\* target one, for the requirements of v with a code in C.
DropRequirements(m, v, C) ==
  [l \in Links |->
     IF l.source = v /\ l.code \in C THEN NoMapping
     ELSE IF m[l].resolved = v /\ l.target \in C
          THEN [m[l] EXCEPT !.resolved = NoVersion] ELSE m[l]]

-----------------------------------------------------------------------------
(* Versions *)

Quiet == Overlap \/ adding = NoAdd

\* Timestamps are only compared with those of the same framework: the next one
\* there is.
Stamp(v, at) == Cardinality({u \in Versions : FrameworkOf[u] = FrameworkOf[v] /\ rows[u][at] # 0}) + 1

\* Versions published with a bundle that embeds its mappings are older than this
\* code: what it publishes is SchemaVersion3.
Mappable(v) == rows[v].status \in {"draft", "published"}

\* The foreign keys of the rows that the AddItemMapping under way has written
\* hold the requirements of v they point at: a request that deletes one with a
\* code in C waits for the transaction to end.
KeyShared(v, C) ==
  /\ adding # NoAdd
  /\ \/ adding.link.source = v /\ adding.link.code \in C
     \/ \E k \in Links : adding.outcome[k].resolved = v /\ k.target \in C

OpenDraft(v, body, links) ==
  /\ Quiet
  /\ rows[v].status = "absent"
  /\ \A l \in links : l.source = v /\ body[l.code] # NoText
  /\ rows' = [rows EXCEPT ![v].status = "draft", ![v].createdAt = Stamp(v, "createdAt")]
  /\ content' = [content EXCEPT ![v] = body]
  /\ xm' = ResolveOwnStubs([l \in Links |-> IF l \in links THEN Stub ELSE xm[l]], v, rows)
  /\ UNCHANGED <<adding, deprecated, raced>>

AddRequirement(v, c, text) ==
  /\ Quiet
  /\ rows[v].status = "draft" /\ ~HasCode(v, c)
  /\ content' = [content EXCEPT ![v][c] = text]
  /\ UNCHANGED <<rows, xm, adding, deprecated, raced>>

DeleteStructureNode(v, C) ==
  /\ Quiet
  /\ rows[v].status = "draft"
  /\ C # {} /\ \A c \in C : HasCode(v, c)
  /\ ~KeyShared(v, C)
  /\ content' = [content EXCEPT ![v] = [c \in Codes |-> IF c \in C THEN NoText ELSE @[c]]]
  /\ xm' = DropRequirements(xm, v, C)
  /\ UNCHANGED <<rows, adding, deprecated, raced>>

\* Submit, and the approval that follows it; or the rejection.
Submit(v) ==
  /\ Quiet
  /\ rows[v].status = "draft" /\ content[v] # EmptyBody
  /\ rows' = [rows EXCEPT ![v].status = "in_review"]
  /\ UNCHANGED <<content, xm, adding, deprecated, raced>>

Reject(v) ==
  /\ Quiet
  /\ rows[v].status = "in_review"
  /\ rows' = [rows EXCEPT ![v].status = "draft"]
  /\ UNCHANGED <<content, xm, adding, deprecated, raced>>

Publish(v) ==
  /\ Quiet
  /\ rows[v].status = "in_review"
  /\ rows' = [rows EXCEPT ![v].status = "published", ![v].publishedAt = Stamp(v, "publishedAt")]
  /\ xm' = ResolveAfterPublish(xm, v, rows')
  /\ raced' = IF adding = NoAdd THEN raced ELSE raced \union {adding.link}
  /\ UNCHANGED <<content, adding, deprecated>>

Deprecate(v) ==
  /\ Quiet
  /\ rows[v].status = "published"
  /\ deprecated < MaxDeprecations
  /\ deprecated' = deprecated + 1
  /\ rows' = [rows EXCEPT ![v].status = "deprecated"]
  /\ UNCHANGED <<content, xm, adding, raced>>

DeleteFramework(f) ==
  LET gone == {v \in Versions : FrameworkOf[v] = f /\ rows[v].status \notin {"absent", "deleted"}} IN
  /\ Quiet
  /\ gone # {}
  /\ \A v \in gone : ~KeyShared(v, Codes)
  /\ rows' = [v \in Versions |-> IF v \in gone THEN [NewRow EXCEPT !.status = "deleted"] ELSE rows[v]]
  /\ content' = [v \in Versions |-> IF v \in gone THEN EmptyBody ELSE content[v]]
  /\ xm' = [l \in Links |-> IF l.source \in gone THEN NoMapping
                            ELSE IF xm[l].resolved \in gone
                                 THEN [xm[l] EXCEPT !.resolved = NoVersion] ELSE xm[l]]
  /\ UNCHANGED <<adding, deprecated, raced>>

-----------------------------------------------------------------------------
(* Mappings *)

\* AddItemMapping inserts a stub and resolves the stubs of its version, seeing
\* what was committed by then ...
BeginAdd(l) ==
  LET after == ResolveOwnStubs([xm EXCEPT ![l] = Stub], l.source, rows) IN
  /\ adding = NoAdd
  /\ Mappable(l.source) /\ HasCode(l.source, l.code) /\ ~xm[l].present
  /\ adding' = [link |-> l,
                outcome |-> [k \in Links |-> IF after[k] # xm[k] THEN after[k] ELSE NoMapping]]
  /\ raced' = raced \ {l}
  /\ UNCHANGED <<rows, content, xm, deprecated>>

\* ... and commits: its own stub, and every stub it resolved and nobody else did.
CommitAdd ==
  /\ adding # NoAdd
  /\ xm' = [k \in Links |->
             IF k = adding.link THEN adding.outcome[k]
             ELSE IF adding.outcome[k].present /\ IsOpen(xm, k)
             THEN [xm[k] EXCEPT !.resolved = adding.outcome[k].resolved]
             ELSE xm[k]]
  /\ adding' = NoAdd
  /\ UNCHANGED <<rows, content, deprecated, raced>>

AbortAdd ==
  /\ adding # NoAdd
  /\ adding' = NoAdd
  /\ UNCHANGED <<rows, content, xm, deprecated, raced>>

\* Mutant of RemoveItemMapping: a row marked as removed keeps its target.
RemoveItemMappingSoftly(l) ==
  /\ Quiet
  /\ \E v \in Versions : Mappable(v)
  /\ xm[l].present
  /\ xm' = [xm EXCEPT ![l].present = FALSE]
  /\ UNCHANGED <<rows, content, adding, deprecated, raced>>

\* The mapping goes by its own id, whichever version the request named.
\* DeleteMapping does the same on behalf of the newest version of a framework.
RemoveItemMapping(l) ==
  /\ Quiet
  /\ \E v \in Versions : Mappable(v)
  /\ xm[l].present
  /\ xm' = [xm EXCEPT ![l] = NoMapping]
  /\ UNCHANGED <<rows, content, adding, deprecated, raced>>

\* An auditor has judged the mapping again; what it points at is not edited.
\* The request names a framework, whose newest version must allow it.
UpdateMapping(l) ==
  /\ Quiet
  /\ \E f \in Frameworks :
       LET there == {v \in Versions : FrameworkOf[v] = f /\ rows[v].status \notin {"absent", "deleted"}}
       IN  there # {} /\ Mappable(NewestCreated(rows, there))
  /\ xm[l].present
  /\ xm' = [xm EXCEPT ![l].review = "current"]
  /\ UNCHANGED <<rows, content, adding, deprecated, raced>>

\* Every framework some stub points at, against its latest published version.
ResolveAllStubs ==
  LET known == {l \in Links : PublishedIn(rows, l.framework) # {}}
      latest == [l \in known |-> LatestPublished(rows, PublishedIn(rows, l.framework))]
      matching == {l \in known : Honours(l, latest[l]) /\ HasCode(latest[l], l.target)}
  IN
  /\ Quiet
  /\ xm' = ResolveTo(xm, [l \in matching |-> latest[l]])
  /\ UNCHANGED <<rows, content, adding, deprecated, raced>>

Next ==
  \/ \E v \in Versions :
       \/ \E body \in Bodies \ {EmptyBody}, links \in SUBSET Links : OpenDraft(v, body, links)
       \/ \E c \in Codes, text \in Texts : AddRequirement(v, c, text)
       \/ \E C \in SUBSET Codes : DeleteStructureNode(v, C)
       \/ Submit(v) \/ Reject(v) \/ Publish(v) \/ Deprecate(v)
  \/ \E f \in Frameworks : DeleteFramework(f)
  \/ \E l \in Links : BeginAdd(l) \/ RemoveItemMapping(l) \/ UpdateMapping(l)
  \/ CommitAdd \/ AbortAdd
  \/ ResolveAllStubs

Spec == Init /\ [][Next]_vars

-----------------------------------------------------------------------------
(* Properties *)

MappingState ==
  [present : BOOLEAN, resolved : Versions \union {NoVersion}, review : Reviews]

\* Rows, requirements and mappings have the types of their columns, and a row
\* that is not there carries neither a target nor a flag.
TypeOK ==
  /\ rows \in [Versions -> [status : {"absent", "draft", "in_review", "published",
                                      "deprecated", "deleted"},
                            createdAt : Nat, publishedAt : Nat]]
  /\ content \in [Versions -> Bodies]
  /\ xm \in [Links -> MappingState]
  /\ adding \in [link : Links \union {NoLink}, outcome : [Links -> MappingState]]
  /\ \A l \in Links : xm[l].present \/ xm[l] = NoMapping
  /\ deprecated \in 0..MaxDeprecations
  /\ raced \subseteq Links

\* A resolved mapping points at a requirement that exists, in a version that
\* was released, of the framework and the pinned version it names: resolution
\* never runs ahead of a release or survives a deletion.
ResolvedTargetIsReal ==
  \A l \in Links :
    LET v == xm[l].resolved IN
    v # NoVersion =>
      /\ rows[v].status \in {"published", "deprecated"}
      /\ FrameworkOf[v] = l.framework /\ Honours(l, v)
      /\ HasCode(v, l.target)

\* No pinned stub stays open while the version it pins is published and has
\* the requirement, whichever of the two was there first (AddItemMapping and
\* resolveAfterPublish between them leave no gap), unless both ran at once.
PinnedStubsResolved ==
  \A l \in Links \ raced :
    IsOpen(xm, l) /\ l.pin # NoVersion /\ rows[l.pin].status = "published"
                  /\ FrameworkOf[l.pin] = l.framework
      => ~HasCode(l.pin, l.target)

Publishes(v) == rows[v].status # "published" /\ rows'[v].status = "published"

\* The release of v changes what l points at, as seen by somebody who has the
\* version published before it, when that one is still published.
ChangesTarget(v, l) ==
  LET before == PublishedIn(rows, FrameworkOf[v])
      previous == LatestPublished(rows, before)
  IN  /\ before # {}
      /\ l.framework = FrameworkOf[v] /\ xm[l].present
      /\ HasCode(previous, l.target)
      /\ content[previous][l.target] # content[v][l.target]

\* A release that changes or drops a requirement of the version released before
\* it flags the mappings to it (flagMappingsAfterPublish: compares against the
\* previous one).
ChangedTargetsFlagged ==
  [][\A v \in Versions, l \in Links :
       Publishes(v) /\ ChangesTarget(v, l) => xm'[l].review # "current"]_vars

\* That much holds when what is published was released in the order in which it
\* was drafted.
ChangedInOrderFlagged ==
  [][\A v \in Versions, l \in Links :
       LET before == PublishedIn(rows, FrameworkOf[v]) IN
       /\ Publishes(v) /\ ChangesTarget(v, l)
       /\ NewestCreated(rows, before) = LatestPublished(rows, before)
       => xm'[l].review # "current"]_vars

\* Nothing is auto-deleted: no release removes a mapping, un-resolves it or
\* points it somewhere else, also when its target is dropped.
ReleaseKeepsMappings ==
  [][\A v \in Versions, l \in Links :
       Publishes(v) /\ xm[l].present =>
         /\ xm'[l].present
         /\ xm[l].resolved # NoVersion => xm'[l].resolved = xm[l].resolved]_vars
=============================================================================
