# TLA+ models of meizon-registry

meizon-registry keeps regulatory frameworks. Drafts are written by hand,
imported, or read out of a document by a language model; moderators review and
release them under a signature; consumers follow the releases through a change
feed. Around them it keeps mappings between frameworks, audit templates,
translations and a control library. This directory holds TLA+ models of that
system, the TLC configurations that check them on small instances, and theorems
about them checked by TLAPS.

    tlc -config lifecycle_serial.cfg MCVersionLifecycle
    tlapm VersionLifecycleProofs.tla

`PROJECT.json` lists the runs, which source lines each definition stands for,
the hazards, and the disagreement found between the code and what it says of
its main invariant; section 3 lists the other ones.

## 1. The system

Sources are named relative to `src/pkg/`.

| Component | State | Operations | Interacts with | What makes it correct | Module |
|---|---|---|---|---|---|
| Version lifecycle (`registry/lifecycle_service.go`, `framework_service.go`, `structure_service.go`, `version_service.go`) | frameworks, framework_versions, approvals, requirements, controls | create, import, next version, edit structure, submit, approve, reject, publish, deprecate, delete framework | keys, feed, mappings, templates, in one transaction | separation of duties; what goes out is signed, reviewed, announced and never changes | VersionLifecycle |
| Signing keys (`registry/signing_service.go`) | signing_keys | generate (rotates), read the active key, serve public halves | read by publish | whatever was signed can be verified | VersionLifecycle |
| Change feed (`coredata/distribution_event.go`) | distribution_events, advisory lock | append in the caller's transaction, read after a cursor | every publishing handler, every consumer | sequence order is commit order; complete; says nothing twice | ReleaseRegister, VersionLifecycle |
| Distribution, tokens, organizations (`registry/distribution_service.go`, `token_service.go`, `organization_service.go`) | distribution_tokens, organizations, downloads | catalog, change pages, versions, bundle, seed, mapping sets; issue, revoke, delete a token; approve, suspend | reads what the others write, each query a statement of its own | feed, listings and documents agree for every caller; no event is missed | Distribution |
| Sync client (`distclient`) | state file, seed, bundle and delta files | cold start, drain the feed, pull, retire | polls the distribution API | nothing skipped, newest held, withdrawn dropped, upgrades come with deltas, catches up | RegistrySync, MappingSets |
| Requirement cross-mappings (`registry/mapping_service.go`, `mapping_edit_service.go`) | requirement_cross_mappings | add, edit, remove, resolve after publish, resolve all, flag | run inside publish; foreign keys | targets are real; stubs resolved; changed targets flagged; nothing lost | CrossMappings |
| Mapping proposals (`registry/mapping_ingest.go`, `mapping_review_service.go`) | mapping_proposals, mapping_runs | run, store, record, accept, reject, remap | jobs, mappings | a decision stands and has its effect; the ledger hides nothing | AutoMapping |
| Mapping sets (`registry/mapping_set_service.go`) | mapping_sets | publish, list, serve | keys, feed, consumer | a follower ends with what was announced last | MappingSets |
| Audit templates (`registry/qa_template_service.go`, `qa_edit_service.go`) | qa_templates, qa_questions | generate, append, translate, edit, delete, reorder, set status | jobs, publish, console | can be walked; edits hit what they were made for; covers its document | AuditTemplates |
| Audit engine (`fwqa`, `registry/qa_template_service.go`) | none | parse and evaluate conditions, judge, follow up, validate, repair | template generation, console preview | the verdict is that of the rules; the model's slips do not sink a template | AuditRules, AuditSession |
| Jobs (`registry/ingest.go`, `job_store.go`, `service.go`) | ingest_jobs, a map in memory, a semaphore of four | start, wait for a slot, finish, reconcile, fail orphans on restart | every feature that asks a model | every job ends, done means done, memory and row agree | IngestJobs |
| Generation, import, export (`registry/ingest_steps.go`, `flat_import.go`, `export_service.go`, `fwflat`) | requirements, controls | cut, extract, merge, attach controls, accept, seed, export | jobs, control library | paid work is not lost; what was accepted comes back | Documents, FrameworkDrafts |
| Translations (`registry/translate_service.go`) | framework_translations | translate as a job, overlay an export | jobs, drafts | every node has its words | IngestJobs, FrameworkDrafts |
| Control library (`registry/catalog_service.go`) | control_library, links | add, delete, seed | accepted drafts | | FrameworkDrafts |
| Access control (`iam`, `registry/identity_service.go`) | identities, memberships | authorize | guards of every handler | deny by default | roles only, VersionLifecycle |
| Settings, source documents, model and document clients, HTTP, rate limiter, console, command lines | single rows, a bucket per caller | | | | |

The hard part is concurrency in the database. Every handler is one Postgres
transaction at READ COMMITTED. It loads a row, decides on it, and later
overwrites the whole row (`UPDATE framework_versions ... WHERE id`). Nothing
locks the row in between and the update has no condition on the status. The one
lock is the advisory lock of the change feed, held from the first append to the
commit. The same pattern comes back at a larger scale with the language model:
a job loads a template or a version, waits minutes for answers, and writes over
whatever is there by then, on an instance that may have died in between. The
other hard parts are the order in which versions are drafted, published and
deprecated; the answers of the model, which may be anything; and the consumer,
which can be killed at any moment and rewrites its files in place.
`PROJECT.json` lists these hazards one by one under `hazards`.

## 2. The modules

    VersionLifecycle ── implements ──► ReleaseRegister ◄── INSTANCE ── RegistrySync

    AuditRules ◄── EXTENDS ── AuditSession       Documents ◄── EXTENDS ── FrameworkDrafts

    CrossMappings   AutoMapping   MappingSets   AuditTemplates   IngestJobs   Distribution

`MC*` modules give names to the members of the constant sets. A module `XProofs`
extends `X` and holds its theorems; `AuditSession`, `FrameworkDrafts` and the
two modules of operators have none. `VersionLifecycleProofs` and
`RegistrySyncProofs` take instances of the register. Its own theorems, for any
hashes, are in `RegistrySyncProofs`, which uses the lemma about one step of it
for what the registry does to the feed.

**ReleaseRegister** is the abstract specification of what the registry promises
a consumer: a version is released once, may be withdrawn once, and each of
these is announced in the same step. Deleting a framework is not announced. It
has one user on each side: `VersionLifecycle` implements it
(`ImplementsRegister`), `RegistrySync` uses it as the registry to follow. So
what the sync runs show holds of the lifecycle as far as the lifecycle
implements the register, that is, when requests do not overlap.

**VersionLifecycle** is the lifecycle with its real interleavings. A request
that reads a version and then writes it takes a session:

* `Begin…` loads the row into the session and evaluates every guard that
  precedes the first write (status, actor's role, separation of duties).
  Publication also takes its time stamp here, as the code does.
* `Assemble…` (submit, publish) reads the requirements, validates the bundle
  and, for publish, reads the active key.
* `Commit…` makes all writes of the handler. Each writes *the copy of the row
  in the session* with its own changes, onto whatever the row is by then, and
  does nothing to a row that is gone. Appends to the feed come with the commit:
  the sequence lock is held until then.
* `Abort` rolls back.

Requests that write without reading a version first (`CreateFramework`,
`ImportFrameworkDoc`, `AcceptNextVersion`, `DeleteFramework`,
`GenerateSigningKey`, `SetQATemplateStatus`) are one step.
Correspondences worth knowing:

| Model | Code |
|---|---|
| `row[v].signature = [hash, key]` | columns content_hash, signature, key_id; the hash is the record of what is hashed, body and publication time |
| `"ABSENT"`, `"DELETED"` | no row yet, no row any more. An id is never used again; the reference id of a deleted framework may be |
| `CastVote` | insert into approvals under `approvals_version_reviewer_unique`. A second vote aborts the Postgres transaction, so a reject whose insert fails changes nothing although the code ignores that error |
| `content[v]` | controls (v1) or categories and requirements (v2, v3), one kind of code with one text |
| `Valid` | `Framework.Validate`: here, that there is any requirement at all |
| `qa[v]` | the status of the canonical template |
| `reviewed[v]` | history: content at the moment of the approval |

**CrossMappings** has the table of requirement mappings and the statements that
update it, as functions of the table, composed in the order the handlers run
them. Versions are reduced to what mappings depend on: approval is part of
`Publish`, and requests are serial, except `AddItemMapping`, whose transaction
(`BeginAdd`, `CommitAdd`) may overlap any other request when `Overlap` is TRUE.
Row locks and foreign keys of Postgres apply: a stub somebody else resolved
meanwhile is left alone, and who wants to delete a requirement such a
transaction points at waits for its end (`KeyShared`). Timestamps are counted
per framework, since only those are compared. Control mappings have the same
statements and are left out, and so are versions published with bundles that
embed their mappings, which are older than this code.

**RegistrySync** is `distclient.Sync` step by step (one request or one file
written per step) against a `ReleaseRegister` that moves between any two of its
steps. A run starts with what is on disk (`disk`, the files) and has the rest
in memory (`run`). `FetchFails`, `WriteFails` and `SaveFails` are the error
paths, `Crash` kills the run anywhere, also in the middle of a file
(`os.WriteFile` empties the file first), and `DeleteState` is the operator
doing what the error message of `loadState` asks for. `Retire` forgets the
framework and goes on whether or not its files could be removed, since the code
does not look at that error; `stuck` remembers the versions whose files stayed.
Four simplifications: a
run that goes on to its next page is a new run, since memory and disk agree
there; the first read of a run and the loading of its state are one step; the
two removals of a retirement are one step, except that `Crash` may come between
them; and a conditional request answered "not modified" does not occur, because
the hash covers the publication time and so names the version, and the client
has then skipped the item already. Mapping-set events are in MappingSets.

**MappingSets** is the signed document that carries the mappings of one
framework to another. `BeginPublishSet` reads the mappings, `CommitPublishSet`
reads the nodes they start from and stores the set and its event: the source
version is the newest by creation, which may be a draft, and nodes may go
between the two statements. The consumer's walk and
pages are those of `distclient`, with a single file for the pair of frameworks
whatever the versions, which is why the order of events matters. Torn files
are in RegistrySync.

**AutoMapping** is the way from a model's suggestions to mappings. A run reads
the two documents (`StartAutoMapJob`, `ReadDocuments`), gets an answer for the
nodes not in the ledger (`Adjudicate`), stores the proposals (`StoreProposals`)
and records the nodes (`RecordMappingRun`); the last two are transactions of
their own and `AbandonRun` may come between any two. Reviewers accept batches.
In Postgres the first failed statement aborts a transaction, so a batch one of
whose mappings exists fails as a whole, although the code goes on after a unique
violation. Which mappings are the same is what `rxmap_unique` says: source,
target, pin and relation, so a pair may be mapped twice under two relations. The
numerical ranking of candidates is any subset.

**AuditTemplates** is the template of one version with everybody who writes to
it: tasks load (`StartQATemplateJob`, `LoadForAppend`, `TranslateQATemplate`),
ask the model, and write (`PersistQATemplate`); editors open a form
(`UpdateQAQuestion`, `DeleteQAQuestion`) and `Save` it later. A generation asks
again for the requirements the model left out, numbers the questions of each
requirement (`Renumbered`) and replaces the template under new ids. Publication
marks the template ready at the moment of its statement.

**AuditRules** is the audit engine as operators: the recursive descent over the
tokens of a condition, its value, the first rule that holds, the follow-ups
that fire, the check before saving, and the repairs of what a model returns.
**AuditSession** takes one list of questions from the model to the end of a
walk. The reference for the parser is `Conditions`, trees that a condition was
written from, with the brackets a person would leave out left out.

**IngestJobs** follows the goroutine of each job through start, slot, work and
the write of its result, next to its two records: the entry in the memory of
its instance and the row every instance shares. A write may fail, a document
may hold a character `jsonb` rejects, the entry may be dropped from memory
before the job ends (`Add`), an instance may die and, when it starts again,
marks every running row as failed (`FailOrphaned`), those of other instances
too. `IngestJobStatus` is what a poll reads: memory first, then the row. Audit
template jobs have no entry in memory and write once.

**Documents** has the formats as operators: a text cut into overlapping parts,
parts merged by reference, controls attached in batches, the check, rows and
back, the translation of a tree. **FrameworkDrafts** runs them: a job, an
acceptance as a first or a next version, the controls of the accepted document
seeded one transaction each (with a stop anywhere), changes by hand of the
structure and of the library, export, translation. A translation looks up the
version it will write under (`StartTranslateJob`), reads the document of what is
the newest version by then (`ReadDocument`), asks the model (`StepTranslate`)
and replaces the rows it finds (`DeleteByVersionAndLanguage`, `Persist`), so a
next version, an edit or a second job may come between any two of these. Rows
of the same node are upserted onto each other. The batches of one translation
are one step, as are the several statements of an `ExportFlat`. Any
version may be a draft here: `requireDraft` is in VersionLifecycle. A line
is its length and a wording is its length; what a model may answer is `Parts`,
`ControlReplies` and `Renamings` in `MCFrameworkDrafts`.

**Distribution** is every query of the distribution API with its own form of
the rule on regions and copyright: `Catalog`, `ListVersions`, `Resolved`, and
`Visible` for the pages of the feed. A token belongs to the platform's
tenant, so the copyright gate lets it through; an organization has its own
tenant (`SyncContextForOrg` is reached by tests only). Requests of one caller
at a time, statement by statement, run against frameworks that are published,
deprecated, deleted and created again under the same reference id, possibly in
another region. An event carries what it carries in the code, reference id and
version name and no row, and `Served` answers by these two, with "latest" read
as a wish for the newest version, also where a version has that name; `origin`
remembers the row each event was about, for the properties.

Each module keeps the mutated forms of its own definitions (comments
"Mutant of …") beside the originals. No specification uses them. Putting one in
the place of its original breaks the property named in `PROJECT.json`, which
shows that the property depends on that piece of code.

## 3. What is checked

Passing runs, with the number of distinct states:

| Run | States | Bounds | Shows |
|---|---|---|---|
| `lifecycle_serial` | 249,804 | 2 versions of a framework, an author and a moderator, 1 code × 2 texts, 1 session | implements `ReleaseRegister`; what is served matches its signature and what the approver saw; ready audits were announced; catalog and feed agree on the latest version |
| `lifecycle_concurrent` | 82,147 | 1 version, author, moderator and superadmin, 2 keys, 2 sessions | what survives overlapping requests: `SnapshotsHold`, `ReleasedWasReviewed`, `ReleasedIsSigned`, `FeedMatchesRow` |
| `mappings` | 83,322 | 2 target versions, 1 source version, a pinned and an unpinned link, overlap, 1 deprecation | pinned stubs are resolved from either side; releases keep mappings; releases in the order of drafting flag what they change |
| `sync` | 299,202 | 2 versions, pages of 2 events, 1 fault, which may be a file that cannot be removed, 2 kills | nothing skipped, newest held, withdrawn dropped but for such a file, deltas written; the consumer reaches the end of the feed |
| `jobs` | 330,203 | a generation, a translation and an audit template job; 2 instances with 1 slot each; 1 death, 1 failed write, 1 document that cannot be stored | a row that says done is right and final; an outcome is kept; no job is shown as running for ever |
| `automap` | 226,080 | 2 versions of the source and of the target, a node and its target under 2 relations, 1 run at a time; of proposals, edits and newer targets, 2 at once | decisions stand; the ledger hides no answer that was not stored; an acceptance has its mapping |
| `mapping_sets` | 3,098,960 | 2 source and 2 target versions, 3 publications, any kill of the consumer | once caught up, the consumer holds the document announced last |
| `audits` | 422,438 | 2 requirements in a section, 3 tasks two of which may overlap, 1 edit, a publication in between | templates can be walked; an edit hits its question or none; a generation covers its document |
| `audit_session` | 13,144 | 216 lists of questions, conditions with `and`, `or`, brackets and lists, 4 answers | the verdict is the one the rules mean; the repairs leave a valid template |
| `drafts` | 211,356 | texts that are cut between and within blocks, model answers with dangling, repeated, blank and missing parts, 2 versions, a control, a category and a requirement added by hand; either a generation, or two of translations and changes of the structure | no two neighbouring lines are torn apart; only a nameless requirement fails a draft; what was accepted comes back, wherever its seeding stopped; a stored translation is that of a whole document |
| `distribution` | 385,447 | 2 frameworks under one reference id in two regions, 3 versions, one named "latest" and two of one name, 2 tokens (one with a blank region) and an organization, pages of 1 event | no event is missed; feed, listings and documents agree |

Why the bounds are enough to be interesting. Two sessions are what it takes for
one request to overwrite another. Two reviewers (`lifecycle_concurrent`) let a
rejected version still be approved, and let publisher and approver differ.
`MaxFeed` leaves room for a version to be published twice and deprecated twice
by overlapping requests, and for two versions and their audits by serial ones;
`MaxClock` for two drafts and two publications. In `mappings` two target
versions give every order of drafting and publishing; with the third
(`mappings_unflagged.cfg`) a version drafted last need not be the one released
last. In `sync` four events make two full pages, a partial page, and pages cut
between a release and its withdrawal, and one fault and two kills meet in one
behaviour. In `jobs` three jobs compete for two slots, and one slot each is
enough for a job to wait on one that never gives it back. In `mapping_sets`
three publications are the least with which a file goes back and forth between
two targets. In `audits` two tasks can load before either writes, and a third
can start afterwards. In `distribution` three events in pages of one give a
walk that is overtaken by a deletion and a new framework, whose version has the
name of the deleted one. In `automap` two relations are the least with which
the same pair can be mapped twice. In `drafts` two translations are what it
takes for one to be stored while the other is, and one with an edit or a next
version, for a document to change under it.

`Narrow` in `automap` and `drafts` is a bound on combinations: TLC does not go on
from a state with more of these things at once than the table says. In `automap`
that leaves any two of them together; in `drafts` a translation is of a document
that was handed in or imported, not of one just generated.

Counters: `MaxFeed`, `MaxClock`, `MaxDeprecations`, `MaxFaults`, `MaxCrashes`,
`MaxFailures`, `MaxEdits`, `MaxStarts`, `MaxEvents`, `MaxAnswers`,
`MaxVersions`, `MaxJobs` and `MaxTranslations` bound what may happen without
end. Where they, or ids that are used once, bring an instance to rest,
`CHECK_DEADLOCK FALSE` is set; only the `mappings` runs never rest.

`SYMMETRY` permutes sessions, texts and keys in the lifecycle runs, tasks in
`audits` and relations in `automap`; no definition tells them apart and these
runs have no liveness property.

`TypeOK` of `CrossMappings`, `RegistrySync`, `AutoMapping` and `MappingSets`
holds in their runs too and can be added to their configurations; it is left out
there in favour of properties that say more, and of the first three it is
proved. So are `ResolvedTargetIsReal` of `CrossMappings`, `PublishedIsImmutable`
of serial requests, and `FeedTellsAll` and `AnnouncedOnce` of the register
(section 4).

Fairness. `FairSpec` of `RegistrySync` assumes that a run of the consumer which
can take a step takes one: `Sync` is called by a scheduler again and again, and
a run does not stop by itself. Failures and kills are not fair and are bounded.
It also assumes that a torn state file is deleted in the end. The program
leaves that to its operator, and without it the consumer stays where it is: the
state file is rewritten in place, and a kill in the middle leaves one that
every later run refuses. The registry owes nothing: it may stop at any time.
`IngestJobs` assumes that each goroutine goes on: a request to a model ends by
the client's timeout of ten minutes, a goroutine that waits for a slot gets it
(Go serves the senders of a channel in order), and a dead instance is started
again by its supervisor.

### Where code and words disagree

`unreviewed_release` is the run that finds the code against the sentence
`lifecycle_service.go:36` calls "the invariant that matters": an edit begun on
the draft commits after the approval and is released unreviewed.

The following are further disagreements TLC finds. Each is checked with the
configuration of that name, or with the one named by putting the property in
the place of its properties. Sources are in `registry/` unless a path is given.

| Configuration | Property | Sentence at | Behaviour found |
|---|---|---|---|
| `published_rewritten` | `PublishedIsImmutable` | `coredata/framework_version.go:31` | overlapping requests rewrite a published version: content, signature or status (requests that do not overlap cannot: `PublishedIsNotRewritten`) |
| `review_stuck` | `ReviewNeverStuck` | `lifecycle_service.go:35` | with two people, a version once rejected can never be approved, because votes outlive the rejection |
| `mappings_unflagged` | `ChangedTargetsFlagged` | `mapping_service.go:154` | the baseline is the last version drafted, not the last one published, so a change goes unflagged |
| `sync_gap` | `WalkMissesNothing` | `distclient/sync.go:121` | what is released between the catalog walk and the head request is never delivered |
| `sync_failed_pull` | `FailedPullIsRetried` | `distclient/sync.go:189`, `docs/API-SYNC.md:58` | a failed pull is not retried |
| `sync_correction` | `CorrectionIsHeld` | `docs/API-SYNC.md:342` | "new version, then deprecate the old one" makes the consumer delete the new one |
| `sync` | `RetiredFilesAreGone` | `distclient/sync.go:272` | a file that cannot be removed is forgotten, and what was withdrawn stays on disk |
| `translated_twice` | `TranslatedOnce` | `translate_service.go:475` | two automatic translations of one framework run at once |
| `audit_job_stuck` | `AuditJobsEnd` | `job_store.go:128` | an audit template job whose one write fails is shown as running until a restart |
| `live_job_failed` | `LiveJobNotFailed` | `job_store.go:238`, against `docs/INSTALL-PRODUCTION.md:29` | an instance that starts marks the live jobs of another one as failed |
| `reproposed` | `TurnedDownOnce` | `coredata/mapping_proposal.go:48` | a pair that was turned down is proposed again under another relation |
| `set_other_target` | `SetIsOfItsTarget` | `fwmap/fwmap.go:36` | a set to one version of the target carries mappings pinned to another |
| `mapping_sets` | `SetNamesItsSources` | `mapping_set_service.go:85` | a node deleted between two statements leaves an entry without source in a signed set |
| `mapping_sets` | `CatalogListsEverySet` | `docs/GRC-INTEGRATION.md:222` | the catalog lists the sets of one version of the source only |
| `audits` | `AppendKeepsEdits` | `qa_template_service.go:175` | an edit made while an append waits for the model is overwritten |
| `audits` | `LanguagesAgree` | `docs/GRC-INTEGRATION.md:378` | an append or an edit leaves the translated template as it was |
| `audits` | `AddedRequirementIsAsked` | `qa_template_service.go:212` | after a deletion or a new order the appended questions get orders that are taken, the check fails and nothing is saved |
| `edits_collide` | `FollowUpsResolve` | `qa_edit_service.go:30` | of two editors one deletes a question the other one makes a follow-up |
| `audit_not_ready` | `PublishedTemplateReady` | `qa_template_service.go:603` | a template saved by a job that overlaps the publication stays a draft |
| `branch_sinks` | `BranchNeverSinks` | `qa_template_service.go:535` | a branch on an unknown variable fails the whole template |
| `drafts` | `NextVersionExports` | `export_service.go:27` | the export of a next version has links to requirements that are gone |
| `drafts` | `HandMadeExports` | `export_service.go:27` | a control added by hand has a free text for its domain, which the check of a document refuses |
| `drafts` | `TranslationIsOfItsVersion` | `translate_service.go:104` | a version accepted between the two reads of a translation has its words stored under the one before |
| `drafts` | `TranslationIsReplaced` | `translate_service.go:302` | two jobs that store at once leave rows of both |
| `drafts` | `NodeKeepsItsKind` | `coredata/framework_translation.go:28` | a requirement and a control with one ref get the same translation |
| `control_code_taken` | `ControlsAreAddable` | `flat_import.go:282` | a control is refused because another framework uses its code |
| `distribution` | `KeyNamesOneVersion` | `docs/API-SYNC.md:342`, `:65` | a framework created again under its reference id releases other content under the same name |
| `distribution` | `ToldIsServed` | `coredata/distribution_event.go:51` | the release of a deleted framework speaks for the one that took its reference id, which the caller may not see |
| `distribution` | `DocumentIsWhole` | `docs/API-SYNC.md:341` | a seed put together while its framework is deleted lacks part of it |
| `distribution` | `FetchIsRecorded` | `docs/GRC-INTEGRATION.md:503` | mapping sets are served without a record |
| `distribution` | `SetIsAnnounced` | `docs/GRC-INTEGRATION.md:271` | a set published before its framework was public is never announced to those who may fetch it later |

The passing properties state what holds around these, and name what they except:
`NewestIsHeld` failed pulls and the gap of the cold start, `WithdrawnIsDropped`
files that could not be removed, `ChangedInOrderFlagged` releases out of
drafting order, `PinnedStubsResolved` mappings added while a version was being
published (neither transaction sees the other, and the stub stays open until the
next release or `ResolveAllStubs`), `UpgradeHasDelta` upgrades after a kill or a
failure (the next run finds the new bundle already on disk and has no baseline),
`FollowUpsResolve` a second editor, `JobsEnd` audit template jobs,
`AcceptedIsExported` next versions, drafts edited by hand, and the domains of
controls added by hand, `TranslationNamesEveryNode` a document that is not that
of the version it is stored under, `FeedMatchesCatalog` frameworks deleted
without a word, `BuiltAuditIsValid` branches on unknown variables. Read off the
model without a run of its own: a deprecated version is refused by
`resolveDistributable` (`Fetchable`), while `docs/API-SYNC.md:346` says it stays
fetchable; and the delta file of an earlier upgrade is left in place by an
upgrade that changes nothing and by a retirement (`FinishPull`, `Retire`), while
`sync.go` says that its presence is a signal.

## 4. What is proved

Every theorem holds for every value of the constants that the `ASSUME` of its
module allows, so for any number of users, versions, sessions, keys, callers,
jobs, failures and kills.

| Module | Theorem | States | Under |
|---|---|---|---|
| VersionLifecycleProofs | `TypeCorrect` | `[]TypeOK` | |
| | `SnapshotsAreSafe` | `[]SnapshotsHold` | |
| | `SeparationOfDuties` | `[]ReleasedWasReviewed` | |
| | `ReleasesAreSigned` | `[]ReleasedIsSigned` | |
| | `FeedTellsOfRows` | `[]FeedMatchesRow` | |
| | `ServedBundlesVerify` | `[]ServedBundleVerifies` | `Serial` |
| | `ReviewedIsPublished` | `[]ReviewedContentIsPublished` | `Serial` |
| | `ReadyAuditsAreTold` | `[]ReadyAuditAnnounced` | `Serial` |
| | `LatestIsToldLast` | `[]LatestAgreesWithFeed` | `Serial` |
| | `PublishedIsNotRewritten` | `PublishedIsImmutable` | `Serial` |
| | `LifecycleImplementsRegister` | `ImplementsRegister` | `Serial` |
| RegistrySyncProofs | `FeedIsComplete` | `[]FeedTellsAll` of `ReleaseRegister` | |
| | `EventsAreUnique` | `[]AnnouncedOnce` of `ReleaseRegister` | |
| | `TypeCorrect` | `[]TypeOK` | |
| | `CursorSkipsNothing` | `[]NothingSkipped` | |
| | `NewestAreHeld` | `[]NewestIsHeld` | |
| | `WithdrawnAreDropped` | `[]WithdrawnIsDropped` | |
| | `UpgradesHaveDelta` | `UpgradeHasDelta` | |
| DistributionProofs | `WalksMissNothing` | `[]NothingMissed` | |
| | `FeedAndApiAgree` | `[]FeedMatchesCatalog` | |
| | `ListingsAgree` | `[]ListedIsServed` | |
| CrossMappingsProofs | `TypeCorrect` | `[]TypeOK` | |
| | `TargetsAreReal` | `[]ResolvedTargetIsReal` | |
| | `PinnedStubsAreResolved` | `[]PinnedStubsResolved` | |
| | `ReleasesKeepMappings` | `ReleaseKeepsMappings` | |
| | `ChangesInOrderAreFlagged` | `ChangedInOrderFlagged` | |
| AutoMappingProofs | `TypeCorrect` | `[]TypeOK` | |
| | `DecisionsAreKept` | `DecisionKept` | |
| | `AcceptedIsMappedAlways` | `AcceptedIsMapped` | |
| | `LedgerLosesNothingEver` | `LedgerLosesNothing` | |
| MappingSetsProofs | `FollowerIsCurrent` | `[]FollowerHoldsLast` | |
| IngestJobsProofs | `TypeCorrect` | `[]TypeOK` | |
| | `DoneJobsHaveTheirEffect` | `[]DoneHasEffect` | |
| | `OutcomesAreKept` | `[]OutcomeKept` | |
| | `DoneRowsAreFinal` | `DoneIsFinal` | |
| AuditTemplatesProofs | `TypeCorrect` | `[]TypeOK` | |
| | `EditsHit` | `EditHitsItsQuestion` | |
| | `GenerationsCover` | `GenerationCovers` | |
| | `TemplatesAreWalked` | `[]FollowUpsResolve` | `Alone` |

`Serial` says that there is at most one session, as in `lifecycle_serial`. The
properties under it are false of overlapping requests; section 3 lists what
happens then. `Alone` says that at most one person edits, as in `audits`;
`edits_collide` shows that two can leave a template that cannot be walked. Jobs
are not restricted by it.

### The arguments

**Overlapping lifecycle requests.** `ReleasedWasReviewed` is not inductive: a
commit writes back a copy of the row, so what is true of the rows after it
depends on what is true of the copies. `SnapshotsHold` says that. A copy taken
by a publish or a deprecate still has its approval on record, although the row
may have changed since, because votes are only ever added while the version is
alive. A copy taken by a deprecate carries a signature by a key that is still
served, because keys are never removed. The inductive invariant `Safe` is the
typing of the state, `SnapshotsHold` and the two properties of the rows. Steps
that add votes or keys and leave the rest of what `Safe` reads alone preserve
it by one monotonicity lemma; commits are done one by one; deletion needs that a
session of a deleted version writes nothing. `FeedMatchesRow` needs none of
this: a commit that writes a status appends the event that tells of it in the
same step, and so its own invariant, `Truthful`, is itself and the types.

**Serial lifecycle requests.** `Orderly` adds what is true when nobody else is
there: the request under way sees the tables as they are and its publication
time is after every other; `RowKnown` says for each status what is in the row,
the tables, the feed and the history. The four properties of the state are read
off it. For the refinement, the feed without the events of audit templates has
to be renumbered: `LifeLog` numbers it by counting, and the lemmas of that part
are about what an appended event does to the counts. Each commit then is a
release, a withdrawal, an erasure or a stutter of the register (`StepHeard`).

**The register.** `Truthful` is `TypeOK`, `FeedTellsAll` and `AnnouncedOnce`
together, and is inductive: `FeedTellsAll` says of an open version that the feed
is silent about it, which is what makes its release the first announcement, and
of a released one that it was not withdrawn.

**The consumer.** A consumer's promises are about the moment it has caught up,
and nearly nothing in them is inductive. `Inv` says where everything comes from
while it has not: what a run has in memory is part of the catalog or the stretch
of the feed after the event handled last (`Shape`), events up to that one were
handled (`Passed`) and their withdrawals obeyed in memory, on disk and in the
files (`Dropped`), what is held was announced (`Known`), and the newest version
of a framework has its files whenever it is held and is on the list of a cold
start until it is (`Kept`). What could not be removed is in `stuck`, which only
grows, so `Dropped` speaks of the files that are not of it. A kill keeps all of
it because the state file is written after the files it speaks of; a torn one is
`TornDisk`, of which nothing is claimed until it is deleted and the consumer
starts over. `Calm` is what the delta needs: while nothing failed, the bundle on
disk is the version held.

**Distribution.** A caller knows a version by reference id and name, and the
rows behind these change. `RowsTold` says what the feed tells of each row by its
status, a published one being told of once, at the place its row keeps, and that
the two columns the rule on visibility reads were settled together. `Marked`
says that an event carries the names of its row and, of a release or a
withdrawal, the visibility that the framework's license gives. `OneOfEach` says
that no two frameworks have one reference id at a time, and `Ordered` what
follows for the feed: behind a release of a framework that is there, nothing is
about another one of its id, so what a caller heard last under a name is about
the row that has the name now, if that was released at all. That is where the
uniqueness of reference ids and the order of the feed meet, and with `RowsTold`
it is `FeedMatchesCatalog`. For `ListedIsServed` the newest version must be one:
two published rows cannot have one place in the feed. `Walked` says that the
caller has exactly the visible events up to its cursor, and that appending,
deleting and creating frameworks change no event that is in the feed.

**Cross-mappings.** All statements that resolve stubs are compositions of one
operator; one relation, `Resolved`, says what any composition does: it fills in
targets of open stubs, each with a published version that has the requirement.
`ResolvedTargetIsReal` is then inductive together with the same statement about
what the `AddItemMapping` under way has written and not committed, where the
foreign keys are needed (`KeyShared`): no request can delete what that
transaction points at. `PinnedStubsResolved` needs that a framework is deleted
as a whole, because a stub opened again by a deletion must find nothing to be
resolved to. The theorem on flags rests on the baseline, which is the same
before and after the statement that publishes.

**Proposals.** `Inv` adds to the types that there is a newest version, and that
a run past `StoreProposals` has left all that it found with the reviewers, whose
rows are never removed. What is promised of decisions is about steps and has
one lemma per action.

**Mapping sets.** The cursor is the induction variable. While a page is read,
what is left of it is the end of the events up to the one it reads to; when
nothing is left, the file is of the pair of the last of them, and of the
document served for it as long as nothing newer was announced. The order of the
feed is the whole argument: the file may go back and forth between targets, but
the event handled last is the last one.

**Jobs.** A row that says done stays because every write that could follow comes
from the job's own goroutine, which is past it, or is conditional on the row
still running (`FailOrphaned`). The invariant therefore says, for each job, at
which places of the code its goroutine can be for each thing its row may say,
and what it has committed by then. `SlotsCounted` says that a slot is taken for
each goroutine that holds one, and no other.

**Audit templates.** What an edit reaches is decided by ids. Each time a template
is stored its questions get new ones (`Renumbered`): the next free id plus the
rank of the old one. Ranks are cardinalities of finite sets, different for
different ids and below the number of questions, so the new ids are distinct,
follow-ups are rewritten to the question they led to, and none of them was handed
out before (`Handed`). A form opened on a template that was replaced therefore
finds no question of its id, and one whose template is still there finds the
question it was opened on, still about the same requirement (`Seen`); this does
not depend on the number of editors. Before it is stored, a generated question
is known by its requirement and position (`SchemaId`, which is one to one), and
after an append the loaded ids are positive while the new ones are not. For
`FollowUpsResolve`, `Walked` says of every template that is stored, or that a
task is about to store, that it can be walked, and of the form now open that
saving it leaves one: it was validated against what was stored then, and since
then the template is the same up to orders, or was replaced by one the form
does not touch. The last step is where a second editor would come in.

Every inductive invariant was first checked by TLC, on the instance of its run
(the register's, which no run checks by itself, on three versions).

### Only model-checked

* Liveness, which is beyond the prover: `CatchesUp` and `JobsEnd`, with the
  fairness they assume.
* `AuditRules`, `AuditSession`: recursive operators; what the parser and the
  repairs compute for every input is induction over trees and lists of tokens.
* `FrameworkDrafts` and `Documents`: folds over lists of lines, parts and rows.
  What a fold leaves of a list is induction over the list, with a predicate for
  its parameter, which the installed provers cannot instantiate. Where a proof
  needs induction over a finite set, it takes a minimal counterexample instead
  (`FS_StrictSubsetOrderingWellFounded`, `WFMin`).
* `TypeOK` of `MappingSets`: the queue of a cold start is a `SelectSeq` of the
  catalog. What `FollowerHoldsLast` needs of that queue is nothing, since a walk
  has no cursor yet.

## 5. Limits

* The statements of a commit of the lifecycle are one step. Between Begin,
  Assemble and Commit requests interleave freely, but not between two writes of
  one handler. Mapping sets, audit templates and distribution are modelled at
  the grain of statements where it matters there.
* An event of the feed takes its number as its transaction commits: the advisory
  lock is taken to do what it is there for, and no property would notice it
  missing.
* A key rotation is one step. Two that overlap leave two active keys.
* The audit log, policy templates and evidence are left out. Roles are the sets
  `Reviewers` and `Admins`.
* Cryptography is ideal: a signature is the record of what was signed.
* Time is a counter, so no two timestamps are equal.
* A language model may answer anything from the constants of the MC modules.
  They hold each kind of slip the code has a repair for, not every answer.
* Control mappings have the same life as requirement mappings and are left out.

### Not modelled

* `iam`: the evaluation of policies is a pure function over a static list; only
  the roles it comes down to are guards here.
* `server/api/ratelimit.go`: a bucket under one mutex, over floating-point time.
* The older proposals of single nodes (`ai_service.go`), settings and source
  documents: single rows around a call to a model or a file.
* `llm`, `ocr`, `docextract`: outside services and text extraction. What they
  return is a free choice.
* Libraries, command lines, bootstrap, and the console but for the queue of its
  audit preview: no state the rest relies on.

## 6. Plan

1. `FrameworkDrafts`: lemmas about `Documents` that need no induction, such as
   what a repair may leave of a part.
2. Modules: SigningKeys (overlapping rotations), the sequence numbers of the feed
   under the advisory lock and without it, AccessPolicy (the evaluation against a
   reference), and the diff of two bundles.
