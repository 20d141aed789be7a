-------------------------- MODULE VersionLifecycle --------------------------
(***************************************************************************)
(* The life of a framework version in the registry: draft, review,         *)
(* approval, release under a signature, deprecation, deletion.             *)
(*                                                                         *)
(* A request is one database transaction.  It reads the version row,       *)
(* decides, and later overwrites that row with what it read plus its own   *)
(* changes (UPDATE ... WHERE id); nothing locks the row in between.  So a  *)
(* request that reads and then writes a version takes a session and runs   *)
(* in two steps, Begin (the read and every guard) and Commit (the writes), *)
(* and submit and publish have a third one between them, Assemble, which   *)
(* reads the tables the bundle is built from.  Sessions is the pool of     *)
(* requests the server runs at a time; with one session they are serial.   *)
(* Requests that do not read a version before writing it are one step.     *)
(***************************************************************************)
EXTENDS Naturals, Sequences, FiniteSets

CONSTANTS
  Frameworks, Versions, FrameworkOf,
  PublicFrameworks,   \* those whose license lets anybody see them
  Users,              \* everybody may author and submit
  Reviewers,          \* moderators and superadmins
  Admins,             \* superadmins
  Codes, Texts,       \* requirement codes, and what they may say
  Keys,               \* signing keys that may be generated
  AuditStatuses,      \* statuses an operator gives an audit template by hand
  Sessions,
  NoUser, NoVersion, NoText, NoKey,
  MaxFeed,            \* bound: change-feed entries
  MaxClock            \* bound: timestamps taken

ASSUME LifecycleAssumption ==
  /\ FrameworkOf \in [Versions -> Frameworks]
  /\ PublicFrameworks \subseteq Frameworks
  /\ Reviewers \subseteq Users /\ Admins \subseteq Reviewers
  /\ NoUser \notin Users /\ NoVersion \notin Versions
  /\ NoText \notin Texts /\ NoKey \notin Keys
  /\ AuditStatuses \subseteq {"draft", "ready"}
  /\ MaxFeed \in Nat /\ MaxClock \in Nat

VARIABLES
  fw,         \* frameworks: absent, or registered and public or not
  row,        \* framework_versions
  votes,      \* approvals: the decision of each reviewer on each version
  content,    \* requirements: the text of each code in each version
  qa,         \* qa_templates: the canonical audit template's status
  feed,       \* distribution_events, in seq order
  keys,       \* signing_keys: every key ever generated
  activeKey,  \* ... and the one in use
  clock,      \* the last timestamp taken
  session,    \* the transactions under way
  reviewed    \* history: the content a version had when it was approved

vars == <<fw, row, votes, content, qa, feed, keys, activeKey, clock, session, reviewed>>

-----------------------------------------------------------------------------
(* Data *)

Quorum == 1

Statuses == {"ABSENT", "DRAFT", "IN_REVIEW", "APPROVED", "PUBLISHED", "DEPRECATED", "DELETED"}

Bodies == [Codes -> Texts \union {NoText}]
EmptyBody == [c \in Codes |-> NoText]
Valid(body) == body # EmptyBody

\* The content hash covers the body and the time of publication.
Hash(body, at) == [body |-> body, at |-> at]
HashType == [body : Bodies, at : 0..MaxClock]
NoHash == Hash(EmptyBody, 0)
Unsigned == [hash |-> NoHash, key |-> NoKey]

RowType ==
  [status : Statuses, author : Users \union {NoUser}, createdAt : 0..MaxClock,
   approvedBy : Users \union {NoUser}, publishedBy : Users \union {NoUser},
   publishedAt : 0..MaxClock,
   signature : [hash : HashType, key : Keys \union {NoKey}]]

Blank ==
  [status |-> "ABSENT", author |-> NoUser, createdAt |-> 0, approvedBy |-> NoUser,
   publishedBy |-> NoUser, publishedAt |-> 0, signature |-> Unsigned]

Ops == {"submit", "approve", "reject", "publish", "deprecate", "edit", "audit"}

SessionType ==
  [step : {"idle", "loaded", "assembled"}, op : Ops \union {"none"},
   actor : Users \union {NoUser}, version : Versions \union {NoVersion},
   row : RowType, at : 0..MaxClock, body : Bodies, key : Keys \union {NoKey},
   audit : {"none", "draft", "ready"}]

Idle ==
  [step |-> "idle", op |-> "none", actor |-> NoUser, version |-> NoVersion,
   row |-> Blank, at |-> 0, body |-> EmptyBody, key |-> NoKey, audit |-> "none"]

EventKinds == {"published", "deprecated", "qa_published"}
EventType == [kind : EventKinds, version : Versions, hash : HashType]

Init ==
  /\ fw = [f \in Frameworks |-> "absent"]
  /\ row = [v \in Versions |-> Blank]
  /\ votes = [v \in Versions |-> [u \in Users |-> "none"]]
  /\ content = [v \in Versions |-> EmptyBody]
  /\ qa = [v \in Versions |-> "none"]
  /\ feed = <<>>
  /\ keys = {}
  /\ activeKey = NoKey
  /\ clock = 0
  /\ session = [s \in Sessions |-> Idle]
  /\ reviewed = [v \in Versions |-> EmptyBody]

Alive(v) == row[v].status \notin {"ABSENT", "DELETED"}

\* UPDATE framework_versions ... WHERE id: nothing happens to a deleted row.
Write(v, r) == IF Alive(v) THEN [row EXCEPT ![v] = r] ELSE row

Event(kind, v, h) == [kind |-> kind, version |-> v, hash |-> h]

\* Appends are in commit order: the sequence lock is held until the commit.
Emit(events) ==
  /\ Len(feed) + Len(events) <= MaxFeed
  /\ feed' = feed \o events

SomeIdle == \E s \in Sessions : session[s] = Idle

-----------------------------------------------------------------------------
(* A session: begin, assemble, commit or roll back *)

Load(s, op, u, v) ==
  /\ session[s] = Idle
  /\ session' = [session EXCEPT ![s] =
                   [Idle EXCEPT !.step = "loaded", !.op = op, !.actor = u,
                                !.version = v, !.row = row[v]]]
  /\ UNCHANGED <<fw, row, votes, content, qa, feed, keys, activeKey, clock, reviewed>>

BeginSubmit(s, v) ==
  /\ row[v].status = "DRAFT"
  /\ Load(s, "submit", NoUser, v)

\* Mutant of BeginApprove: authors approve their own versions.
BeginApproveOwn(s, u, v) ==
  /\ u \in Reviewers
  /\ row[v].status = "IN_REVIEW"
  /\ Load(s, "approve", u, v)

BeginApprove(s, u, v) ==
  /\ u \in Reviewers
  /\ row[v].status = "IN_REVIEW"
  /\ u # row[v].author
  /\ Load(s, "approve", u, v)

BeginReject(s, u, v) ==
  /\ u \in Reviewers
  /\ row[v].status = "IN_REVIEW"
  /\ Load(s, "reject", u, v)

\* publishedAt is taken here, before anything is assembled or committed.
BeginPublish(s, u, v) ==
  /\ u \in Reviewers
  /\ row[v].status = "APPROVED"
  /\ u # row[v].author
  /\ clock < MaxClock
  /\ clock' = clock + 1
  /\ session[s] = Idle
  /\ session' = [session EXCEPT ![s] =
                   [Idle EXCEPT !.step = "loaded", !.op = "publish", !.actor = u,
                                !.version = v, !.row = row[v], !.at = clock + 1]]
  /\ UNCHANGED <<fw, row, votes, content, qa, feed, keys, activeKey, reviewed>>

\* Mutant of BeginDeprecate: what is deprecated can be deprecated again.
BeginDeprecateAgain(s, v) ==
  /\ row[v].status \in {"PUBLISHED", "DEPRECATED"}
  /\ Load(s, "deprecate", NoUser, v)

BeginDeprecate(s, v) ==
  /\ row[v].status = "PUBLISHED"
  /\ Load(s, "deprecate", NoUser, v)

\* Mutant of BeginEdit: the structure of any version can be edited.
BeginEditAny(s, v) ==
  /\ Alive(v)
  /\ Load(s, "edit", NoUser, v)

BeginEdit(s, v) ==
  /\ row[v].status = "DRAFT"
  /\ Load(s, "edit", NoUser, v)

\* A template is saved with the status "draft" when it was generated, with the
\* status its row had when it was read when questions were appended to it.
BeginAudit(s, v, status) ==
  /\ AuditStatuses # {}
  /\ Alive(v)
  /\ status = "draft" \/ (status = qa[v] /\ status # "none")
  /\ session[s] = Idle
  /\ session' = [session EXCEPT ![s] =
                   [Idle EXCEPT !.step = "loaded", !.op = "audit", !.version = v,
                                !.row = row[v], !.audit = status]]
  /\ UNCHANGED <<fw, row, votes, content, qa, feed, keys, activeKey, clock, reviewed>>

AssembleForSubmit(s) ==
  /\ session[s].op = "submit" /\ session[s].step = "loaded"
  /\ Valid(content[session[s].version])
  /\ session' = [session EXCEPT ![s].step = "assembled"]
  /\ UNCHANGED <<fw, row, votes, content, qa, feed, keys, activeKey, clock, reviewed>>

\* Mutant of AssembleForPublish: nobody asks whether there is an active key.
AssembleForPublishKeyless(s) ==
  /\ session[s].op = "publish" /\ session[s].step = "loaded"
  /\ Valid(content[session[s].version])
  /\ session' = [session EXCEPT ![s].step = "assembled",
                                ![s].body = content[session[s].version],
                                ![s].key = activeKey]
  /\ UNCHANGED <<fw, row, votes, content, qa, feed, keys, activeKey, clock, reviewed>>

AssembleForPublish(s) ==
  /\ session[s].op = "publish" /\ session[s].step = "loaded"
  /\ Valid(content[session[s].version])
  /\ activeKey # NoKey
  /\ session' = [session EXCEPT ![s].step = "assembled",
                                ![s].body = content[session[s].version],
                                ![s].key = activeKey]
  /\ UNCHANGED <<fw, row, votes, content, qa, feed, keys, activeKey, clock, reviewed>>

\* Session s commits the transaction it has been running.
Finish(s, op, step) ==
  /\ session[s].op = op
  /\ session[s].step = step
  /\ session' = [session EXCEPT ![s] = Idle]

\* A failed statement, a cancelled request or a stopped server rolls it back.
Abort(s) ==
  /\ session[s].step # "idle"
  /\ session' = [session EXCEPT ![s] = Idle]
  /\ UNCHANGED <<fw, row, votes, content, qa, feed, keys, activeKey, clock, reviewed>>

CommitSubmit(s) ==
  LET t == session[s] IN
  /\ Finish(s, "submit", "assembled")
  /\ row' = Write(t.version, [t.row EXCEPT !.status = "IN_REVIEW"])
  /\ UNCHANGED <<fw, votes, content, qa, feed, keys, activeKey, clock, reviewed>>

\* Mutant of CastVote: a second vote replaces the first.
CastVoteAgain(u, v, decision) ==
  /\ Alive(v)
  /\ votes' = [votes EXCEPT ![v][u] = decision]

\* A reviewer has one vote on a version, for good (approvals_version_reviewer_unique).
CastVote(u, v, decision) ==
  /\ Alive(v)
  /\ votes[v][u] = "none"
  /\ votes' = [votes EXCEPT ![v][u] = decision]

Approvals(v) == {u \in Users : votes'[v][u] = "approved"}

CommitApprove(s) ==
  LET t == session[s]  v == t.version IN
  /\ Finish(s, "approve", "loaded")
  /\ CastVote(t.actor, v, "approved")
  /\ IF Cardinality(Approvals(v)) >= Quorum
     THEN /\ row' = Write(v, [t.row EXCEPT !.status = "APPROVED", !.approvedBy = t.actor])
          /\ reviewed' = [reviewed EXCEPT ![v] = content[v]]
     ELSE UNCHANGED <<row, reviewed>>
  /\ UNCHANGED <<fw, content, qa, feed, keys, activeKey, clock>>

\* The insert of a second vote fails, and with it the transaction: the error is
\* ignored, but no statement after it is executed.
CommitReject(s) ==
  LET t == session[s] IN
  /\ Finish(s, "reject", "loaded")
  /\ CastVote(t.actor, t.version, "rejected")
  /\ row' = Write(t.version, [t.row EXCEPT !.status = "DRAFT"])
  /\ UNCHANGED <<fw, content, qa, feed, keys, activeKey, clock, reviewed>>

\* Mutant of Released: the time of publication is left where it was.
ReleasedUntimed(t) ==
  [t.row EXCEPT !.status = "PUBLISHED", !.publishedBy = t.actor,
                !.signature = [hash |-> Hash(t.body, t.at), key |-> t.key]]

Released(t) ==
  [t.row EXCEPT !.status = "PUBLISHED", !.publishedAt = t.at, !.publishedBy = t.actor,
                !.signature = [hash |-> Hash(t.body, t.at), key |-> t.key]]

\* Everything publish does after the signature: the row, the visibility of the
\* framework, the announcements, the audit template.  What it does to the
\* cross-mappings, a table nothing here reads, is CrossMappings!Publish.
CommitPublish(s) ==
  LET t == session[s]  v == t.version  f == FrameworkOf[v]  h == Released(t).signature.hash IN
  /\ Finish(s, "publish", "assembled")
  /\ row' = Write(v, Released(t))
  /\ fw' = IF Alive(v) /\ f \in PublicFrameworks THEN [fw EXCEPT ![f] = "public"] ELSE fw
  /\ Emit(IF qa[v] = "none" THEN <<Event("published", v, h)>>
          ELSE <<Event("published", v, h), Event("qa_published", v, h)>>)
  /\ qa' = IF qa[v] = "none" THEN qa ELSE [qa EXCEPT ![v] = "ready"]
  /\ UNCHANGED <<votes, content, keys, activeKey, clock, reviewed>>

\* Mutant of CommitDeprecate: nothing is announced.
CommitDeprecateSilently(s) ==
  LET t == session[s] IN
  /\ Finish(s, "deprecate", "loaded")
  /\ row' = Write(t.version, [t.row EXCEPT !.status = "DEPRECATED"])
  /\ UNCHANGED <<fw, votes, content, qa, feed, keys, activeKey, clock, reviewed>>

CommitDeprecate(s) ==
  LET t == session[s] IN
  /\ Finish(s, "deprecate", "loaded")
  /\ row' = Write(t.version, [t.row EXCEPT !.status = "DEPRECATED"])
  /\ Emit(<<Event("deprecated", t.version, t.row.signature.hash)>>)
  /\ UNCHANGED <<fw, votes, content, qa, keys, activeKey, clock, reviewed>>

\* AddControl, AddCategory, AddRequirement: one more code in the structure.
CommitAdd(s, c, text) ==
  LET v == session[s].version IN
  /\ Finish(s, "edit", "loaded")
  /\ Alive(v)
  /\ content[v][c] = NoText
  /\ content' = [content EXCEPT ![v][c] = text]
  /\ UNCHANGED <<fw, row, votes, qa, feed, keys, activeKey, clock, reviewed>>

\* DeleteStructureNode: a requirement, or a category with all of its own.
CommitDelete(s, C) ==
  LET v == session[s].version IN
  /\ Finish(s, "edit", "loaded")
  /\ C # {} /\ \A c \in C : content[v][c] # NoText
  /\ content' = [content EXCEPT ![v] = [c \in Codes |-> IF c \in C THEN NoText ELSE @[c]]]
  /\ UNCHANGED <<fw, row, votes, qa, feed, keys, activeKey, clock, reviewed>>

\* Mutant of AnnounceAudit: a template is announced at its release only.
AnnounceAuditNever(v, status) == UNCHANGED feed

\* The announcement made for an audit template: nothing before the release.
AnnounceAudit(v, status) ==
  IF status = "ready" /\ row[v].status = "PUBLISHED"
  THEN Emit(<<Event("qa_published", v, row[v].signature.hash)>>)
  ELSE UNCHANGED feed

CommitAudit(s) ==
  LET t == session[s]  v == t.version
      status == IF t.row.status = "PUBLISHED" THEN "ready" ELSE t.audit IN
  /\ Finish(s, "audit", "loaded")
  /\ Alive(v)
  /\ qa' = [qa EXCEPT ![v] = status]
  /\ AnnounceAudit(v, status)
  /\ UNCHANGED <<fw, row, votes, content, keys, activeKey, clock, reviewed>>

-----------------------------------------------------------------------------
(* Requests that are one step *)

\* A draft of v by u, and its content.
OpenDraft(u, v, body) ==
  /\ row[v].status = "ABSENT"
  /\ clock < MaxClock
  /\ clock' = clock + 1
  /\ row' = [row EXCEPT ![v] = [Blank EXCEPT !.status = "DRAFT", !.author = u,
                                             !.createdAt = clock + 1]]
  /\ content' = [content EXCEPT ![v] = body]
  /\ UNCHANGED <<votes, qa, feed, keys, activeKey, session, reviewed>>

CreateFramework(u, v) ==
  /\ SomeIdle
  /\ fw[FrameworkOf[v]] = "absent"
  /\ fw' = [fw EXCEPT ![FrameworkOf[v]] = "private"]
  /\ OpenDraft(u, v, EmptyBody)

ImportFrameworkDoc(u, v, body) ==
  /\ SomeIdle
  /\ Valid(body)
  /\ fw[FrameworkOf[v]] = "absent"
  /\ fw' = [fw EXCEPT ![FrameworkOf[v]] = "private"]
  /\ OpenDraft(u, v, body)

AcceptNextVersion(u, v, body) ==
  /\ SomeIdle
  /\ Valid(body)
  /\ fw[FrameworkOf[v]] # "absent"
  /\ OpenDraft(u, v, body)
  /\ UNCHANGED fw

\* Superadmins only.  Everything under the framework goes with it; nothing is
\* announced.
DeleteFramework(u, f) ==
  LET gone == {v \in Versions : FrameworkOf[v] = f /\ Alive(v)} IN
  /\ SomeIdle
  /\ u \in Admins
  /\ fw[f] # "absent"
  /\ fw' = [fw EXCEPT ![f] = "absent"]
  /\ row' = [v \in Versions |-> IF v \in gone THEN [Blank EXCEPT !.status = "DELETED"] ELSE row[v]]
  /\ votes' = [v \in Versions |-> IF v \in gone THEN [w \in Users |-> "none"] ELSE votes[v]]
  /\ content' = [v \in Versions |-> IF v \in gone THEN EmptyBody ELSE content[v]]
  /\ qa' = [v \in Versions |-> IF v \in gone THEN "none" ELSE qa[v]]
  /\ reviewed' = [v \in Versions |-> IF v \in gone THEN EmptyBody ELSE reviewed[v]]
  /\ UNCHANGED <<feed, keys, activeKey, clock, session>>

\* Mutant of GenerateSigningKey: the new key is used but not stored.
GenerateSigningKeyUnstored(u, k) ==
  /\ SomeIdle
  /\ u \in Admins
  /\ k \notin keys
  /\ activeKey' = k
  /\ UNCHANGED <<fw, row, votes, content, qa, feed, keys, clock, session, reviewed>>

GenerateSigningKey(u, k) ==
  /\ SomeIdle
  /\ u \in Admins
  /\ k \notin keys
  /\ keys' = keys \union {k}
  /\ activeKey' = k
  /\ UNCHANGED <<fw, row, votes, content, qa, feed, clock, session, reviewed>>

SetQATemplateStatus(v, status) ==
  /\ SomeIdle
  /\ qa[v] # "none"
  /\ qa' = [qa EXCEPT ![v] = status]
  /\ AnnounceAudit(v, status)
  /\ UNCHANGED <<fw, row, votes, content, keys, activeKey, clock, session, reviewed>>

-----------------------------------------------------------------------------

Begin(s) ==
  \E v \in Versions :
    \/ BeginSubmit(s, v) \/ BeginDeprecate(s, v) \/ BeginEdit(s, v)
    \/ \E u \in Users : BeginApprove(s, u, v) \/ BeginReject(s, u, v) \/ BeginPublish(s, u, v)
    \/ \E status \in {"draft", "ready"} : BeginAudit(s, v, status)

Commit(s) ==
  \/ CommitSubmit(s) \/ CommitApprove(s) \/ CommitReject(s)
  \/ CommitPublish(s) \/ CommitDeprecate(s) \/ CommitAudit(s)
  \/ \E c \in Codes, text \in Texts : CommitAdd(s, c, text)
  \/ \E C \in SUBSET Codes : CommitDelete(s, C)

Author(u) ==
  \E v \in Versions :
    \/ CreateFramework(u, v)
    \/ \E body \in Bodies : ImportFrameworkDoc(u, v, body) \/ AcceptNextVersion(u, v, body)

Administer(u) ==
  \/ \E f \in Frameworks : DeleteFramework(u, f)
  \/ \E k \in Keys : GenerateSigningKey(u, k)

Next ==
  \/ \E s \in Sessions : Begin(s) \/ AssembleForSubmit(s) \/ AssembleForPublish(s)
                         \/ Commit(s) \/ Abort(s)
  \/ \E u \in Users : Author(u) \/ Administer(u)
  \/ \E v \in Versions, status \in AuditStatuses : SetQATemplateStatus(v, status)

Spec == Init /\ [][Next]_vars

-----------------------------------------------------------------------------
(* Properties *)

\* Every variable has the type of the column, table or memory it stands for.
TypeOK ==
  /\ fw \in [Frameworks -> {"absent", "private", "public"}]
  /\ row \in [Versions -> RowType]
  /\ votes \in [Versions -> [Users -> {"none", "approved", "rejected"}]]
  /\ content \in [Versions -> Bodies]
  /\ qa \in [Versions -> {"none", "draft", "ready"}]
  /\ feed \in Seq(EventType)
  /\ keys \subseteq Keys /\ activeKey \in keys \union {NoKey}
  /\ clock \in 0..MaxClock
  /\ session \in [Sessions -> SessionType]
  /\ reviewed \in [Versions -> Bodies]

Approved(v) == row[v].status \in {"APPROVED", "PUBLISHED", "DEPRECATED"}
ReleasedOnce(v) == row[v].status \in {"PUBLISHED", "DEPRECATED"}

\* What is claimed of a row r of version v, be it the row in the table or the
\* copy of it that a request took.
Vouched(r, v) == /\ r.approvedBy \in Reviewers \ {r.author}
                 /\ votes[v][r.approvedBy] = "approved"
PutOut(r) == r.publishedBy \in Reviewers \ {r.author}
Sealed(r) == /\ r.signature.key \in keys
             /\ Valid(r.signature.hash.body)
             /\ r.signature.hash.at = r.publishedAt

\* Separation of duties (ErrSeparationOfDuties): however requests overlap, a
\* version that got past review was approved by a reviewer other than its
\* author whose approving vote is on record, and one that went out was put out
\* by somebody other than its author.
ReleasedWasReviewed ==
  \A v \in Versions :
    /\ Approved(v) => Vouched(row[v], v)
    /\ ReleasedOnce(v) => PutOut(row[v])

\* What was distributed is signed: a released version carries a signature by a
\* key whose public half is served, over non-empty content, and over the very
\* publication time its row shows, also when it was published twice at once.
ReleasedIsSigned == \A v \in Versions : ReleasedOnce(v) => Sealed(row[v])

SnapshotHolds(s) == LET t == session[s]  v == t.version IN
  t.step # "idle" =>
    /\ v \in Versions /\ row[v].status # "ABSENT"
    /\ t.op = "submit" => t.row.status = "DRAFT"
    /\ t.op \in {"approve", "reject"} => t.row.status = "IN_REVIEW"
    /\ t.op \in {"approve", "publish"} => t.actor \in Reviewers \ {t.row.author}
    /\ t.op \in {"publish", "deprecate"} /\ Alive(v) => Vouched(t.row, v)
    /\ t.op = "publish" /\ t.step = "assembled" => t.key \in keys /\ Valid(t.body)
    /\ t.op = "deprecate" => PutOut(t.row) /\ Sealed(t.row)

\* What both rest on: a request under way carries the row as it was when the
\* request's guards held, by an actor they allow, and whatever happened to the
\* row since, the copy's approval is still on record and its signature is still
\* by a served key, so that writing the copy back is safe.
SnapshotsHold == \A s \in Sessions : SnapshotHolds(s)

\* Where the feed tells of the life of v.
Announcements(v) == {i \in DOMAIN feed : feed[i].version = v /\ feed[i].kind # "qa_published"}

\* Nobody is told less than the registry did: the last lifecycle event of a
\* released version says that it was released and with the hash its row shows,
\* the last one of a deprecated version says it was withdrawn.
FeedMatchesRow ==
  \A v \in Versions :
    ReleasedOnce(v) =>
      \E last \in Announcements(v) :
        /\ \A i \in Announcements(v) : i <= last
        /\ feed[last].kind = IF row[v].status = "PUBLISHED" THEN "published" ELSE "deprecated"
        /\ feed[last].hash = row[v].signature.hash

\* Serial requests only: the bundle is rebuilt from the tables on every
\* download and served with the stored signature, and it must still match.
ServedBundleVerifies ==
  \A v \in Versions :
    row[v].status = "PUBLISHED" =>
      row[v].signature.hash = Hash(content[v], row[v].publishedAt)

\* Serial requests only: what goes out is what the approver saw.
ReviewedContentIsPublished ==
  \A v \in Versions : ReleasedOnce(v) => row[v].signature.hash.body = reviewed[v]

PublishedOf(f) == {v \in Versions : FrameworkOf[v] = f /\ row[v].status = "PUBLISHED"}
LatestPublished(V) == CHOOSE v \in V : \A w \in V : row[w].publishedAt <= row[v].publishedAt

\* Serial requests only: the version the catalog calls the latest is the one a
\* consumer of the feed learns of last, among those still published.
LatestAgreesWithFeed ==
  \A f \in Frameworks :
    LET live == PublishedOf(f)
        told == {i \in DOMAIN feed : feed[i].kind = "published" /\ feed[i].version \in live}
    IN  live # {} =>
          \E last \in told : /\ \A i \in told : i <= last
                             /\ feed[last].version = LatestPublished(live)

\* Serial requests only: a published version whose audit template is ready has
\* told consumers so, after its release.
ReadyAuditAnnounced ==
  \A v \in Versions :
    row[v].status = "PUBLISHED" /\ qa[v] = "ready" =>
      \E i, j \in DOMAIN feed :
        /\ i < j
        /\ feed[i] = Event("published", v, row[v].signature.hash)
        /\ feed[j] = Event("qa_published", v, row[v].signature.hash)

\* Once published, content, signature and hash never change, and the version
\* can only be deprecated or deleted with its framework (framework_version.go).
PublishedIsImmutable ==
  [][\A v \in Versions :
       row[v].status = "PUBLISHED" =>
         \/ row'[v].status = "DELETED"
         \/ /\ row'[v] \in {row[v], [row[v] EXCEPT !.status = "DEPRECATED"]}
            /\ content'[v] = content[v]]_vars

\* A version in review can still be approved by somebody: if there is a
\* reviewer besides its author at all, one of them has a vote left.
ReviewNeverStuck ==
  \A v \in Versions :
    row[v].status = "IN_REVIEW" /\ Reviewers # {row[v].author} =>
      \E u \in Reviewers \ {row[v].author} : votes[v][u] = "none"

-----------------------------------------------------------------------------
(* The promise to consumers, when requests do not overlap *)

ConsumerPhase(v) ==
  CASE row[v].status = "PUBLISHED" -> "released"
    [] row[v].status = "DEPRECATED" -> "withdrawn"
    [] row[v].status = "DELETED" -> "erased"
    [] OTHER -> "open"

\* The hash a version was announced with outlives the row.
AnnouncedHashes(v) == {feed[i].hash : i \in Announcements(v)}
AnnouncedHash(v) == IF AnnouncedHashes(v) = {} THEN NoHash ELSE CHOOSE h \in AnnouncedHashes(v) : TRUE

\* The lifecycle part of the feed: the k-th of its places holds the k-th event.
LifePlaces == {i \in DOMAIN feed : feed[i].kind # "qa_published"}
Ordinal(i) == Cardinality({j \in LifePlaces : j <= i})
PlacesOf(k) == {i \in LifePlaces : Ordinal(i) = k}
OnlyOne(S) == CHOOSE i \in S : TRUE
LifeLog == [k \in 1..Cardinality(LifePlaces) |-> feed[OnlyOne(PlacesOf(k))]]

Register == INSTANCE ReleaseRegister WITH
  Hashes <- HashType \ {NoHash},
  phase <- [v \in Versions |-> ConsumerPhase(v)],
  hash <- [v \in Versions |-> AnnouncedHash(v)],
  log <- LifeLog

\* Every version is released once, with one hash, withdrawn at most once after
\* that, and each is announced in the same step and in order.
ImplementsRegister == Register!Spec
=============================================================================
