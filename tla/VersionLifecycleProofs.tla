----------------------- MODULE VersionLifecycleProofs -----------------------
(***************************************************************************)
(* Theorems about VersionLifecycle for any number of versions, users and   *)
(* keys.  For any number of overlapping requests, three inductive          *)
(* invariants:                                                             *)
(*                                                                         *)
(*   TypeInv   the types, and that a request under way has a version;      *)
(*   Safe      TypeInv, that every row past review is vouched for and      *)
(*             every released row put out by another than its author and   *)
(*             signed, and that the same holds of every copy of a row that *)
(*             a request may still write back;                             *)
(*   Truthful  TypeInv, and that the last lifecycle event of a released    *)
(*             row is about what the row says.                             *)
(*                                                                         *)
(* No step takes back what Safe rests on (Grows: keys, votes on a version  *)
(* that is not deleted, deletions), which leaves one obligation for each   *)
(* action: the one row it writes, or the one session it moves.             *)
(*                                                                         *)
(* For requests that do not overlap (Serial), a fourth:                    *)
(*                                                                         *)
(*   Orderly   TypeInv, that the request under way sees the tables as they *)
(*             are and publishes later than all that was published, what   *)
(*             the tables and the feed say of a version in each status     *)
(*             (RowKnown), that ready audits were told, and that releases  *)
(*             are in the feed in the order of their times.                *)
(*                                                                         *)
(* From it follow the properties of the serial run, and that every step is *)
(* a step of the release register, or none (StepHeard).                    *)
(***************************************************************************)
EXTENDS VersionLifecycle, FiniteSetTheorems, WellFoundedInduction, TLAPS

USE LifecycleAssumption DEF LifecycleAssumption

-----------------------------------------------------------------------------
(* Type correctness *)

\* TypeOK is inductive once a request under way is known to have a version.
Named == \A s \in Sessions : session[s].step # "idle" => session[s].version \in Versions
TypeInv == TypeOK /\ Named

LEMMA ConstantTypes ==
  /\ EmptyBody \in Bodies
  /\ NoHash \in HashType
  /\ Blank \in RowType
  /\ Idle \in SessionType /\ Idle.step = "idle"
<1>1. EmptyBody \in Bodies BY DEF EmptyBody, Bodies
<1>2. NoHash \in HashType BY <1>1 DEF NoHash, Hash, HashType
<1>3. Blank \in RowType BY <1>2 DEF Blank, RowType, Statuses, Unsigned
<1>4. Idle \in SessionType BY <1>1, <1>3 DEF Idle, SessionType, Ops
<1> QED BY <1>1, <1>2, <1>3, <1>4 DEF Idle

LEMMA InitTypes == Init => TypeInv
  BY ConstantTypes DEF Init, TypeInv, TypeOK, Named, Statuses

\* A session that is given a proper record leaves the other sessions as they were.
LEMMA SetSession ==
  ASSUME TypeInv, NEW s \in Sessions, NEW t \in SessionType,
         t.step = "idle" \/ t.version \in Versions,
         session' = [session EXCEPT ![s] = t]
  PROVE  session' \in [Sessions -> SessionType] /\ Named'
  BY DEF TypeInv, TypeOK, Named

\* What a session under way holds, read off its type.
LEMMA SessionTypes ==
  ASSUME TypeInv, NEW s \in Sessions, session[s].step # "idle"
  PROVE  /\ session[s] \in SessionType /\ session[s].version \in Versions
         /\ session[s].row \in RowType /\ session[s].body \in Bodies
         /\ session[s].at \in 0..MaxClock /\ session[s].key \in Keys \union {NoKey}
         /\ session[s].actor \in Users \union {NoUser}
         /\ session[s].audit \in {"none", "draft", "ready"}
  BY DEF TypeInv, TypeOK, Named, SessionType

LEMMA LoadTypes ==
  ASSUME TypeInv, NEW s \in Sessions, NEW op \in Ops, NEW u \in Users \union {NoUser},
         NEW v \in Versions, Load(s, op, u, v)
  PROVE  TypeInv'
<1> DEFINE t == [Idle EXCEPT !.step = "loaded", !.op = op, !.actor = u,
                             !.version = v, !.row = row[v]]
<1>1. row[v] \in RowType BY DEF TypeInv, TypeOK
<1>2. t \in SessionType /\ t.version \in Versions BY <1>1, ConstantTypes DEF SessionType
<1>3. session' = [session EXCEPT ![s] = t] BY DEF Load
<1> HIDE DEF t
<1>4. session' \in [Sessions -> SessionType] /\ Named' BY <1>2, <1>3, SetSession
<1> QED BY <1>4 DEF Load, TypeInv, TypeOK

LEMMA BeginPublishTypes ==
  ASSUME TypeInv, NEW s \in Sessions, NEW u \in Users, NEW v \in Versions,
         BeginPublish(s, u, v)
  PROVE  TypeInv'
<1> DEFINE t == [Idle EXCEPT !.step = "loaded", !.op = "publish", !.actor = u,
                             !.version = v, !.row = row[v], !.at = clock + 1]
<1>1. clock < MaxClock /\ clock \in 0..MaxClock BY DEF BeginPublish, TypeInv, TypeOK
<1>2. row[v] \in RowType /\ clock + 1 \in 0..MaxClock BY <1>1 DEF TypeInv, TypeOK
<1>3. t \in SessionType /\ t.version \in Versions BY <1>2, ConstantTypes DEF SessionType, Ops
<1>4. session' = [session EXCEPT ![s] = t] BY DEF BeginPublish
<1> HIDE DEF t
<1>5. session' \in [Sessions -> SessionType] /\ Named' BY <1>3, <1>4, SetSession
<1> QED BY <1>2, <1>5 DEF BeginPublish, TypeInv, TypeOK

LEMMA BeginAuditTypes ==
  ASSUME TypeInv, NEW s \in Sessions, NEW v \in Versions, NEW status \in {"draft", "ready"},
         BeginAudit(s, v, status)
  PROVE  TypeInv'
<1> DEFINE t == [Idle EXCEPT !.step = "loaded", !.op = "audit", !.version = v,
                             !.row = row[v], !.audit = status]
<1>1. row[v] \in RowType BY DEF TypeInv, TypeOK
<1>2. t \in SessionType /\ t.version \in Versions BY <1>1, ConstantTypes DEF SessionType, Ops
<1>3. session' = [session EXCEPT ![s] = t] BY DEF BeginAudit
<1> HIDE DEF t
<1>4. session' \in [Sessions -> SessionType] /\ Named' BY <1>2, <1>3, SetSession
<1> QED BY <1>4 DEF BeginAudit, TypeInv, TypeOK

LEMMA BeginTypes ==
  ASSUME TypeInv, NEW s \in Sessions, Begin(s)
  PROVE  TypeInv'
<1> PICK v \in Versions :
      \/ BeginSubmit(s, v) \/ BeginDeprecate(s, v) \/ BeginEdit(s, v)
      \/ \E u \in Users : BeginApprove(s, u, v) \/ BeginReject(s, u, v) \/ BeginPublish(s, u, v)
      \/ \E status \in {"draft", "ready"} : BeginAudit(s, v, status)
  BY DEF Begin
<1>1. CASE BeginSubmit(s, v) \/ BeginDeprecate(s, v) \/ BeginEdit(s, v)
  BY <1>1, LoadTypes DEF BeginSubmit, BeginDeprecate, BeginEdit, Ops
<1>2. ASSUME NEW u \in Users, BeginApprove(s, u, v) \/ BeginReject(s, u, v)
      PROVE  TypeInv'
  BY <1>2, LoadTypes DEF BeginApprove, BeginReject, Ops
<1> QED BY <1>1, <1>2, BeginPublishTypes, BeginAuditTypes

LEMMA AssembleTypes ==
  ASSUME TypeInv, NEW s \in Sessions, AssembleForSubmit(s) \/ AssembleForPublish(s)
  PROVE  TypeInv'
<1> DEFINE v == session[s].version
<1>1. session[s].step # "idle" BY DEF AssembleForSubmit, AssembleForPublish
<1>2. v \in Versions /\ content[v] \in Bodies /\ activeKey \in Keys \union {NoKey}
  BY <1>1, SessionTypes DEF TypeInv, TypeOK
<1>3. CASE AssembleForSubmit(s)
  <2> DEFINE t == [session[s] EXCEPT !.step = "assembled"]
  <2>1. t \in SessionType /\ t.version \in Versions BY <1>1, SessionTypes DEF SessionType
  <2>2. session' = [session EXCEPT ![s] = t] BY <1>3 DEF AssembleForSubmit
  <2> HIDE DEF t
  <2>3. session' \in [Sessions -> SessionType] /\ Named' BY <2>1, <2>2, SetSession
  <2> QED BY <1>3, <2>3 DEF AssembleForSubmit, TypeInv, TypeOK
<1>4. CASE AssembleForPublish(s)
  <2> DEFINE t == [session[s] EXCEPT !.step = "assembled", !.body = content[v], !.key = activeKey]
  <2>1. t \in SessionType /\ t.version \in Versions BY <1>1, <1>2, SessionTypes, ZenonT(40) DEF SessionType
  <2>2. session' = [session EXCEPT ![s] = t] BY <1>4 DEF AssembleForPublish, TypeInv, TypeOK
  <2> HIDE DEF t
  <2>3. session' \in [Sessions -> SessionType] /\ Named' BY <2>1, <2>2, SetSession
  <2> QED BY <1>4, <2>3 DEF AssembleForPublish, TypeInv, TypeOK
<1> QED BY <1>3, <1>4

LEMMA FinishTypes ==
  ASSUME TypeInv, NEW s \in Sessions, session' = [session EXCEPT ![s] = Idle]
  PROVE  session' \in [Sessions -> SessionType] /\ Named'
  BY ConstantTypes, SetSession

LEMMA WriteTypes ==
  ASSUME TypeInv, NEW v \in Versions, NEW r \in RowType
  PROVE  Write(v, r) \in [Versions -> RowType]
  BY DEF TypeInv, TypeOK, Write

LEMMA EmitTypes ==
  ASSUME TypeInv, NEW events \in Seq(EventType), Emit(events)
  PROVE  feed' \in Seq(EventType)
  BY DEF TypeInv, TypeOK, Emit

LEMMA AnnounceAuditTypes ==
  ASSUME TypeInv, NEW v \in Versions, NEW status, AnnounceAudit(v, status)
  PROVE  feed' \in Seq(EventType)
<1>1. row[v].signature.hash \in HashType BY DEF TypeInv, TypeOK, RowType
<1>2. <<Event("qa_published", v, row[v].signature.hash)>> \in Seq(EventType)
  BY <1>1 DEF Event, EventType, EventKinds
<1>3. CASE Emit(<<Event("qa_published", v, row[v].signature.hash)>>) BY <1>2, <1>3, EmitTypes
<1>4. CASE feed' = feed BY <1>4 DEF TypeInv, TypeOK
<1> QED BY <1>3, <1>4 DEF AnnounceAudit

LEMMA CommitReviewTypes ==
  ASSUME TypeInv, NEW s \in Sessions,
         CommitSubmit(s) \/ CommitApprove(s) \/ CommitReject(s)
  PROVE  TypeInv'
<1> DEFINE t == session[s]  v == t.version
<1>1. t.step # "idle" /\ session' = [session EXCEPT ![s] = Idle]
  BY DEF CommitSubmit, CommitApprove, CommitReject, Finish
<1>2. session' \in [Sessions -> SessionType] /\ Named' BY <1>1, FinishTypes
<1>3. v \in Versions /\ t.row \in RowType /\ t.actor \in Users \union {NoUser}
  BY <1>1, SessionTypes
<1>4. CASE CommitSubmit(s)
  <2>1. [t.row EXCEPT !.status = "IN_REVIEW"] \in RowType BY <1>3 DEF RowType, Statuses
  <2>2. row' \in [Versions -> RowType] BY <1>3, <1>4, <2>1, WriteTypes DEF CommitSubmit
  <2> QED BY <1>2, <1>4, <2>2 DEF CommitSubmit, TypeInv, TypeOK
<1>5. CASE CommitApprove(s)
  <2>1. [t.row EXCEPT !.status = "APPROVED", !.approvedBy = t.actor] \in RowType
    BY <1>3 DEF RowType, Statuses
  <2>2. row' \in [Versions -> RowType]
    BY <1>3, <1>5, <2>1, WriteTypes DEF CommitApprove, TypeInv, TypeOK
  <2>3. reviewed' \in [Versions -> Bodies] BY <1>3, <1>5 DEF CommitApprove, TypeInv, TypeOK
  <2>4. votes' \in [Versions -> [Users -> {"none", "approved", "rejected"}]]
    BY <1>3, <1>5 DEF CommitApprove, CastVote, TypeInv, TypeOK
  <2> QED BY <1>2, <1>5, <2>2, <2>3, <2>4 DEF CommitApprove, TypeInv, TypeOK
<1>6. CASE CommitReject(s)
  <2>1. [t.row EXCEPT !.status = "DRAFT"] \in RowType BY <1>3 DEF RowType, Statuses
  <2>2. row' \in [Versions -> RowType] BY <1>3, <1>6, <2>1, WriteTypes DEF CommitReject
  <2>3. votes' \in [Versions -> [Users -> {"none", "approved", "rejected"}]]
    BY <1>3, <1>6 DEF CommitReject, CastVote, TypeInv, TypeOK
  <2> QED BY <1>2, <1>6, <2>2, <2>3 DEF CommitReject, TypeInv, TypeOK
<1> QED BY <1>4, <1>5, <1>6

\* A publication appends its event, and the one of the audit template if there is one.
LEMMA PublishEvents ==
  ASSUME NEW s \in Sessions, CommitPublish(s), NEW v, v = session[s].version,
         NEW r, r = Released(session[s])
  PROVE  /\ row' = Write(v, r)
         /\ feed' = feed \o IF qa[v] = "none" THEN <<Event("published", v, r.signature.hash)>>
                            ELSE <<Event("published", v, r.signature.hash),
                                   Event("qa_published", v, r.signature.hash)>>
  BY DEF CommitPublish, Emit

LEMMA ReleasedTypes ==
  ASSUME TypeInv, NEW s \in Sessions, session[s].step # "idle"
  PROVE  Released(session[s]) \in RowType
<1>1. Hash(session[s].body, session[s].at) \in HashType BY SessionTypes DEF Hash, HashType
<1> DEFINE signature == [hash |-> Hash(session[s].body, session[s].at), key |-> session[s].key]
           r == session[s].row
<1>2. signature \in [hash : HashType, key : Keys \union {NoKey}] BY <1>1, SessionTypes
<1>3. r \in RowType /\ session[s].at \in 0..MaxClock /\ session[s].actor \in Users \union {NoUser}
  BY SessionTypes
<1>4. Released(session[s]) = [r EXCEPT !.status = "PUBLISHED", !.publishedAt = session[s].at,
                                       !.publishedBy = session[s].actor, !.signature = signature]
  BY DEF Released
<1> HIDE DEF signature, r
<1> QED BY <1>2, <1>3, <1>4, ZenonT(40) DEF RowType, Statuses

LEMMA CommitReleaseTypes ==
  ASSUME TypeInv, NEW s \in Sessions, CommitPublish(s) \/ CommitDeprecate(s)
  PROVE  TypeInv'
<1> DEFINE t == session[s]  v == t.version
<1>1. t.step # "idle" /\ session' = [session EXCEPT ![s] = Idle]
  BY DEF CommitPublish, CommitDeprecate, Finish
<1>2. session' \in [Sessions -> SessionType] /\ Named' BY <1>1, FinishTypes
<1>3. v \in Versions /\ t.row \in RowType BY <1>1, SessionTypes
<1>4. CASE CommitPublish(s)
  <2> DEFINE h == Released(t).signature.hash
             events == IF qa[v] = "none" THEN <<Event("published", v, h)>>
                       ELSE <<Event("published", v, h), Event("qa_published", v, h)>>
  <2>1. Released(t) \in RowType BY <1>1, ReleasedTypes
  <2>2. row' \in [Versions -> RowType] BY <1>3, <1>4, <2>1, WriteTypes DEF CommitPublish
  <2>3. h \in HashType BY <2>1 DEF RowType
  <2>4. Event("published", v, h) \in EventType /\ Event("qa_published", v, h) \in EventType
    <3> HIDE DEF h
    <3> QED BY <1>3, <2>3 DEF Event, EventType, EventKinds
  <2>5. events \in Seq(EventType)
    <3> HIDE DEF h
    <3> QED BY <2>4
  <2>6. Emit(events) BY <1>4 DEF CommitPublish
  <2> HIDE DEF h, events
  <2>7. feed' \in Seq(EventType) BY <2>5, <2>6, EmitTypes
  <2>8. fw' \in [Frameworks -> {"absent", "private", "public"}]
    BY <1>3, <1>4 DEF CommitPublish, TypeInv, TypeOK
  <2>9. qa' \in [Versions -> {"none", "draft", "ready"}]
    BY <1>3, <1>4 DEF CommitPublish, TypeInv, TypeOK
  <2> QED BY <1>2, <1>4, <2>2, <2>7, <2>8, <2>9 DEF CommitPublish, TypeInv, TypeOK
<1>5. CASE CommitDeprecate(s)
  <2>1. [t.row EXCEPT !.status = "DEPRECATED"] \in RowType BY <1>3 DEF RowType, Statuses
  <2>2. row' \in [Versions -> RowType] BY <1>3, <1>5, <2>1, WriteTypes DEF CommitDeprecate
  <2>3. <<Event("deprecated", v, t.row.signature.hash)>> \in Seq(EventType)
    BY <1>3 DEF Event, EventType, EventKinds, RowType
  <2>4. feed' \in Seq(EventType) BY <1>5, <2>3, EmitTypes DEF CommitDeprecate
  <2> QED BY <1>2, <1>5, <2>2, <2>4 DEF CommitDeprecate, TypeInv, TypeOK
<1> QED BY <1>4, <1>5

LEMMA CommitContentTypes ==
  ASSUME TypeInv, NEW s \in Sessions,
         \/ CommitAudit(s)
         \/ \E c \in Codes, text \in Texts : CommitAdd(s, c, text)
         \/ \E C \in SUBSET Codes : CommitDelete(s, C)
  PROVE  TypeInv'
<1> DEFINE t == session[s]  v == t.version
<1>1. t.step # "idle" /\ session' = [session EXCEPT ![s] = Idle]
  BY DEF CommitAudit, CommitAdd, CommitDelete, Finish
<1>2. session' \in [Sessions -> SessionType] /\ Named' BY <1>1, FinishTypes
<1>3. v \in Versions /\ t.audit \in {"none", "draft", "ready"} BY <1>1, SessionTypes
<1>4. CASE CommitAudit(s)
  <2> DEFINE status == IF t.row.status = "PUBLISHED" THEN "ready" ELSE t.audit
  <2>1. qa' \in [Versions -> {"none", "draft", "ready"}]
    BY <1>3, <1>4 DEF CommitAudit, TypeInv, TypeOK
  <2>2. AnnounceAudit(v, status) BY <1>4 DEF CommitAudit
  <2> HIDE DEF status
  <2>3. feed' \in Seq(EventType) BY <1>3, <2>2, AnnounceAuditTypes
  <2> QED BY <1>2, <1>4, <2>1, <2>3 DEF CommitAudit, TypeInv, TypeOK
<1>5. ASSUME NEW c \in Codes, NEW text \in Texts, CommitAdd(s, c, text)
      PROVE  TypeInv'
  <2>1. content' \in [Versions -> Bodies] BY <1>3, <1>5 DEF CommitAdd, Bodies, TypeInv, TypeOK
  <2> QED BY <1>2, <1>5, <2>1 DEF CommitAdd, TypeInv, TypeOK
<1>6. ASSUME NEW C \in SUBSET Codes, CommitDelete(s, C)
      PROVE  TypeInv'
  <2>1. content' \in [Versions -> Bodies] BY <1>3, <1>6 DEF CommitDelete, Bodies, TypeInv, TypeOK
  <2> QED BY <1>2, <1>6, <2>1 DEF CommitDelete, TypeInv, TypeOK
<1> QED BY <1>4, <1>5, <1>6

LEMMA OpenDraftTypes ==
  ASSUME TypeInv, NEW u \in Users, NEW v \in Versions, NEW body \in Bodies,
         OpenDraft(u, v, body), fw' \in [Frameworks -> {"absent", "private", "public"}]
  PROVE  TypeInv'
<1>1. clock < MaxClock /\ clock \in 0..MaxClock BY DEF OpenDraft, TypeInv, TypeOK
<1>2. clock + 1 \in 0..MaxClock BY <1>1
<1>3. [Blank EXCEPT !.status = "DRAFT", !.author = u, !.createdAt = clock + 1] \in RowType
  BY <1>2, ConstantTypes DEF RowType, Statuses
<1>4. row' \in [Versions -> RowType] BY <1>3 DEF OpenDraft, TypeInv, TypeOK
<1>5. content' \in [Versions -> Bodies] BY DEF OpenDraft, TypeInv, TypeOK
<1>6. clock' \in 0..MaxClock BY <1>2 DEF OpenDraft
<1> QED BY <1>4, <1>5, <1>6 DEF OpenDraft, TypeInv, TypeOK, Named

LEMMA AuthorTypes ==
  ASSUME TypeInv, NEW u \in Users, Author(u)
  PROVE  TypeInv'
<1>1. ASSUME NEW v \in Versions, CreateFramework(u, v)
      PROVE  TypeInv'
  <2>1. fw' \in [Frameworks -> {"absent", "private", "public"}]
    BY <1>1 DEF CreateFramework, TypeInv, TypeOK
  <2> QED BY <1>1, <2>1, ConstantTypes, OpenDraftTypes DEF CreateFramework
<1>2. ASSUME NEW v \in Versions, NEW body \in Bodies, ImportFrameworkDoc(u, v, body)
      PROVE  TypeInv'
  <2>1. fw' \in [Frameworks -> {"absent", "private", "public"}]
    BY <1>2 DEF ImportFrameworkDoc, TypeInv, TypeOK
  <2> QED BY <1>2, <2>1, OpenDraftTypes DEF ImportFrameworkDoc
<1>3. ASSUME NEW v \in Versions, NEW body \in Bodies, AcceptNextVersion(u, v, body)
      PROVE  TypeInv'
  <2>1. fw' \in [Frameworks -> {"absent", "private", "public"}]
    BY <1>3 DEF AcceptNextVersion, TypeInv, TypeOK
  <2> QED BY <1>3, <2>1, OpenDraftTypes DEF AcceptNextVersion
<1> QED BY <1>1, <1>2, <1>3 DEF Author

LEMMA AdministerTypes ==
  ASSUME TypeInv, NEW u \in Users, Administer(u)
  PROVE  TypeInv'
<1>1. ASSUME NEW f \in Frameworks, DeleteFramework(u, f)
      PROVE  TypeInv'
  <2>1. [Blank EXCEPT !.status = "DELETED"] \in RowType BY ConstantTypes DEF RowType, Statuses
  <2>2. row' \in [Versions -> RowType] BY <1>1, <2>1 DEF DeleteFramework, TypeInv, TypeOK
  <2>3. votes' \in [Versions -> [Users -> {"none", "approved", "rejected"}]]
    BY <1>1 DEF DeleteFramework, TypeInv, TypeOK
  <2>4. content' \in [Versions -> Bodies] /\ reviewed' \in [Versions -> Bodies]
    BY <1>1, ConstantTypes DEF DeleteFramework, TypeInv, TypeOK
  <2>5. /\ qa' \in [Versions -> {"none", "draft", "ready"}]
        /\ fw' \in [Frameworks -> {"absent", "private", "public"}]
    BY <1>1 DEF DeleteFramework, TypeInv, TypeOK
  <2> QED BY <1>1, <2>2, <2>3, <2>4, <2>5 DEF DeleteFramework, TypeInv, TypeOK, Named
<1>2. ASSUME NEW k \in Keys, GenerateSigningKey(u, k)
      PROVE  TypeInv'
  BY <1>2 DEF GenerateSigningKey, TypeInv, TypeOK, Named
<1> QED BY <1>1, <1>2 DEF Administer

\* Every step keeps the types, whatever the number of sessions.
LEMMA StepTypes == TypeInv /\ [Next]_vars => TypeInv'
<1> SUFFICES ASSUME TypeInv, [Next]_vars PROVE TypeInv' OBVIOUS
<1>1. ASSUME NEW s \in Sessions, Begin(s) PROVE TypeInv' BY <1>1, BeginTypes
<1>2. ASSUME NEW s \in Sessions, AssembleForSubmit(s) \/ AssembleForPublish(s) PROVE TypeInv'
  BY <1>2, AssembleTypes
<1>3. ASSUME NEW s \in Sessions, Commit(s) PROVE TypeInv'
  BY <1>3, CommitReviewTypes, CommitReleaseTypes, CommitContentTypes DEF Commit
<1>4. ASSUME NEW s \in Sessions, Abort(s) PROVE TypeInv'
  BY <1>4, FinishTypes DEF Abort, TypeInv, TypeOK
<1>5. ASSUME NEW u \in Users, Author(u) PROVE TypeInv' BY <1>5, AuthorTypes
<1>6. ASSUME NEW u \in Users, Administer(u) PROVE TypeInv' BY <1>6, AdministerTypes
<1>7. ASSUME NEW v \in Versions, NEW status \in AuditStatuses, SetQATemplateStatus(v, status)
      PROVE  TypeInv'
  BY <1>7, AnnounceAuditTypes DEF SetQATemplateStatus, TypeInv, TypeOK, Named
<1>8. CASE UNCHANGED vars BY <1>8 DEF vars, TypeInv, TypeOK, Named
<1> QED BY <1>1, <1>2, <1>3, <1>4, <1>5, <1>6, <1>7, <1>8 DEF Next

\* Type correctness: every row, vote, event and request under way has the type
\* of what it stands for, whatever the constants.
THEOREM TypeCorrect == Spec => []TypeOK
<1>1. Init => TypeInv BY InitTypes
<1>2. TypeInv /\ [Next]_vars => TypeInv' BY StepTypes
<1>3. TypeInv => TypeOK BY DEF TypeInv
<1> QED BY <1>1, <1>2, <1>3, PTL DEF Spec

-----------------------------------------------------------------------------
(* Separation of duties and signatures *)

\* What the two invariants say of one version.
RowHolds(v) == /\ Approved(v) => Vouched(row[v], v)
               /\ ReleasedOnce(v) => PutOut(row[v]) /\ Sealed(row[v])

\* The inductive invariant.  Rows alone are not enough: a commit writes back the
\* copy a session took, so the claims have to hold of the copies too.
Safe == TypeInv /\ (\A v \in Versions : RowHolds(v)) /\ (\A s \in Sessions : SnapshotHolds(s))

LEMMA InitSafe == Init => Safe
<1> SUFFICES ASSUME Init PROVE Safe OBVIOUS
<1>1. TypeInv BY InitTypes
<1>2. ASSUME NEW v \in Versions PROVE RowHolds(v)
  BY DEF Init, Blank, RowHolds, Approved, ReleasedOnce
<1>3. ASSUME NEW s \in Sessions PROVE SnapshotHolds(s)
  BY ConstantTypes DEF Init, SnapshotHolds
<1> QED BY <1>1, <1>2, <1>3 DEF Safe

\* What a step never takes back: a signing key, the existence of a version, an
\* approving vote on a version that is not deleted, a deletion.
Grows ==
  /\ keys \subseteq keys'
  /\ \A v \in Versions :
       /\ row[v].status # "ABSENT" => row'[v].status # "ABSENT"
       /\ Alive(v)' => /\ row[v].status # "DELETED"
                       /\ \A u \in Users : votes[v][u] = "approved" => votes'[v][u] = "approved"

\* A row that is not written, a session that does not move: what held still does.
LEMMA RowKept ==
  ASSUME Grows, NEW v \in Versions, RowHolds(v), row'[v] = row[v]
  PROVE  RowHolds(v)'
<1>1. Approved(v)' => Vouched(row[v], v)'
  BY DEF Grows, RowHolds, Approved, Alive, Vouched
<1>2. ReleasedOnce(v)' => PutOut(row[v])' /\ Sealed(row[v])'
  BY DEF Grows, RowHolds, ReleasedOnce, PutOut, Sealed
<1> QED BY <1>1, <1>2 DEF RowHolds

LEMMA SnapshotKept ==
  ASSUME Grows, NEW s \in Sessions, SnapshotHolds(s), session'[s] = session[s]
  PROVE  SnapshotHolds(s)'
<1> DEFINE t == session[s]
<1> SUFFICES ASSUME t.step # "idle" PROVE SnapshotHolds(s)' BY DEF SnapshotHolds
<1>1. t.version \in Versions /\ row'[t.version].status # "ABSENT"
  BY DEF SnapshotHolds, Grows
<1>2. Alive(t.version)' => Alive(t.version)
  BY <1>1 DEF SnapshotHolds, Grows, Alive
<1>3. Alive(t.version)' /\ Vouched(t.row, t.version) => Vouched(t.row, t.version)'
  BY <1>1 DEF Grows, Vouched
<1>4. Sealed(t.row) => Sealed(t.row)' BY DEF Grows, Sealed
<1>5. PutOut(t.row) => PutOut(t.row)' BY DEF PutOut
<1> QED BY <1>1, <1>2, <1>3, <1>4, <1>5 DEF SnapshotHolds, Grows

\* A step that only moves session s on, or that ends it.
LEMMA OthersKept ==
  ASSUME Safe, Grows, NEW s \in Sessions, NEW t, session' = [session EXCEPT ![s] = t],
         t.step = "idle" \/ SnapshotHolds(s)'
  PROVE  \A r \in Sessions : SnapshotHolds(r)'
<1> SUFFICES ASSUME NEW r \in Sessions PROVE SnapshotHolds(r)' OBVIOUS
<1>1. session'[s] = t BY DEF Safe, TypeInv, TypeOK
<1>2. CASE r = s BY <1>1, <1>2 DEF SnapshotHolds
<1>3. CASE r # s
  <2>1. session'[r] = session[r] BY <1>3
  <2> QED BY <2>1, SnapshotKept DEF Safe
<1> QED BY <1>2, <1>3

LEMMA TablesGrow ==
  ASSUME Safe, UNCHANGED <<row, votes>>, keys \subseteq keys'
  PROVE  Grows
  BY DEF Grows, Alive

LEMMA WriteGrows ==
  ASSUME Safe, NEW v \in Versions, NEW r \in RowType, r.status \notin {"ABSENT", "DELETED"},
         row' = Write(v, r), UNCHANGED keys,
         \A w \in Versions, u \in Users : votes[w][u] = "approved" => votes'[w][u] = "approved"
  PROVE  /\ Grows
         /\ \A w \in Versions : row'[w] # row[w] => w = v /\ row'[w] = r /\ Alive(v)
<1>1. row \in [Versions -> RowType] BY DEF Safe, TypeInv, TypeOK
<1>2. \A w \in Versions : \/ row'[w] = row[w]
                          \/ w = v /\ row'[w] = r /\ Alive(v)
  BY <1>1 DEF Write
<1> QED BY <1>2 DEF Grows, Alive

LEMMA BeginSafe ==
  ASSUME Safe, NEW s \in Sessions, Begin(s)
  PROVE  Safe'
<1> PICK v \in Versions :
      \/ BeginSubmit(s, v) \/ BeginDeprecate(s, v) \/ BeginEdit(s, v)
      \/ \E u \in Users : BeginApprove(s, u, v) \/ BeginReject(s, u, v) \/ BeginPublish(s, u, v)
      \/ \E status \in {"draft", "ready"} : BeginAudit(s, v, status)
  BY DEF Begin
<1>1. UNCHANGED <<row, votes, keys>>
  BY DEF BeginSubmit, BeginDeprecate, BeginEdit, BeginApprove, BeginReject, BeginPublish,
         BeginAudit, Load
<1>2. Grows BY <1>1, TablesGrow
<1>3. \A w \in Versions : RowHolds(w)' BY <1>1, <1>2, RowKept DEF Safe
<1>4. TypeInv' BY BeginTypes DEF Safe
<1> DEFINE Started(t) ==
      /\ t.version = v /\ t.row = row[v] /\ t.step = "loaded" /\ row[v].status # "ABSENT"
      /\ t.op = "submit" => row[v].status = "DRAFT"
      /\ t.op \in {"approve", "reject"} => row[v].status = "IN_REVIEW"
      /\ t.op = "publish" => row[v].status = "APPROVED"
      /\ t.op = "deprecate" => row[v].status = "PUBLISHED"
      /\ t.op \in {"approve", "publish"} => t.actor \in Reviewers \ {row[v].author}
    Loaded(op, u) == [Idle EXCEPT !.step = "loaded", !.op = op, !.actor = u,
                                  !.version = v, !.row = row[v]]
<1>5. \E t : session' = [session EXCEPT ![s] = t] /\ Started(t)
  <2>1. CASE BeginSubmit(s, v)
    <3>1. Started(Loaded("submit", NoUser)) BY <2>1 DEF BeginSubmit, Idle
    <3> QED BY <2>1, <3>1 DEF BeginSubmit, Load
  <2>2. CASE BeginDeprecate(s, v)
    <3>1. Started(Loaded("deprecate", NoUser)) BY <2>2 DEF BeginDeprecate, Idle
    <3> QED BY <2>2, <3>1 DEF BeginDeprecate, Load
  <2>3. CASE BeginEdit(s, v)
    <3>1. Started(Loaded("edit", NoUser)) BY <2>3 DEF BeginEdit, Idle
    <3> QED BY <2>3, <3>1 DEF BeginEdit, Load
  <2>4. ASSUME NEW u \in Users, BeginApprove(s, u, v)
        PROVE  \E t : session' = [session EXCEPT ![s] = t] /\ Started(t)
    <3>1. Started(Loaded("approve", u)) BY <2>4 DEF BeginApprove, Idle
    <3> QED BY <2>4, <3>1 DEF BeginApprove, Load
  <2>5. ASSUME NEW u \in Users, BeginReject(s, u, v)
        PROVE  \E t : session' = [session EXCEPT ![s] = t] /\ Started(t)
    <3>1. Started(Loaded("reject", u)) BY <2>5 DEF BeginReject, Idle
    <3> QED BY <2>5, <3>1 DEF BeginReject, Load
  <2>6. ASSUME NEW u \in Users, BeginPublish(s, u, v)
        PROVE  \E t : session' = [session EXCEPT ![s] = t] /\ Started(t)
    <3> DEFINE t == [Idle EXCEPT !.step = "loaded", !.op = "publish", !.actor = u,
                                 !.version = v, !.row = row[v], !.at = clock + 1]
    <3>1. Started(t) BY <2>6 DEF BeginPublish, Idle
    <3> QED BY <2>6, <3>1 DEF BeginPublish
  <2>7. ASSUME NEW status \in {"draft", "ready"}, BeginAudit(s, v, status)
        PROVE  \E t : session' = [session EXCEPT ![s] = t] /\ Started(t)
    <3> DEFINE t == [Idle EXCEPT !.step = "loaded", !.op = "audit", !.version = v,
                                 !.row = row[v], !.audit = status]
    <3>1. Started(t) BY <2>7 DEF BeginAudit, Alive, Idle
    <3> QED BY <2>7, <3>1 DEF BeginAudit
  <2> QED BY <2>1, <2>2, <2>3, <2>4, <2>5, <2>6, <2>7
<1>6. PICK t : session' = [session EXCEPT ![s] = t] /\ Started(t) BY <1>5
<1>7. session'[s] = t BY <1>6 DEF Safe, TypeInv, TypeOK
<1>8. SnapshotHolds(s)'
  <2>1. RowHolds(v) BY DEF Safe
  <2>2. row[v].status \in {"APPROVED", "PUBLISHED"} => Vouched(row[v], v)
    BY <2>1 DEF RowHolds, Approved
  <2>3. row[v].status = "PUBLISHED" => PutOut(row[v]) /\ Sealed(row[v])
    BY <2>1 DEF RowHolds, ReleasedOnce
  <2>4. t.op \in {"publish", "deprecate"} => Vouched(t.row, t.version)'
    BY <1>1, <1>6, <2>2 DEF Vouched
  <2>5. t.op = "deprecate" => PutOut(t.row)' /\ Sealed(t.row)'
    BY <1>1, <1>6, <2>3 DEF PutOut, Sealed
  <2> QED BY <1>1, <1>6, <1>7, <2>4, <2>5 DEF SnapshotHolds
<1> QED BY <1>3, <1>4, <1>2, <1>6, <1>8, OthersKept DEF Safe

LEMMA AssembleSafe ==
  ASSUME Safe, NEW s \in Sessions, AssembleForSubmit(s) \/ AssembleForPublish(s)
  PROVE  Safe'
<1>1. UNCHANGED <<row, votes, keys>> BY DEF AssembleForSubmit, AssembleForPublish
<1>2. Grows BY <1>1, TablesGrow
<1>3. \A w \in Versions : RowHolds(w)' BY <1>1, <1>2, RowKept DEF Safe
<1>4. TypeInv' BY AssembleTypes DEF Safe
<1>5. PICK t : /\ session' = [session EXCEPT ![s] = t]
               /\ t.version = session[s].version /\ t.row = session[s].row
               /\ t.op = session[s].op /\ t.actor = session[s].actor
               /\ t.op \in {"submit", "publish"} /\ session[s].step = "loaded"
               /\ t.op = "publish" => t.key \in keys /\ Valid(t.body)
  <2>1. session[s] \in SessionType BY DEF Safe, TypeInv, TypeOK
  <2>2. CASE AssembleForSubmit(s)
    <3> DEFINE t == [session[s] EXCEPT !.step = "assembled"]
    <3>1. session' = [session EXCEPT ![s] = t] BY <2>2 DEF AssembleForSubmit
    <3>2. t.version = session[s].version /\ t.row = session[s].row /\ t.op = "submit"
            /\ t.actor = session[s].actor /\ session[s].op = "submit" /\ session[s].step = "loaded"
      BY <2>1, <2>2 DEF AssembleForSubmit, SessionType
    <3> HIDE DEF t
    <3> QED BY <3>1, <3>2
  <2>3. CASE AssembleForPublish(s)
    <3> DEFINE t == [session[s] EXCEPT !.step = "assembled",
                                       !.body = content[session[s].version], !.key = activeKey]
    <3>1. session' = [session EXCEPT ![s] = t]
      BY <2>3 DEF AssembleForPublish, Safe, TypeInv, TypeOK
    <3>2. t.version = session[s].version /\ t.row = session[s].row /\ t.op = "publish"
            /\ t.actor = session[s].actor /\ session[s].op = "publish" /\ session[s].step = "loaded"
            /\ t.key = activeKey /\ t.body = content[session[s].version]
      BY <2>1, <2>3 DEF AssembleForPublish, SessionType
    <3>3. activeKey \in keys /\ Valid(content[session[s].version])
      BY <2>3 DEF AssembleForPublish, Safe, TypeInv, TypeOK
    <3> HIDE DEF t
    <3> QED BY <3>1, <3>2, <3>3
  <2> QED BY <2>2, <2>3
<1>6. session'[s] = t BY <1>5 DEF Safe, TypeInv, TypeOK
<1>7. SnapshotHolds(s)'
  <2>1. SnapshotHolds(s) /\ session[s].step # "idle" BY <1>5 DEF Safe
  <2> QED BY <1>1, <1>5, <1>6, <2>1 DEF SnapshotHolds, Vouched, Alive
<1> QED BY <1>2, <1>3, <1>4, <1>5, <1>7, OthersKept DEF Safe

\* A commit writes one row, or none, and ends its session: it is safe if what
\* it wrote is.
LEMMA CommitSafe ==
  ASSUME Safe, TypeInv', NEW s \in Sessions, session' = [session EXCEPT ![s] = Idle], Grows,
         NEW v \in Versions, \A w \in Versions : row'[w] # row[w] => w = v,
         row'[v] # row[v] => RowHolds(v)'
  PROVE  Safe'
<1>1. ASSUME NEW w \in Versions PROVE RowHolds(w)'
  <2>1. RowHolds(w) BY DEF Safe
  <2>2. CASE row'[w] = row[w] BY <2>1, <2>2, RowKept
  <2>3. CASE row'[w] # row[w] BY <2>3
  <2> QED BY <2>2, <2>3
<1>2. \A r \in Sessions : SnapshotHolds(r)' BY ConstantTypes, OthersKept
<1> QED BY <1>1, <1>2 DEF Safe

LEMMA CastVoteGrows ==
  ASSUME Safe, NEW u, NEW v \in Versions, NEW decision, CastVote(u, v, decision)
  PROVE  \A w \in Versions, r \in Users : votes[w][r] = "approved" => votes'[w][r] = "approved"
  BY DEF CastVote, Safe, TypeInv, TypeOK

LEMMA CommitReviewSafe ==
  ASSUME Safe, NEW s \in Sessions, CommitSubmit(s) \/ CommitApprove(s) \/ CommitReject(s)
  PROVE  Safe'
<1>1. session[s].step # "idle" /\ session' = [session EXCEPT ![s] = Idle]
  BY DEF CommitSubmit, CommitApprove, CommitReject, Finish
<1>2. PICK v \in Versions, old \in RowType, u \in Users \union {NoUser} :
        v = session[s].version /\ old = session[s].row /\ u = session[s].actor
  BY <1>1, SessionTypes DEF Safe
<1>3. TypeInv' BY CommitReviewTypes DEF Safe
<1>4. CASE CommitSubmit(s)
  <2> DEFINE new == [old EXCEPT !.status = "IN_REVIEW"]
  <2>1. new \in RowType /\ new.status = "IN_REVIEW" BY DEF RowType, Statuses
  <2>2. PICK r \in RowType : r = new /\ r.status = "IN_REVIEW" BY <2>1
  <2>3. row' = Write(v, r) /\ UNCHANGED <<votes, keys>> BY <1>2, <1>4, <2>2 DEF CommitSubmit
  <2> HIDE DEF new
  <2>4. Grows /\ \A w \in Versions : row'[w] # row[w] => w = v /\ row'[w] = r /\ Alive(v)
    BY <2>2, <2>3, WriteGrows
  <2>5. row'[v] # row[v] => RowHolds(v)' BY <2>2, <2>4 DEF RowHolds, Approved, ReleasedOnce
  <2> QED BY <1>1, <1>3, <2>4, <2>5, CommitSafe
<1>5. CASE CommitReject(s)
  <2> DEFINE new == [old EXCEPT !.status = "DRAFT"]
  <2>1. new \in RowType /\ new.status = "DRAFT" BY DEF RowType, Statuses
  <2>2. PICK r \in RowType : r = new /\ r.status = "DRAFT" BY <2>1
  <2>3. row' = Write(v, r) /\ UNCHANGED keys /\ CastVote(u, v, "rejected")
    BY <1>2, <1>5, <2>2 DEF CommitReject
  <2> HIDE DEF new
  <2>4. \A w \in Versions, x \in Users : votes[w][x] = "approved" => votes'[w][x] = "approved"
    BY <2>3, CastVoteGrows
  <2>5. Grows /\ \A w \in Versions : row'[w] # row[w] => w = v /\ row'[w] = r /\ Alive(v)
    BY <2>2, <2>3, <2>4, WriteGrows
  <2>6. row'[v] # row[v] => RowHolds(v)' BY <2>2, <2>5 DEF RowHolds, Approved, ReleasedOnce
  <2> QED BY <1>1, <1>3, <2>5, <2>6, CommitSafe
<1>6. CASE CommitApprove(s)
  <2>1. u \in Reviewers \ {old.author}
    BY <1>1, <1>2, <1>6 DEF Safe, SnapshotHolds, CommitApprove, Finish
  <2> DEFINE new == [old EXCEPT !.status = "APPROVED", !.approvedBy = u]
  <2>2. new \in RowType /\ new.status = "APPROVED" /\ new.approvedBy = u /\ new.author = old.author
    BY <2>1 DEF RowType, Statuses
  <2>3. PICK r \in RowType : /\ r = new /\ r.status = "APPROVED"
                             /\ r.approvedBy = u /\ r.author = old.author
    BY <2>2
  <2>4. UNCHANGED keys /\ CastVote(u, v, "approved") /\ (row' = Write(v, r) \/ row' = row)
    BY <1>2, <1>6, <2>3 DEF CommitApprove
  <2> HIDE DEF new
  <2>5. votes'[v][u] = "approved" BY <2>1, <2>4 DEF CastVote, Safe, TypeInv, TypeOK
  <2>6. \A w \in Versions, x \in Users : votes[w][x] = "approved" => votes'[w][x] = "approved"
    BY <2>4, CastVoteGrows
  <2>7. Grows /\ \A w \in Versions : row'[w] # row[w] => w = v /\ row'[w] = r
    <3>1. CASE row' = Write(v, r) BY <2>3, <2>4, <2>6, <3>1, WriteGrows
    <3>2. CASE row' = row BY <2>4, <2>6, <3>2 DEF Grows, Alive
    <3> QED BY <2>4, <3>1, <3>2
  <2>8. row'[v] # row[v] => RowHolds(v)'
    BY <2>1, <2>3, <2>5, <2>7 DEF RowHolds, Approved, ReleasedOnce, Vouched
  <2> QED BY <1>1, <1>3, <2>7, <2>8, CommitSafe
<1> QED BY <1>4, <1>5, <1>6

LEMMA CommitReleaseSafe ==
  ASSUME Safe, NEW s \in Sessions, CommitPublish(s) \/ CommitDeprecate(s)
  PROVE  Safe'
<1>1. session[s].step # "idle" /\ session' = [session EXCEPT ![s] = Idle]
  BY DEF CommitPublish, CommitDeprecate, Finish
<1>2. PICK v \in Versions, old \in RowType : v = session[s].version /\ old = session[s].row
  BY <1>1, SessionTypes DEF Safe
<1>3. TypeInv' BY CommitReleaseTypes DEF Safe
<1>4. Alive(v) => Vouched(old, v)
  BY <1>1, <1>2 DEF Safe, SnapshotHolds, CommitPublish, CommitDeprecate, Finish
<1>5. CASE CommitPublish(s)
  <2>1. /\ session[s].actor \in Reviewers \ {old.author}
        /\ session[s].key \in keys /\ Valid(session[s].body)
    BY <1>1, <1>2, <1>5 DEF Safe, SnapshotHolds, CommitPublish, Finish
  <2>2. PICK r \in RowType : r = Released(session[s])
    BY <1>1, ReleasedTypes DEF Safe
  <2>3. /\ r.status = "PUBLISHED" /\ r.approvedBy = old.approvedBy /\ r.author = old.author
        /\ r.publishedBy = session[s].actor /\ r.publishedAt = session[s].at
        /\ r.signature = [hash |-> Hash(session[s].body, session[s].at), key |-> session[s].key]
    <3> DEFINE signature == [hash |-> Hash(session[s].body, session[s].at), key |-> session[s].key]
    <3>1. r = [old EXCEPT !.status = "PUBLISHED", !.publishedAt = session[s].at,
                          !.publishedBy = session[s].actor, !.signature = signature]
      BY <1>2, <2>2 DEF Released
    <3> HIDE DEF signature
    <3>2. /\ r.status = "PUBLISHED" /\ r.approvedBy = old.approvedBy /\ r.author = old.author
          /\ r.publishedBy = session[s].actor /\ r.publishedAt = session[s].at
          /\ r.signature = signature
      BY <3>1 DEF RowType
    <3> QED BY <3>2 DEF signature
  <2>4. row' = Write(v, r) /\ UNCHANGED <<votes, keys>> BY <1>2, <1>5, <2>2 DEF CommitPublish
  <2>5. Grows /\ \A w \in Versions : row'[w] # row[w] => w = v /\ row'[w] = r /\ Alive(v)
    BY <2>3, <2>4, WriteGrows
  <2>6. PutOut(r) BY <2>1, <2>3 DEF PutOut
  <2>7. Sealed(r) BY <2>1, <2>3 DEF Sealed, Hash
  <2>8. row'[v] # row[v] => RowHolds(v)'
    BY <1>4, <2>3, <2>4, <2>5, <2>6, <2>7 DEF RowHolds, Vouched, PutOut, Sealed
  <2> QED BY <1>1, <1>3, <2>5, <2>8, CommitSafe
<1>6. CASE CommitDeprecate(s)
  <2>1. PutOut(old) /\ Sealed(old)
    BY <1>1, <1>2, <1>6 DEF Safe, SnapshotHolds, CommitDeprecate, Finish
  <2> DEFINE new == [old EXCEPT !.status = "DEPRECATED"]
  <2>2. /\ new \in RowType /\ new.status = "DEPRECATED"
        /\ new.approvedBy = old.approvedBy /\ new.author = old.author
        /\ new.publishedBy = old.publishedBy /\ new.publishedAt = old.publishedAt
        /\ new.signature = old.signature
    BY DEF RowType, Statuses
  <2>3. PICK r \in RowType :
          /\ r = new /\ r.status = "DEPRECATED"
          /\ r.approvedBy = old.approvedBy /\ r.author = old.author
          /\ r.publishedBy = old.publishedBy /\ r.publishedAt = old.publishedAt
          /\ r.signature = old.signature
    BY <2>2
  <2>4. row' = Write(v, r) /\ UNCHANGED <<votes, keys>> BY <1>2, <1>6, <2>3 DEF CommitDeprecate
  <2> HIDE DEF new
  <2>5. Grows /\ \A w \in Versions : row'[w] # row[w] => w = v /\ row'[w] = r /\ Alive(v)
    BY <2>3, <2>4, WriteGrows
  <2>6. row'[v] # row[v] => RowHolds(v)'
    BY <1>4, <2>1, <2>3, <2>4, <2>5 DEF RowHolds, Vouched, PutOut, Sealed
  <2> QED BY <1>1, <1>3, <2>5, <2>6, CommitSafe
<1> QED BY <1>5, <1>6

LEMMA CommitContentSafe ==
  ASSUME Safe, NEW s \in Sessions,
         \/ CommitAudit(s)
         \/ \E c \in Codes, text \in Texts : CommitAdd(s, c, text)
         \/ \E C \in SUBSET Codes : CommitDelete(s, C)
  PROVE  Safe'
<1>1. /\ session[s].step # "idle" /\ session' = [session EXCEPT ![s] = Idle]
      /\ UNCHANGED <<row, votes, keys>>
  BY DEF CommitAudit, CommitAdd, CommitDelete, Finish
<1>2. PICK v \in Versions : v = session[s].version BY <1>1, SessionTypes DEF Safe
<1>3. TypeInv' BY CommitContentTypes DEF Safe
<1>4. Grows BY <1>1, TablesGrow
<1> QED BY <1>1, <1>3, <1>4, CommitSafe

\* A step that moves no session and writes no row but proper ones.
LEMMA QuietSafe ==
  ASSUME Safe, TypeInv', UNCHANGED session, Grows,
         \A v \in Versions : row'[v] # row[v] => RowHolds(v)'
  PROVE  Safe'
<1>1. ASSUME NEW v \in Versions PROVE RowHolds(v)'
  <2>1. RowHolds(v) BY DEF Safe
  <2>2. CASE row'[v] = row[v] BY <2>1, <2>2, RowKept
  <2>3. CASE row'[v] # row[v] BY <2>3
  <2> QED BY <2>2, <2>3
<1>2. ASSUME NEW s \in Sessions PROVE SnapshotHolds(s)' BY SnapshotKept DEF Safe
<1> QED BY <1>1, <1>2 DEF Safe

LEMMA OpenDraftSafe ==
  ASSUME Safe, TypeInv', NEW u \in Users, NEW v \in Versions, NEW body, OpenDraft(u, v, body)
  PROVE  Safe'
<1>1. row[v].status = "ABSENT" /\ UNCHANGED <<votes, keys, session>> BY DEF OpenDraft
<1>2. row'[v].status = "DRAFT" /\ \A w \in Versions : w # v => row'[w] = row[w]
  BY DEF OpenDraft, Safe, TypeInv, TypeOK, Blank
<1>3. Grows BY <1>1, <1>2 DEF Grows, Alive
<1>4. RowHolds(v)' BY <1>2 DEF RowHolds, Approved, ReleasedOnce
<1> QED BY <1>1, <1>2, <1>3, <1>4, QuietSafe

LEMMA AdministerSafe ==
  ASSUME Safe, NEW u \in Users, Administer(u)
  PROVE  Safe'
<1>1. TypeInv' BY AdministerTypes DEF Safe
<1>2. ASSUME NEW f \in Frameworks, DeleteFramework(u, f)
      PROVE  Safe'
  <2>1. UNCHANGED <<keys, session>> BY <1>2 DEF DeleteFramework
  <2>2. \A v \in Versions :
          \/ row'[v] = row[v] /\ votes'[v] = votes[v]
          \/ row[v].status # "ABSENT" /\ row'[v].status = "DELETED"
    BY <1>2 DEF DeleteFramework, Alive, Blank
  <2>3. Grows BY <2>1, <2>2 DEF Grows, Alive
  <2>4. \A v \in Versions : row'[v] # row[v] => RowHolds(v)'
    BY <2>2 DEF RowHolds, Approved, ReleasedOnce
  <2> QED BY <1>1, <2>1, <2>3, <2>4, QuietSafe
<1>3. ASSUME NEW k \in Keys, GenerateSigningKey(u, k)
      PROVE  Safe'
  <2>1. Grows /\ UNCHANGED <<row, session>> BY <1>3, TablesGrow DEF GenerateSigningKey
  <2> QED BY <1>1, <2>1, QuietSafe
<1> QED BY <1>2, <1>3 DEF Administer

LEMMA StepSafe == Safe /\ [Next]_vars => Safe'
<1> SUFFICES ASSUME Safe, [Next]_vars PROVE Safe' OBVIOUS
<1>1. TypeInv' BY StepTypes DEF Safe
<1>2. ASSUME NEW s \in Sessions, Begin(s) PROVE Safe' BY <1>2, BeginSafe
<1>3. ASSUME NEW s \in Sessions, AssembleForSubmit(s) \/ AssembleForPublish(s) PROVE Safe'
  BY <1>3, AssembleSafe
<1>4. ASSUME NEW s \in Sessions, Commit(s) PROVE Safe'
  BY <1>4, CommitReviewSafe, CommitReleaseSafe, CommitContentSafe DEF Commit
<1>5. ASSUME NEW s \in Sessions, Abort(s) PROVE Safe'
  <2>1. session' = [session EXCEPT ![s] = Idle] /\ UNCHANGED <<row, votes, keys>>
          /\ session[s].step # "idle"
    BY <1>5 DEF Abort
  <2>2. Grows BY <2>1, TablesGrow
  <2>3. session[s].version \in Versions BY <2>1, SessionTypes DEF Safe
  <2> QED BY <1>1, <2>1, <2>2, <2>3, CommitSafe
<1>6. ASSUME NEW u \in Users, Author(u) PROVE Safe'
  BY <1>1, <1>6, OpenDraftSafe DEF Author, CreateFramework, ImportFrameworkDoc, AcceptNextVersion
<1>7. ASSUME NEW u \in Users, Administer(u) PROVE Safe' BY <1>7, AdministerSafe
<1>8. ASSUME NEW v \in Versions, NEW status \in AuditStatuses, SetQATemplateStatus(v, status)
      PROVE  Safe'
  <2>1. UNCHANGED <<row, votes, keys, session>> BY <1>8 DEF SetQATemplateStatus
  <2> QED BY <1>1, <2>1, TablesGrow, QuietSafe
<1>9. CASE UNCHANGED vars
  <2>1. UNCHANGED <<row, votes, keys, session>> BY <1>9 DEF vars
  <2> QED BY <1>1, <2>1, TablesGrow, QuietSafe
<1> QED BY <1>2, <1>3, <1>4, <1>5, <1>6, <1>7, <1>8, <1>9 DEF Next

\* However requests overlap, nothing gets past review on its author's word and
\* nothing is released by its author (ErrSeparationOfDuties).
THEOREM SeparationOfDuties == Spec => []ReleasedWasReviewed
<1>1. Init => Safe BY InitSafe
<1>2. Safe /\ [Next]_vars => Safe' BY StepSafe
<1>3. Safe => ReleasedWasReviewed BY DEF Safe, ReleasedWasReviewed, RowHolds
<1> QED BY <1>1, <1>2, <1>3, PTL DEF Spec

\* However requests overlap and keys are rotated, whatever was released carries
\* a signature by a key that is served, over content and over the publication
\* time its row shows.
THEOREM ReleasesAreSigned == Spec => []ReleasedIsSigned
<1>1. Init => Safe BY InitSafe
<1>2. Safe /\ [Next]_vars => Safe' BY StepSafe
<1>3. Safe => ReleasedIsSigned BY DEF Safe, ReleasedIsSigned, RowHolds
<1> QED BY <1>1, <1>2, <1>3, PTL DEF Spec

\* A request's stale snapshot of a row is never worse than the row itself: what
\* it would write back is vouched for and signed.
THEOREM SnapshotsAreSafe == Spec => []SnapshotsHold
<1>1. Init => Safe BY InitSafe
<1>2. Safe /\ [Next]_vars => Safe' BY StepSafe
<1>3. Safe => SnapshotsHold BY DEF Safe, SnapshotsHold
<1> QED BY <1>1, <1>2, <1>3, PTL DEF Spec

-----------------------------------------------------------------------------
(* What the feed tells *)

\* The state of the feed while it grows by the events es.
Extended(es) ==
  LET n == Len(feed) IN
  /\ n \in Nat /\ DOMAIN feed = 1..n
  /\ Len(feed') = n + Len(es) /\ DOMAIN feed' = 1..(n + Len(es))
  /\ \A i \in 1..n : feed'[i] = feed[i]
  /\ \A k \in 1..Len(es) : feed'[n + k] = es[k]

LEMMA FeedExtended ==
  ASSUME TypeInv, NEW es, es \in Seq(EventType), feed' = feed \o es
  PROVE  Extended(es)
<1>1. feed \in Seq(EventType) BY DEF TypeInv, TypeOK
<1>2. /\ Len(feed) \in Nat /\ DOMAIN feed = 1..Len(feed)
      /\ Len(feed') = Len(feed) + Len(es) /\ DOMAIN feed' = 1..(Len(feed) + Len(es))
  BY <1>1
<1>3. \A i \in 1..Len(feed) : feed'[i] = feed[i] BY <1>1
<1>4. \A k \in 1..Len(es) : feed'[Len(feed) + k] = es[k] BY <1>1
<1> QED BY <1>2, <1>3, <1>4 DEF Extended

\* Nothing that was announced is taken back.
FeedKept == \A i \in DOMAIN feed : i \in DOMAIN feed' /\ feed'[i] = feed[i]

\* No event, or one about an audit: nothing new about the life of any version.
LEMMA AuditEvents ==
  ASSUME TypeInv, NEW v \in Versions, NEW status, AnnounceAudit(v, status)
  PROVE  /\ FeedKept
         /\ \A i \in DOMAIN feed' : i \in DOMAIN feed \/ feed'[i].kind = "qa_published"
         /\ \A w : Announcements(w)' = Announcements(w)
<1>1. CASE feed' = feed BY <1>1 DEF Announcements, FeedKept
<1>2. CASE feed' # feed
  <2> PICK e : e = Event("qa_published", v, row[v].signature.hash) OBVIOUS
  <2>1. feed' = feed \o <<e>> BY <1>2 DEF AnnounceAudit, Emit
  <2>2. e.kind = "qa_published" /\ e \in EventType
    BY DEF Event, EventType, EventKinds, TypeInv, TypeOK, RowType
  <2>3. Extended(<<e>>)
    <3>1. <<e>> \in Seq(EventType) BY <2>2
    <3> QED BY <2>1, <3>1, FeedExtended
  <2>4. feed'[Len(feed) + 1].kind = "qa_published" BY <2>2, <2>3 DEF Extended
  <2>5. DOMAIN feed' = DOMAIN feed \union {Len(feed) + 1} BY <2>3 DEF Extended
  <2>6. FeedKept BY <2>3 DEF Extended, FeedKept
  <2> QED BY <2>4, <2>5, <2>6 DEF Announcements, FeedKept
<1> QED BY <1>1, <1>2

\* One lifecycle event, with an event about the audit after it or not: the
\* lifecycle event has the place n.
OneLifeEvent(e, n) ==
  /\ n \in Nat /\ (\A i \in DOMAIN feed : i \in Nat /\ i < n)
  /\ n \in DOMAIN feed' /\ feed'[n] = e
  /\ \A i \in DOMAIN feed' : i \in DOMAIN feed \/ i = n \/ feed'[i].kind = "qa_published"
  /\ Announcements(e.version)' = Announcements(e.version) \union {n}
  /\ \A w : w # e.version => Announcements(w)' = Announcements(w)

LEMMA LifeEvent ==
  ASSUME TypeInv, NEW e \in EventType, NEW q \in EventType, e.kind # "qa_published",
         q.kind = "qa_published", feed' = feed \o <<e>> \/ feed' = feed \o <<e, q>>
  PROVE  FeedKept /\ OneLifeEvent(e, Len(feed) + 1)
<1> PICK n : n = Len(feed) + 1 OBVIOUS
<1>1. /\ n \in Nat /\ (\A i \in DOMAIN feed : i \in Nat /\ i < n /\ feed'[i] = feed[i])
      /\ n \in DOMAIN feed' /\ feed'[n] = e
      /\ \A i \in DOMAIN feed' : i \in DOMAIN feed \/ i = n \/ feed'[i].kind = "qa_published"
      /\ \A i \in DOMAIN feed : i \in DOMAIN feed'
  <2>1. CASE feed' = feed \o <<e>>
    <3>1. <<e>> \in Seq(EventType) OBVIOUS
    <3>2. Extended(<<e>>) BY <2>1, <3>1, FeedExtended
    <3> QED BY <3>2 DEF Extended
  <2>2. CASE feed' = feed \o <<e, q>>
    <3>1. <<e, q>> \in Seq(EventType) OBVIOUS
    <3>2. Extended(<<e, q>>) BY <2>2, <3>1, FeedExtended
    <3> QED BY <3>2 DEF Extended
  <2> QED BY <2>1, <2>2
<1>2. Announcements(e.version)' = Announcements(e.version) \union {n} BY <1>1 DEF Announcements
<1>3. \A w : w # e.version => Announcements(w)' = Announcements(w) BY <1>1 DEF Announcements
<1> QED BY <1>1, <1>2, <1>3 DEF FeedKept, OneLifeEvent

RowTold(v) ==
  ReleasedOnce(v) =>
    \E last \in Announcements(v) :
      /\ \A i \in Announcements(v) : i <= last
      /\ feed[last].kind = IF row[v].status = "PUBLISHED" THEN "published" ELSE "deprecated"
      /\ feed[last].hash = row[v].signature.hash
Truthful == TypeInv /\ \A v \in Versions : RowTold(v)

LEMMA ToldKept ==
  ASSUME NEW v \in Versions, RowTold(v), row'[v] = row[v], Announcements(v)' = Announcements(v),
         FeedKept
  PROVE  RowTold(v)'
<1> SUFFICES ASSUME ReleasedOnce(v)' PROVE RowTold(v)' BY DEF RowTold
<1>1. PICK last \in Announcements(v) :
        /\ \A i \in Announcements(v) : i <= last
        /\ feed[last].kind = IF row[v].status = "PUBLISHED" THEN "published" ELSE "deprecated"
        /\ feed[last].hash = row[v].signature.hash
  BY DEF RowTold, ReleasedOnce
<1>2. feed'[last] = feed[last] BY <1>1 DEF Announcements, FeedKept
<1> QED BY <1>1, <1>2 DEF RowTold

\* A step that leaves the feed as it is, and releases nothing.
LEMMA QuietTold ==
  ASSUME Truthful, feed' = feed,
         \A v \in Versions : row'[v] = row[v] \/ ~ReleasedOnce(v)'
  PROVE  \A v \in Versions : RowTold(v)'
<1> SUFFICES ASSUME NEW v \in Versions PROVE RowTold(v)' OBVIOUS
<1>1. CASE row'[v] = row[v] BY <1>1, ToldKept DEF Truthful, Announcements, FeedKept
<1>2. CASE ~ReleasedOnce(v)' BY <1>2 DEF RowTold
<1> QED BY <1>1, <1>2

\* Of a row that is written, the lifecycle event written with it is the last.
LEMMA WrittenTold ==
  ASSUME Truthful, NEW v \in Versions, NEW r \in RowType, row' = Write(v, r),
         NEW e \in EventType, NEW q \in EventType, q.kind = "qa_published",
         feed' = feed \o <<e>> \/ feed' = feed \o <<e, q>>,
         e.version = v, e.hash = r.signature.hash,
         \/ r.status = "PUBLISHED" /\ e.kind = "published"
         \/ r.status = "DEPRECATED" /\ e.kind = "deprecated"
  PROVE  \A w \in Versions : RowTold(w)'
<1> PICK n : n = Len(feed) + 1 OBVIOUS
<1>1. FeedKept /\ OneLifeEvent(e, n)
  <2>1. TypeInv /\ e.kind # "qa_published" BY DEF Truthful
  <2> QED BY <2>1, LifeEvent
<1>2. row \in [Versions -> RowType] BY DEF Truthful, TypeInv, TypeOK
<1> SUFFICES ASSUME NEW w \in Versions PROVE RowTold(w)' OBVIOUS
<1>3. CASE w # v
  <2>1. row'[w] = row[w] BY <1>2, <1>3 DEF Write
  <2>2. Announcements(w)' = Announcements(w) BY <1>1, <1>3 DEF OneLifeEvent
  <2> QED BY <1>1, <2>1, <2>2, ToldKept DEF Truthful
<1>4. CASE w = v /\ ~Alive(v)
  <2>1. row'[v] = row[v] BY <1>4 DEF Write
  <2> QED BY <1>4, <2>1 DEF RowTold, ReleasedOnce, Alive
<1>5. CASE w = v /\ Alive(v)
  <2>1. row'[v] = r BY <1>2, <1>5 DEF Write
  <2>2. \A i \in Announcements(v)' : i <= n
    <3>1. \A i \in Announcements(v) : i \in Nat /\ i < n BY <1>1 DEF OneLifeEvent, Announcements
    <3> QED BY <1>1, <3>1 DEF OneLifeEvent
  <2> QED BY <1>1, <1>5, <2>1, <2>2 DEF RowTold, OneLifeEvent
<1> QED BY <1>3, <1>4, <1>5

\* A request overwrites a row with its own copy under another status.
LEMMA StatusChange ==
  ASSUME NEW r \in RowType, NEW status \in Statuses
  PROVE  /\ [r EXCEPT !.status = status] \in RowType
         /\ [r EXCEPT !.status = status].status = status
         /\ [r EXCEPT !.status = status].signature = r.signature
  BY DEF RowType

LEMMA CommitTold ==
  ASSUME Truthful, NEW s \in Sessions, Commit(s)
  PROVE  \A w \in Versions : RowTold(w)'
<1>1. session[s].step # "idle"
  BY DEF Commit, CommitSubmit, CommitApprove, CommitReject, CommitPublish, CommitDeprecate,
         CommitAudit, CommitAdd, CommitDelete, Finish
<1>2. PICK v \in Versions, old \in RowType : v = session[s].version /\ old = session[s].row
  BY <1>1, SessionTypes DEF Truthful
<1>3. row \in [Versions -> RowType] BY DEF Truthful, TypeInv, TypeOK
<1>4. ASSUME NEW r \in RowType, row' = Write(v, r), feed' = feed, r.status \notin {"PUBLISHED", "DEPRECATED"}
      PROVE  \A w \in Versions : RowTold(w)'
  <2>1. \A w \in Versions : row'[w] = row[w] \/ row'[w] = r BY <1>3, <1>4 DEF Write
  <2> QED BY <1>4, <2>1, QuietTold DEF ReleasedOnce
<1>5. CASE CommitSubmit(s)
  <2>1. PICK r \in RowType : r = [old EXCEPT !.status = "IN_REVIEW"] /\ r.status = "IN_REVIEW"
    <3>1. "IN_REVIEW" \in Statuses BY DEF Statuses
    <3> QED BY <3>1, StatusChange
  <2> QED BY <1>2, <1>4, <1>5, <2>1 DEF CommitSubmit
<1>6. CASE CommitReject(s)
  <2>1. PICK r \in RowType : r = [old EXCEPT !.status = "DRAFT"] /\ r.status = "DRAFT"
    <3>1. "DRAFT" \in Statuses BY DEF Statuses
    <3> QED BY <3>1, StatusChange
  <2> QED BY <1>2, <1>4, <1>6, <2>1 DEF CommitReject
<1>7. CASE CommitApprove(s)
  <2>1. session[s].actor \in Users \union {NoUser} BY <1>1, SessionTypes DEF Truthful
  <2>2. PICK r \in RowType : /\ r = [old EXCEPT !.status = "APPROVED", !.approvedBy = session[s].actor]
                             /\ r.status = "APPROVED"
    <3>1. [old EXCEPT !.status = "APPROVED", !.approvedBy = session[s].actor] \in RowType
      BY <2>1 DEF RowType, Statuses
    <3>2. [old EXCEPT !.status = "APPROVED", !.approvedBy = session[s].actor].status = "APPROVED"
      BY DEF RowType
    <3> QED BY <3>1, <3>2
  <2>3. feed' = feed /\ (row' = Write(v, r) \/ row' = row) BY <1>2, <1>7, <2>2 DEF CommitApprove
  <2> QED BY <1>4, <2>2, <2>3, QuietTold
<1>8. CASE CommitPublish(s)
  <2>1. PICK r \in RowType : r = Released(session[s])
    BY <1>1, ReleasedTypes DEF Truthful
  <2>2. r.status = "PUBLISHED"
    <3>1. r.status = Released(session[s]).status BY <2>1
    <3> QED BY <1>2, <3>1 DEF Released, RowType
  <2>3. r.signature.hash \in HashType BY DEF RowType
  <2> PICK e : e = Event("published", v, r.signature.hash) OBVIOUS
  <2> PICK q : q = Event("qa_published", v, r.signature.hash) OBVIOUS
  <2>4. /\ e \in EventType /\ e.kind = "published" /\ e.version = v /\ e.hash = r.signature.hash
        /\ q \in EventType /\ q.kind = "qa_published"
    BY <2>3 DEF Event, EventType, EventKinds
  <2>5. row' = Write(v, r) /\ (feed' = feed \o <<e>> \/ feed' = feed \o <<e, q>>)
    BY <1>2, <1>8, <2>1, PublishEvents
  <2> QED BY <2>2, <2>4, <2>5, WrittenTold
<1>9. CASE CommitDeprecate(s)
  <2>1. PICK r \in RowType : /\ r = [old EXCEPT !.status = "DEPRECATED"] /\ r.status = "DEPRECATED"
                             /\ r.signature = old.signature
    <3>1. "DEPRECATED" \in Statuses BY DEF Statuses
    <3> QED BY <3>1, StatusChange
  <2>2. r.signature.hash \in HashType BY DEF RowType
  <2> PICK e : e = Event("deprecated", v, r.signature.hash) OBVIOUS
  <2> PICK q : q = Event("qa_published", v, r.signature.hash) OBVIOUS
  <2>3. /\ e \in EventType /\ e.kind = "deprecated" /\ e.version = v /\ e.hash = r.signature.hash
        /\ q \in EventType /\ q.kind = "qa_published"
    BY <2>2 DEF Event, EventType, EventKinds
  <2>4. row' = Write(v, r) /\ feed' = feed \o <<e>>
    BY <1>2, <1>9, <2>1 DEF CommitDeprecate, Emit
  <2>5. r.status = "DEPRECATED" /\ e \in EventType /\ e.kind = "deprecated" BY <2>1, <2>3
  <2>6. q \in EventType /\ q.kind = "qa_published" /\ e.version = v /\ e.hash = r.signature.hash
    BY <2>3
  <2> QED BY <2>4, <2>5, <2>6, WrittenTold
<1>10. CASE CommitAudit(s)
  <2>1. PICK status : AnnounceAudit(v, status) /\ row' = row BY <1>2, <1>10 DEF CommitAudit
  <2> QED BY <2>1, AuditEvents, ToldKept DEF Truthful
<1>11. CASE \/ \E c \in Codes, text \in Texts : CommitAdd(s, c, text)
            \/ \E C \in SUBSET Codes : CommitDelete(s, C)
  BY <1>11, QuietTold DEF CommitAdd, CommitDelete
<1> QED BY <1>5, <1>6, <1>7, <1>8, <1>9, <1>10, <1>11 DEF Commit

LEMMA StepTold == Truthful /\ [Next]_vars => Truthful'
<1> SUFFICES ASSUME Truthful, [Next]_vars PROVE Truthful' OBVIOUS
<1>1. TypeInv' BY StepTypes DEF Truthful
<1> SUFFICES \A v \in Versions : RowTold(v)' BY <1>1 DEF Truthful
<1>2. ASSUME NEW s \in Sessions,
             Begin(s) \/ AssembleForSubmit(s) \/ AssembleForPublish(s) \/ Abort(s)
      PROVE  \A v \in Versions : RowTold(v)'
  <2>1. UNCHANGED <<row, feed>>
    BY <1>2 DEF Begin, BeginSubmit, BeginDeprecate, BeginEdit, BeginApprove, BeginReject,
                BeginPublish, BeginAudit, Load, AssembleForSubmit, AssembleForPublish, Abort
  <2> QED BY <2>1, QuietTold
<1>3. ASSUME NEW s \in Sessions, Commit(s) PROVE \A v \in Versions : RowTold(v)'
  BY <1>3, CommitTold
<1>4. ASSUME NEW u \in Users, Author(u) PROVE \A v \in Versions : RowTold(v)'
  <2> PICK v \in Versions : \E body : OpenDraft(u, v, body)
    BY <1>4 DEF Author, CreateFramework, ImportFrameworkDoc, AcceptNextVersion
  <2>1. PICK body : OpenDraft(u, v, body) OBVIOUS
  <2>2. row'[v].status = "DRAFT" /\ (\A w \in Versions : w # v => row'[w] = row[w]) /\ feed' = feed
    BY <2>1 DEF OpenDraft, Truthful, TypeInv, TypeOK, Blank
  <2> QED BY <2>2, QuietTold DEF ReleasedOnce
<1>5. ASSUME NEW u \in Users, Administer(u) PROVE \A v \in Versions : RowTold(v)'
  <2>1. ASSUME NEW f \in Frameworks, DeleteFramework(u, f) PROVE \A v \in Versions : RowTold(v)'
    <3>1. feed' = feed /\ \A v \in Versions : row'[v] = row[v] \/ row'[v].status = "DELETED"
      BY <2>1 DEF DeleteFramework, Blank
    <3> QED BY <3>1, QuietTold DEF ReleasedOnce
  <2>2. ASSUME NEW k \in Keys, GenerateSigningKey(u, k) PROVE \A v \in Versions : RowTold(v)'
    BY <2>2, QuietTold DEF GenerateSigningKey
  <2> QED BY <1>5, <2>1, <2>2 DEF Administer
<1>6. ASSUME NEW v \in Versions, NEW status \in AuditStatuses, SetQATemplateStatus(v, status)
      PROVE  \A w \in Versions : RowTold(w)'
  <2>1. AnnounceAudit(v, status) /\ row' = row BY <1>6 DEF SetQATemplateStatus
  <2> QED BY <2>1, AuditEvents, ToldKept DEF Truthful
<1>7. CASE UNCHANGED vars BY <1>7, QuietTold DEF vars
<1> QED BY <1>2, <1>3, <1>4, <1>5, <1>6, <1>7 DEF Next

\* However requests overlap, the last lifecycle event of a version says what its
\* row says, with the hash of its row (emitDistributionEvent): a consumer that
\* read the feed to its end knows of every release and every withdrawal.
THEOREM FeedTellsOfRows == Spec => []FeedMatchesRow
<1>1. Init => Truthful
  BY InitTypes DEF Init, Truthful, RowTold, ReleasedOnce, Blank
<1>2. Truthful /\ [Next]_vars => Truthful' BY StepTold
<1>3. Truthful => FeedMatchesRow BY DEF Truthful, FeedMatchesRow, RowTold
<1> QED BY <1>1, <1>2, <1>3, PTL DEF Spec

-----------------------------------------------------------------------------
(* Requests that do not overlap *)

Serial == \A s, t \in Sessions : s = t

OpenStatuses == {"ABSENT", "DRAFT", "IN_REVIEW", "APPROVED"}

\* A request under way sees the tables as they are, and a publish under way has
\* a later time than everything that was published.
SeesTables(s) == LET t == session[s]  v == t.version IN
  t.step # "idle" =>
    /\ v \in Versions /\ Alive(v) /\ t.row = row[v]
    /\ t.op \in {"submit", "edit"} => row[v].status = "DRAFT"
    /\ t.op \in {"approve", "reject"} => row[v].status = "IN_REVIEW"
    /\ t.op = "publish" =>
         /\ row[v].status = "APPROVED" /\ t.at = clock
         /\ \A i \in DOMAIN feed : feed[i].kind = "published" => feed[i].hash.at < t.at
         /\ t.step = "assembled" => t.body = content[v] /\ Valid(t.body)
    /\ t.op = "deprecate" => row[v].status = "PUBLISHED"

Unannounced(v) == row[v].status \in OpenStatuses => Announcements(v) = {}
AsReviewed(v) == row[v].status = "APPROVED" => reviewed[v] = content[v]
AsReleased(v) ==
  row[v].status = "PUBLISHED" =>
    /\ row[v].signature.hash = Hash(content[v], row[v].publishedAt)
    /\ reviewed[v] = content[v]
    /\ \E i \in DOMAIN feed : /\ Announcements(v) = {i}
                              /\ feed[i] = Event("published", v, row[v].signature.hash)
AsWithdrawn(v) == row[v].status = "DEPRECATED" => row[v].signature.hash.body = reviewed[v]
RowKnown(v) == Unannounced(v) /\ AsReviewed(v) /\ AsReleased(v) /\ AsWithdrawn(v)

AuditTold(v) ==
  row[v].status = "PUBLISHED" /\ qa[v] = "ready" =>
    \E i, j \in DOMAIN feed :
      /\ i < j
      /\ feed[i] = Event("published", v, row[v].signature.hash)
      /\ feed[j] = Event("qa_published", v, row[v].signature.hash)

Releases == {i \in DOMAIN feed : feed[i].kind = "published"}
InTimeOrder ==
  /\ \A i \in Releases : feed[i].hash.at <= clock
  /\ \A i, j \in Releases : i < j => feed[i].hash.at < feed[j].hash.at

Orderly ==
  /\ TypeInv
  /\ \A s \in Sessions : SeesTables(s)
  /\ \A v \in Versions : RowKnown(v) /\ AuditTold(v)
  /\ InTimeOrder

\* What consumers hear of a step: nothing, a release, or a withdrawal.
SamePhase(v) ==
  \/ row'[v].status = row[v].status
  \/ row[v].status \in OpenStatuses /\ row'[v].status \in OpenStatuses
Unheard ==
  /\ FeedKept
  /\ \A i \in DOMAIN feed' : i \in DOMAIN feed \/ feed'[i].kind = "qa_published"
  /\ \A v \in Versions : SamePhase(v)
ReleaseHeard ==
  \E v \in Versions, e \in EventType, n \in Nat :
    /\ FeedKept /\ OneLifeEvent(e, n)
    /\ e = Event("published", v, row'[v].signature.hash) /\ Valid(e.hash.body)
    /\ row[v].status = "APPROVED" /\ row'[v].status = "PUBLISHED"
    /\ \A w \in Versions : w # v => row'[w] = row[w]
WithdrawalHeard ==
  \E v \in Versions, e \in EventType, n \in Nat :
    /\ FeedKept /\ OneLifeEvent(e, n)
    /\ e = Event("deprecated", v, row[v].signature.hash)
    /\ row[v].status = "PUBLISHED" /\ row'[v].status = "DEPRECATED"
    /\ \A w \in Versions : w # v => row'[w] = row[w]
StepHeard ==
  \/ Unheard \/ ReleaseHeard \/ WithdrawalHeard
  \/ \E u \in Users, f \in Frameworks : DeleteFramework(u, f)

LEMMA KnownKept ==
  ASSUME NEW v \in Versions, RowKnown(v), row'[v] = row[v], content'[v] = content[v],
         reviewed'[v] = reviewed[v], Announcements(v)' = Announcements(v), FeedKept
  PROVE  RowKnown(v)'
<1>1. Unannounced(v)' BY DEF RowKnown, Unannounced
<1>2. AsReviewed(v)' BY DEF RowKnown, AsReviewed
<1>3. AsReleased(v)' BY DEF RowKnown, AsReleased, FeedKept
<1>4. AsWithdrawn(v)' BY DEF RowKnown, AsWithdrawn
<1> QED BY <1>1, <1>2, <1>3, <1>4 DEF RowKnown

LEMMA AuditToldKept ==
  ASSUME NEW v \in Versions, AuditTold(v), row'[v] = row[v],
         qa'[v] = qa[v] \/ qa'[v] # "ready", FeedKept
  PROVE  AuditTold(v)'
  BY DEF AuditTold, FeedKept

LEMMA TimeTypes ==
  ASSUME TypeInv
  PROVE  /\ clock \in Nat
         /\ \A i \in DOMAIN feed : i \in Nat /\ feed[i] \in EventType /\ feed[i].hash.at \in Nat
<1>1. clock \in Nat BY DEF TypeInv, TypeOK
<1>2. \A i \in DOMAIN feed : i \in Nat /\ feed[i] \in EventType BY DEF TypeInv, TypeOK
<1>3. \A e \in EventType : e.hash.at \in Nat BY DEF EventType, HashType
<1> QED BY <1>1, <1>2, <1>3

\* Nothing is released: the clock may go on.
LEMMA TimeKept ==
  ASSUME TypeInv, InTimeOrder, FeedKept, clock' = clock \/ clock' = clock + 1,
         \A i \in DOMAIN feed' : i \in DOMAIN feed \/ feed'[i].kind # "published"
  PROVE  InTimeOrder'
<1>1. Releases' = Releases BY DEF Releases, FeedKept
<1>2. \A i \in Releases : feed'[i] = feed[i] BY DEF Releases, FeedKept
<1>3. \A i \in Releases : feed[i].hash.at <= clock' BY TimeTypes DEF InTimeOrder, Releases
<1> QED BY <1>1, <1>2, <1>3 DEF InTimeOrder

\* With one session, no other is under way when this one ends or another request
\* is one step.
LEMMA NobodyLeft ==
  ASSUME Serial, TypeInv,
         \/ \E s \in Sessions : session' = [session EXCEPT ![s] = Idle]
         \/ SomeIdle /\ session' = session
  PROVE  \A s \in Sessions : SeesTables(s)'
<1>1. \A s \in Sessions : session'[s].step = "idle"
  BY ConstantTypes DEF Serial, SomeIdle, TypeInv, TypeOK
<1> QED BY <1>1 DEF SeesTables

\* A step that touches neither rows nor their content nor the feed.
LEMMA TablesKept ==
  ASSUME Orderly, UNCHANGED <<row, content, reviewed, feed>>,
         \A v \in Versions : qa'[v] = qa[v] \/ qa'[v] # "ready"
  PROVE  \A v \in Versions : RowKnown(v)' /\ AuditTold(v)'
<1>1. FeedKept /\ \A v : Announcements(v)' = Announcements(v) BY DEF FeedKept, Announcements
<1> QED BY <1>1, KnownKept, AuditToldKept DEF Orderly

LEMMA SilentUnheard ==
  ASSUME UNCHANGED <<row, feed>>
  PROVE  Unheard
  BY DEF Unheard, FeedKept, SamePhase

LEMMA QuietTime ==
  ASSUME Orderly, feed' = feed, clock' = clock \/ clock' = clock + 1
  PROVE  InTimeOrder'
<1>1. FeedKept BY DEF FeedKept
<1> QED BY <1>1, TimeKept DEF Orderly

\* A request that begins reads its row under the guards of its operation.
LEMMA LoadOrderly ==
  ASSUME Serial, Orderly, NEW s \in Sessions, NEW v \in Versions, Alive(v),
         NEW t \in SessionType, session' = [session EXCEPT ![s] = t],
         t.step = "loaded", t.version = v, t.row = row[v],
         t.op \in {"submit", "edit"} => row[v].status = "DRAFT",
         t.op \in {"approve", "reject"} => row[v].status = "IN_REVIEW",
         t.op = "deprecate" => row[v].status = "PUBLISHED",
         t.op = "publish" => row[v].status = "APPROVED" /\ clock' = clock + 1 /\ t.at = clock + 1,
         clock' = clock \/ clock' = clock + 1,
         UNCHANGED <<row, content, qa, feed, reviewed>>, TypeInv'
  PROVE  Orderly'
<1>1. \A w \in Versions : RowKnown(w)' /\ AuditTold(w)' BY TablesKept
<1>2. InTimeOrder' BY QuietTime
<1>3. session'[s] = t /\ \A r \in Sessions : r = s BY DEF Serial, Orderly, TypeInv, TypeOK
<1>4. SeesTables(s)'
  <2>1. Alive(v)' /\ row'[v] = row[v] BY DEF Alive
  <2>2. CASE t.op = "publish"
    <3>1. \A i \in DOMAIN feed : feed[i].kind = "published" => feed[i].hash.at <= clock
      BY DEF Orderly, InTimeOrder, Releases
    <3>2. TypeInv BY DEF Orderly
    <3>3. \A i \in DOMAIN feed : feed[i].kind = "published" => feed[i].hash.at < t.at
      BY <2>2, <3>1, <3>2, TimeTypes
    <3>4. t.at = clock' BY <2>2
    <3> QED BY <1>3, <2>1, <2>2, <3>3, <3>4 DEF SeesTables
  <2>3. CASE t.op # "publish" BY <1>3, <2>1, <2>3 DEF SeesTables
  <2> QED BY <2>2, <2>3
<1> QED BY <1>1, <1>2, <1>3, <1>4 DEF Orderly

LEMMA BeginOrderly ==
  ASSUME Serial, Orderly, NEW s \in Sessions, Begin(s), TypeInv'
  PROVE  Orderly'
<1>1. PICK v \in Versions :
      \/ BeginSubmit(s, v) \/ BeginDeprecate(s, v) \/ BeginEdit(s, v)
      \/ \E u \in Users : BeginApprove(s, u, v) \/ BeginReject(s, u, v) \/ BeginPublish(s, u, v)
      \/ \E status \in {"draft", "ready"} : BeginAudit(s, v, status)
  BY DEF Begin
<1>2. PICK t : t = session'[s] OBVIOUS
<1>3. TypeInv BY DEF Orderly
<1>4. ASSUME NEW op, NEW u, Load(s, op, u, v), op # "publish", Alive(v),
             op \in {"submit", "edit"} => row[v].status = "DRAFT",
             op \in {"approve", "reject"} => row[v].status = "IN_REVIEW",
             op = "deprecate" => row[v].status = "PUBLISHED"
      PROVE  Orderly'
  <2>1. /\ session' = [session EXCEPT ![s] = t] /\ t \in SessionType
        /\ t.step = "loaded" /\ t.op = op /\ t.version = v /\ t.row = row[v]
    BY <1>2, <1>3, <1>4 DEF Load, Idle, TypeInv, TypeOK
  <2>2. UNCHANGED <<row, content, qa, feed, reviewed, clock>> BY <1>4 DEF Load
  <2> QED BY <1>4, <2>1, <2>2, LoadOrderly
<1>5. CASE BeginSubmit(s, v) \/ BeginDeprecate(s, v) \/ BeginEdit(s, v)
  BY <1>4, <1>5 DEF BeginSubmit, BeginDeprecate, BeginEdit, Alive
<1>6. ASSUME NEW u \in Users, BeginApprove(s, u, v) \/ BeginReject(s, u, v) PROVE Orderly'
  BY <1>4, <1>6 DEF BeginApprove, BeginReject, Alive
<1>7. ASSUME NEW u \in Users, BeginPublish(s, u, v) PROVE Orderly'
  <2>1. /\ session' = [session EXCEPT ![s] = t] /\ t \in SessionType
        /\ t.step = "loaded" /\ t.op = "publish" /\ t.version = v /\ t.row = row[v] /\ t.at = clock + 1
    BY <1>2, <1>3, <1>7 DEF BeginPublish, Idle, TypeInv, TypeOK
  <2>2. UNCHANGED <<row, content, qa, feed, reviewed>> /\ clock' = clock + 1 BY <1>7 DEF BeginPublish
  <2>3. row[v].status = "APPROVED" /\ Alive(v) BY <1>7 DEF BeginPublish, Alive
  <2> QED BY <2>1, <2>2, <2>3, LoadOrderly
<1>8. ASSUME NEW status \in {"draft", "ready"}, BeginAudit(s, v, status) PROVE Orderly'
  <2>1. /\ session' = [session EXCEPT ![s] = t] /\ t \in SessionType
        /\ t.step = "loaded" /\ t.op = "audit" /\ t.version = v /\ t.row = row[v]
    BY <1>2, <1>3, <1>8 DEF BeginAudit, Idle, TypeInv, TypeOK
  <2>2. UNCHANGED <<row, content, qa, feed, reviewed, clock>> /\ Alive(v) BY <1>8 DEF BeginAudit
  <2> QED BY <2>1, <2>2, LoadOrderly
<1> QED BY <1>1, <1>5, <1>6, <1>7, <1>8

LEMMA AssembleOrderly ==
  ASSUME Serial, Orderly, NEW s \in Sessions, AssembleForSubmit(s) \/ AssembleForPublish(s), TypeInv'
  PROVE  Orderly'
<1>1. \A v \in Versions : RowKnown(v)' /\ AuditTold(v)'
  BY TablesKept DEF AssembleForSubmit, AssembleForPublish
<1>2. InTimeOrder' BY QuietTime DEF AssembleForSubmit, AssembleForPublish
<1>3. TypeInv /\ SeesTables(s) BY DEF Orderly
<1>4. session[s].step # "idle" BY DEF AssembleForSubmit, AssembleForPublish
<1>5. session[s] \in SessionType BY <1>3, <1>4, SessionTypes
<1> PICK t : t = session'[s] OBVIOUS
<1>6. SeesTables(s)'
  <2>1. UNCHANGED <<row, content, feed, clock>> BY DEF AssembleForSubmit, AssembleForPublish
  <2>2. CASE AssembleForSubmit(s)
    <3>1. /\ t.op = "submit" /\ t.version = session[s].version /\ t.row = session[s].row
      BY <1>3, <1>5, <2>2 DEF AssembleForSubmit, TypeInv, TypeOK, SessionType
    <3>2. session[s].op = "submit" BY <2>2 DEF AssembleForSubmit
    <3> QED BY <1>3, <1>4, <2>1, <3>1, <3>2 DEF SeesTables, Alive
  <2>3. CASE AssembleForPublish(s)
    <3>1. /\ t.op = "publish" /\ t.version = session[s].version /\ t.row = session[s].row
          /\ t.at = session[s].at /\ t.body = content[t.version]
      BY <1>3, <1>5, <2>3 DEF AssembleForPublish, TypeInv, TypeOK, SessionType
    <3>2. session[s].op = "publish" /\ Valid(content[session[s].version])
      BY <2>3 DEF AssembleForPublish
    <3>3. Valid(t.body) BY <3>1, <3>2
    <3> QED BY <1>3, <1>4, <2>1, <3>1, <3>2, <3>3 DEF SeesTables, Alive
  <2> QED BY <2>2, <2>3
<1> QED BY <1>1, <1>2, <1>6 DEF Orderly, Serial

\* A version that is not released yet, or again.
LEMMA OpenKnown ==
  ASSUME NEW v \in Versions, row'[v].status \in OpenStatuses, Announcements(v)' = {},
         row'[v].status = "APPROVED" => reviewed'[v] = content'[v]
  PROVE  RowKnown(v)' /\ AuditTold(v)'
  BY DEF RowKnown, Unannounced, AsReviewed, AsReleased, AsWithdrawn, AuditTold, OpenStatuses

\* A step that ends a request, or is one, and touches the row of v only, which is
\* not released before and after it.
LEMMA OpenRowOrderly ==
  ASSUME Serial, Orderly, TypeInv', NEW v \in Versions, feed' = feed,
         clock' = clock \/ clock' = clock + 1,
         \/ \E s \in Sessions : session' = [session EXCEPT ![s] = Idle]
         \/ SomeIdle /\ session' = session,
         \A w \in Versions : w # v => /\ row'[w] = row[w] /\ content'[w] = content[w]
                                     /\ reviewed'[w] = reviewed[w] /\ qa'[w] = qa[w],
         row[v].status \in OpenStatuses, row'[v].status \in OpenStatuses,
         row'[v].status = "APPROVED" => reviewed'[v] = content'[v]
  PROVE  Orderly' /\ Unheard
<1>1. \A s \in Sessions : SeesTables(s)' BY NobodyLeft DEF Orderly
<1>2. InTimeOrder' BY QuietTime
<1>3. FeedKept /\ \A w : Announcements(w)' = Announcements(w) BY DEF FeedKept, Announcements
<1>4. ASSUME NEW w \in Versions, w # v PROVE RowKnown(w)' /\ AuditTold(w)'
  BY <1>3, <1>4, KnownKept, AuditToldKept DEF Orderly
<1>5. RowKnown(v)' /\ AuditTold(v)'
  <2>1. Announcements(v)' = {} BY <1>3 DEF Orderly, RowKnown, Unannounced
  <2> QED BY <2>1, OpenKnown
<1>6. Unheard
  <2>1. \A w \in Versions : SamePhase(w) BY DEF SamePhase
  <2> QED BY <1>3, <2>1 DEF Unheard
<1> QED BY <1>1, <1>2, <1>4, <1>5, <1>6 DEF Orderly

LEMMA CommitReviewOrderly ==
  ASSUME Serial, Orderly, NEW s \in Sessions, TypeInv',
         CommitSubmit(s) \/ CommitApprove(s) \/ CommitReject(s)
  PROVE  Orderly' /\ Unheard
<1> PICK v : v = session[s].version OBVIOUS
<1>1. /\ session[s].step # "idle" /\ session' = [session EXCEPT ![s] = Idle]
      /\ UNCHANGED <<content, qa, feed, clock>>
  BY DEF CommitSubmit, CommitApprove, CommitReject, Finish
<1>2. TypeInv /\ SeesTables(s) BY DEF Orderly
<1>3. v \in Versions /\ Alive(v) /\ session[s].row = row[v] BY <1>1, <1>2 DEF SeesTables
<1>4. row \in [Versions -> RowType] /\ reviewed \in [Versions -> Bodies] BY <1>2 DEF TypeInv, TypeOK
<1>5. CASE CommitSubmit(s) \/ CommitReject(s)
  <2>1. row[v].status \in {"DRAFT", "IN_REVIEW"}
    BY <1>1, <1>2, <1>5 DEF SeesTables, CommitSubmit, CommitReject, Finish
  <2>2. row' = [row EXCEPT ![v].status = "IN_REVIEW"] \/ row' = [row EXCEPT ![v].status = "DRAFT"]
    BY <1>3, <1>4, <1>5 DEF CommitSubmit, CommitReject, Write
  <2>3. row'[v].status \in {"DRAFT", "IN_REVIEW"} /\ \A w \in Versions : w # v => row'[w] = row[w]
    BY <1>3, <1>4, <2>2 DEF RowType
  <2>4. reviewed' = reviewed BY <1>5 DEF CommitSubmit, CommitReject
  <2>5. row[v].status \in OpenStatuses /\ row'[v].status \in OpenStatuses /\ row'[v].status # "APPROVED"
    BY <2>1, <2>3 DEF OpenStatuses
  <2> QED BY <1>1, <1>3, <2>3, <2>4, <2>5, OpenRowOrderly
<1>6. CASE CommitApprove(s)
  <2>1. row[v].status = "IN_REVIEW" BY <1>1, <1>2, <1>6 DEF SeesTables, CommitApprove, Finish
  <2>2. CASE UNCHANGED <<row, reviewed>>
    <3>1. row[v].status \in OpenStatuses /\ row'[v].status \in OpenStatuses /\ row'[v].status # "APPROVED"
      BY <2>1, <2>2 DEF OpenStatuses
    <3> QED BY <1>1, <1>3, <2>2, <3>1, OpenRowOrderly
  <2>3. CASE ~UNCHANGED <<row, reviewed>>
    <3>1. /\ row' = [row EXCEPT ![v] = [row[v] EXCEPT !.status = "APPROVED",
                                                      !.approvedBy = session[s].actor]]
          /\ reviewed' = [reviewed EXCEPT ![v] = content[v]]
      BY <1>3, <1>6, <2>3 DEF CommitApprove, Write
    <3>2. row'[v].status = "APPROVED" BY <1>3, <1>4, <3>1 DEF RowType
    <3>3. reviewed'[v] = content'[v] BY <1>1, <1>3, <1>4, <3>1
    <3>4. \A w \in Versions : w # v => row'[w] = row[w] /\ reviewed'[w] = reviewed[w]
      BY <1>4, <3>1
    <3>5. row[v].status \in OpenStatuses /\ row'[v].status \in OpenStatuses
      BY <2>1, <3>2 DEF OpenStatuses
    <3> QED BY <1>1, <1>3, <3>3, <3>4, <3>5, OpenRowOrderly
  <2> QED BY <2>2, <2>3
<1> QED BY <1>5, <1>6

LEMMA CommitEditOrderly ==
  ASSUME Serial, Orderly, NEW s \in Sessions, TypeInv',
         \/ \E c \in Codes, text \in Texts : CommitAdd(s, c, text)
         \/ \E C \in SUBSET Codes : CommitDelete(s, C)
  PROVE  Orderly' /\ Unheard
<1> PICK v : v = session[s].version OBVIOUS
<1>1. /\ session[s].step # "idle" /\ session[s].op = "edit" /\ session' = [session EXCEPT ![s] = Idle]
      /\ UNCHANGED <<row, qa, feed, clock, reviewed>>
  BY DEF CommitAdd, CommitDelete, Finish
<1>2. TypeInv /\ SeesTables(s) BY DEF Orderly
<1>3. v \in Versions /\ row[v].status = "DRAFT" BY <1>1, <1>2 DEF SeesTables
<1>4. \A w \in Versions : w # v => content'[w] = content[w]
  BY <1>2 DEF CommitAdd, CommitDelete, TypeInv, TypeOK
<1>5. row[v].status \in OpenStatuses /\ row'[v].status \in OpenStatuses /\ row'[v].status # "APPROVED"
  BY <1>1, <1>3 DEF OpenStatuses
<1> QED BY <1>1, <1>3, <1>4, <1>5, OpenRowOrderly

LEMMA AuthorOrderly ==
  ASSUME Serial, Orderly, NEW u \in Users, TypeInv', Author(u)
  PROVE  Orderly' /\ Unheard
<1> PICK v \in Versions : SomeIdle /\ \E body : OpenDraft(u, v, body)
  BY DEF Author, CreateFramework, ImportFrameworkDoc, AcceptNextVersion
<1>1. PICK body : OpenDraft(u, v, body) OBVIOUS
<1>2. TypeInv BY DEF Orderly
<1>3. /\ row[v].status = "ABSENT" /\ row'[v].status = "DRAFT"
      /\ \A w \in Versions : w # v => row'[w] = row[w] /\ content'[w] = content[w]
  BY <1>1, <1>2 DEF OpenDraft, TypeInv, TypeOK, Blank
<1>4. UNCHANGED <<qa, feed, session, reviewed>> /\ clock' = clock + 1 BY <1>1 DEF OpenDraft
<1>5. row[v].status \in OpenStatuses /\ row'[v].status \in OpenStatuses /\ row'[v].status # "APPROVED"
  BY <1>3 DEF OpenStatuses
<1> QED BY <1>3, <1>4, <1>5, OpenRowOrderly

LEMMA AdministerOrderly ==
  ASSUME Serial, Orderly, NEW u \in Users, TypeInv', Administer(u)
  PROVE  Orderly' /\ StepHeard
<1>1. ASSUME NEW f \in Frameworks, DeleteFramework(u, f) PROVE Orderly' /\ StepHeard
  <2>1. SomeIdle /\ UNCHANGED <<session, feed, clock>> BY <1>1 DEF DeleteFramework
  <2>2. \A s \in Sessions : SeesTables(s)' BY <2>1, NobodyLeft DEF Orderly
  <2>3. InTimeOrder' BY <2>1, QuietTime
  <2>4. FeedKept /\ \A v : Announcements(v)' = Announcements(v) BY <2>1 DEF FeedKept, Announcements
  <2>5. ASSUME NEW v \in Versions PROVE RowKnown(v)' /\ AuditTold(v)'
    <3>1. CASE FrameworkOf[v] = f /\ Alive(v)
      <4>1. row'[v].status = "DELETED" BY <1>1, <3>1 DEF DeleteFramework, Blank
      <4> QED BY <4>1 DEF RowKnown, Unannounced, AsReviewed, AsReleased, AsWithdrawn, AuditTold,
                         OpenStatuses
    <3>2. CASE ~(FrameworkOf[v] = f /\ Alive(v))
      <4>1. row'[v] = row[v] /\ content'[v] = content[v] /\ reviewed'[v] = reviewed[v] /\ qa'[v] = qa[v]
        BY <1>1, <3>2 DEF DeleteFramework
      <4> QED BY <2>4, <4>1, KnownKept, AuditToldKept DEF Orderly
    <3> QED BY <3>1, <3>2
  <2>6. StepHeard BY <1>1 DEF StepHeard
  <2> QED BY <2>2, <2>3, <2>5, <2>6 DEF Orderly
<1>2. ASSUME NEW k \in Keys, GenerateSigningKey(u, k) PROVE Orderly' /\ StepHeard
  <2>1. SomeIdle /\ UNCHANGED <<row, content, qa, feed, clock, session, reviewed>>
    BY <1>2 DEF GenerateSigningKey
  <2>2. StepHeard BY <2>1, SilentUnheard DEF StepHeard
  <2> QED BY <2>1, <2>2, NobodyLeft, TablesKept, QuietTime DEF Orderly
<1> QED BY <1>1, <1>2 DEF Administer

LEMMA CommitPublishOrderly ==
  ASSUME Serial, Orderly, NEW s \in Sessions, TypeInv', CommitPublish(s)
  PROVE  Orderly' /\ ReleaseHeard
<1> PICK v, r : v = session[s].version /\ r = Released(session[s]) OBVIOUS
<1>1. /\ session[s].step = "assembled" /\ session[s].op = "publish"
      /\ session' = [session EXCEPT ![s] = Idle] /\ UNCHANGED <<content, reviewed, clock>>
  BY DEF CommitPublish, Finish
<1>2. TypeInv /\ SeesTables(s) BY DEF Orderly
<1>3. /\ v \in Versions /\ Alive(v) /\ session[s].row = row[v] /\ row[v].status = "APPROVED"
      /\ session[s].at = clock /\ session[s].body = content[v]
      /\ \A i \in DOMAIN feed : feed[i].kind = "published" => feed[i].hash.at < clock
  BY <1>1, <1>2 DEF SeesTables
<1>4. /\ r \in RowType /\ r.status = "PUBLISHED" /\ r.publishedAt = clock
      /\ r.signature.hash = Hash(content[v], clock)
  <2>1. r \in RowType BY <1>1, <1>2, ReleasedTypes
  <2>2. row[v] \in RowType BY <1>2, <1>3 DEF TypeInv, TypeOK
  <2> QED BY <1>3, <2>1, <2>2 DEF Released, RowType
<1>5. row'[v] = r /\ \A w \in Versions : w # v => row'[w] = row[w]
  BY <1>2, <1>3 DEF CommitPublish, Write, TypeInv, TypeOK
<1>6. PICK e \in EventType, q \in EventType :
        /\ e = Event("published", v, r.signature.hash) /\ e.kind = "published" /\ e.version = v
        /\ e.hash = r.signature.hash
        /\ q = Event("qa_published", v, r.signature.hash) /\ q.kind = "qa_published"
  <2>1. r.signature.hash \in HashType BY <1>4 DEF RowType
  <2>2. /\ Event("published", v, r.signature.hash) \in EventType
        /\ Event("qa_published", v, r.signature.hash) \in EventType
    BY <1>3, <2>1 DEF Event, EventType, EventKinds
  <2> QED BY <2>2 DEF Event
<1>7. feed' = feed \o IF qa[v] = "none" THEN <<e>> ELSE <<e, q>>
  <2>1. feed' = feed \o IF qa[v] = "none" THEN <<Event("published", v, r.signature.hash)>>
                        ELSE <<Event("published", v, r.signature.hash),
                               Event("qa_published", v, r.signature.hash)>>
    BY PublishEvents, Zenon
  <2> QED BY <1>6, <2>1, Zenon
<1> PICK n : n = Len(feed) + 1 OBVIOUS
<1>8. FeedKept /\ OneLifeEvent(e, n) BY <1>2, <1>6, <1>7, LifeEvent
<1>9. \A w \in Versions : w # v => qa'[w] = qa[w] BY <1>2 DEF CommitPublish, TypeInv, TypeOK
<1>10. ASSUME NEW w \in Versions, w # v PROVE RowKnown(w)' /\ AuditTold(w)'
  <2>1. Announcements(w)' = Announcements(w) BY <1>6, <1>8, <1>10 DEF OneLifeEvent
  <2> QED BY <1>1, <1>5, <1>8, <1>9, <1>10, <2>1, KnownKept, AuditToldKept DEF Orderly
<1>11. RowKnown(v)'
  <2>1. Announcements(v) = {} BY <1>3 DEF Orderly, RowKnown, Unannounced, OpenStatuses
  <2>2. Announcements(v)' = {n} /\ n \in DOMAIN feed' /\ feed'[n] = e
    BY <1>6, <1>8, <2>1 DEF OneLifeEvent
  <2>3. reviewed'[v] = content'[v] BY <1>1, <1>3 DEF Orderly, RowKnown, AsReviewed
  <2>4. AsReleased(v)' BY <1>1, <1>4, <1>5, <1>6, <2>2, <2>3 DEF AsReleased
  <2> QED BY <1>4, <1>5, <2>4 DEF RowKnown, Unannounced, AsReviewed, AsWithdrawn, OpenStatuses
<1>12. AuditTold(v)'
  <2> SUFFICES ASSUME qa'[v] = "ready" PROVE AuditTold(v)' BY DEF AuditTold
  <2>1. qa[v] # "none" BY DEF CommitPublish
  <2>2. <<e, q>> \in Seq(EventType) BY <1>6
  <2>3. Extended(<<e, q>>) BY <1>2, <1>7, <2>1, <2>2, FeedExtended
  <2>4. /\ n \in DOMAIN feed' /\ n + 1 \in DOMAIN feed' /\ n < n + 1
        /\ feed'[n] = e /\ feed'[n + 1] = q
    BY <2>3 DEF Extended
  <2> QED BY <1>5, <1>6, <2>4 DEF AuditTold
<1>13. InTimeOrder'
  <2>1. Releases' = Releases \union {n} /\ \A i \in Releases : feed'[i] = feed[i] /\ i \in Nat /\ i < n
    BY <1>6, <1>8 DEF Releases, OneLifeEvent, FeedKept
  <2>2. n \in Nat /\ feed'[n].hash.at = clock BY <1>4, <1>6, <1>8 DEF OneLifeEvent, Hash
  <2>3. \A i \in Releases : feed'[i].hash.at < clock BY <1>3, <2>1 DEF Releases
  <2>4. clock \in Nat /\ clock' = clock BY <1>1, <1>2, TimeTypes
  <2>5. \A i \in Releases' : feed'[i].hash.at <= clock'
    <3>1. \A i \in Releases : feed[i].hash.at <= clock BY DEF Orderly, InTimeOrder
    <3> QED BY <2>1, <2>2, <2>4, <3>1
  <2>6. ASSUME NEW i \in Releases', NEW j \in Releases', i < j
        PROVE  feed'[i].hash.at < feed'[j].hash.at
    <3>1. i \in Releases BY <2>1, <2>2, <2>6
    <3>2. CASE j \in Releases BY <2>1, <2>6, <3>1, <3>2 DEF Orderly, InTimeOrder
    <3>3. CASE j = n BY <2>2, <2>3, <3>1, <3>3
    <3> QED BY <2>1, <3>2, <3>3
  <2> QED BY <2>5, <2>6 DEF InTimeOrder
<1>14. \A t \in Sessions : SeesTables(t)' BY <1>1, <1>2, NobodyLeft
<1>15. ReleaseHeard
  <2>1. Valid(e.hash.body)
    <3>1. Valid(session[s].body) BY <1>1, <1>2 DEF SeesTables
    <3>2. e.hash.body = session[s].body BY <1>3, <1>4, <1>6 DEF Hash
    <3> QED BY <3>1, <3>2
  <2>2. n \in Nat BY <1>8 DEF OneLifeEvent
  <2> QED BY <1>3, <1>4, <1>5, <1>6, <1>8, <2>1, <2>2 DEF ReleaseHeard
<1> QED BY <1>10, <1>11, <1>12, <1>13, <1>14, <1>15 DEF Orderly

LEMMA CommitDeprecateOrderly ==
  ASSUME Serial, Orderly, NEW s \in Sessions, TypeInv', CommitDeprecate(s)
  PROVE  Orderly' /\ WithdrawalHeard
<1> PICK v : v = session[s].version OBVIOUS
<1>1. /\ session[s].step = "loaded" /\ session[s].op = "deprecate"
      /\ session' = [session EXCEPT ![s] = Idle] /\ UNCHANGED <<content, qa, reviewed, clock>>
  BY DEF CommitDeprecate, Finish
<1>2. TypeInv /\ SeesTables(s) BY DEF Orderly
<1>3. v \in Versions /\ Alive(v) /\ session[s].row = row[v] /\ row[v].status = "PUBLISHED"
  BY <1>1, <1>2 DEF SeesTables
<1> PICK r : r = [row[v] EXCEPT !.status = "DEPRECATED"] OBVIOUS
<1>4. r.status = "DEPRECATED" /\ r.signature = row[v].signature /\ row[v].signature.hash \in HashType
  BY <1>2, <1>3 DEF TypeInv, TypeOK, RowType
<1>5. row'[v] = r /\ \A w \in Versions : w # v => row'[w] = row[w]
  BY <1>2, <1>3 DEF CommitDeprecate, Write, TypeInv, TypeOK
<1>6. PICK e \in EventType, q \in EventType :
        /\ e = Event("deprecated", v, row[v].signature.hash) /\ e.kind = "deprecated" /\ e.version = v
        /\ q.kind = "qa_published"
  <2>1. /\ Event("deprecated", v, row[v].signature.hash) \in EventType
        /\ Event("qa_published", v, row[v].signature.hash) \in EventType
    BY <1>3, <1>4 DEF Event, EventType, EventKinds
  <2> QED BY <2>1 DEF Event
<1>7. feed' = feed \o <<e>> BY <1>3, <1>6 DEF CommitDeprecate, Emit
<1> PICK n : n = Len(feed) + 1 BY Zenon
<1>8. FeedKept /\ OneLifeEvent(e, n) BY <1>2, <1>6, <1>7, LifeEvent
<1>9. ASSUME NEW w \in Versions, w # v PROVE RowKnown(w)' /\ AuditTold(w)'
  <2>1. Announcements(w)' = Announcements(w) BY <1>6, <1>8, <1>9 DEF OneLifeEvent
  <2> QED BY <1>1, <1>5, <1>8, <1>9, <2>1, KnownKept, AuditToldKept, Zenon DEF Orderly
<1>10. RowKnown(v)' /\ AuditTold(v)'
  <2>1. row[v].signature.hash = Hash(content[v], row[v].publishedAt) /\ reviewed[v] = content[v]
    BY <1>3 DEF Orderly, RowKnown, AsReleased
  <2>2. row[v].signature.hash.body = reviewed[v] BY <2>1 DEF Hash
  <2>3. AsWithdrawn(v)' BY <1>1, <1>4, <1>5, <2>2 DEF AsWithdrawn
  <2> QED BY <1>4, <1>5, <2>3 DEF RowKnown, Unannounced, AsReviewed, AsReleased, AuditTold, OpenStatuses
<1>11. InTimeOrder'
  <2>1. \A i \in DOMAIN feed' : i \in DOMAIN feed \/ feed'[i].kind # "published"
    BY <1>6, <1>8 DEF OneLifeEvent
  <2> QED BY <1>1, <1>2, <1>8, <2>1, TimeKept, Zenon DEF Orderly
<1>12. \A t \in Sessions : SeesTables(t)' BY <1>1, <1>2, NobodyLeft
<1>13. WithdrawalHeard
  <2>1. n \in Nat BY <1>8 DEF OneLifeEvent
  <2> QED BY <1>3, <1>4, <1>5, <1>6, <1>8, <2>1, ZenonT(40) DEF WithdrawalHeard
<1> QED BY <1>9, <1>10, <1>11, <1>12, <1>13 DEF Orderly

\* An audit template gets a status, and consumers hear of it if it is due.
LEMMA AuditOrderly ==
  ASSUME Serial, Orderly, TypeInv', NEW v \in Versions, NEW status, AnnounceAudit(v, status),
         qa' = [qa EXCEPT ![v] = status], UNCHANGED <<row, content, clock, reviewed>>,
         \/ \E s \in Sessions : session' = [session EXCEPT ![s] = Idle]
         \/ SomeIdle /\ session' = session
  PROVE  Orderly' /\ Unheard
<1>1. TypeInv BY DEF Orderly
<1>2. FeedKept /\ \A w : Announcements(w)' = Announcements(w) BY <1>1, AuditEvents
<1>3. InTimeOrder'
  <2>1. \A i \in DOMAIN feed' : i \in DOMAIN feed \/ feed'[i].kind # "published"
    BY <1>1, AuditEvents
  <2> QED BY <1>1, <1>2, <2>1, TimeKept DEF Orderly
<1>4. \A t \in Sessions : SeesTables(t)' BY <1>1, NobodyLeft
<1>5. ASSUME NEW w \in Versions PROVE RowKnown(w)'
  BY <1>2, KnownKept DEF Orderly
<1>6. qa'[v] = status /\ \A w \in Versions : w # v => qa'[w] = qa[w] BY <1>1 DEF TypeInv, TypeOK
<1>7. ASSUME NEW w \in Versions, w # v PROVE AuditTold(w)'
  BY <1>2, <1>6, <1>7, AuditToldKept DEF Orderly
<1>8. AuditTold(v)'
  <2> SUFFICES ASSUME row[v].status = "PUBLISHED", status = "ready" PROVE AuditTold(v)'
    BY <1>6 DEF AuditTold
  <2> PICK q : q = Event("qa_published", v, row[v].signature.hash) OBVIOUS
  <2>1. q \in EventType BY <1>1 DEF Event, EventType, EventKinds, TypeInv, TypeOK, RowType
  <2>2. <<q>> \in Seq(EventType) BY <2>1
  <2>3. feed' = feed \o <<q>> BY DEF AnnounceAudit, Emit
  <2>4. Extended(<<q>>) BY <1>1, <2>2, <2>3, FeedExtended
  <2>5. PICK n : /\ n = Len(feed) + 1 /\ n \in DOMAIN feed' /\ feed'[n] = q
                 /\ \A i \in DOMAIN feed : i < n
    BY <2>4 DEF Extended
  <2>6. PICK i \in DOMAIN feed : feed[i] = Event("published", v, row[v].signature.hash)
    BY DEF Orderly, RowKnown, AsReleased
  <2>7. i \in DOMAIN feed' /\ feed'[i] = feed[i] BY <1>2 DEF FeedKept
  <2> QED BY <2>5, <2>6, <2>7 DEF AuditTold
<1>9. Unheard
  <2>1. \A w \in Versions : SamePhase(w) BY DEF SamePhase
  <2> QED BY <1>1, <2>1, AuditEvents DEF Unheard
<1> QED BY <1>3, <1>4, <1>5, <1>7, <1>8, <1>9 DEF Orderly

LEMMA StepOrderly ==
  ASSUME Serial
  PROVE  Orderly /\ [Next]_vars => Orderly' /\ StepHeard
<1> SUFFICES ASSUME Orderly, [Next]_vars PROVE Orderly' /\ StepHeard OBVIOUS
<1>1. TypeInv /\ TypeInv' BY StepTypes DEF Orderly
<1>2. ASSUME NEW s \in Sessions, Begin(s) PROVE Orderly' /\ StepHeard
  <2>1. UNCHANGED <<row, feed>>
    BY <1>2 DEF Begin, BeginSubmit, BeginDeprecate, BeginEdit, BeginApprove, BeginReject,
                BeginPublish, BeginAudit, Load
  <2> QED BY <1>1, <1>2, <2>1, BeginOrderly, SilentUnheard DEF StepHeard
<1>3. ASSUME NEW s \in Sessions, AssembleForSubmit(s) \/ AssembleForPublish(s)
      PROVE  Orderly' /\ StepHeard
  <2>1. UNCHANGED <<row, feed>> BY <1>3 DEF AssembleForSubmit, AssembleForPublish
  <2> QED BY <1>1, <1>3, <2>1, AssembleOrderly, SilentUnheard DEF StepHeard
<1>4. ASSUME NEW s \in Sessions, Commit(s) PROVE Orderly' /\ StepHeard
  <2>1. CASE CommitAudit(s)
    <3>1. PICK v, status : /\ v = session[s].version /\ AnnounceAudit(v, status)
                           /\ qa' = [qa EXCEPT ![v] = status] BY <2>1 DEF CommitAudit
    <3>2. session[s].step # "idle" /\ session' = [session EXCEPT ![s] = Idle]
          /\ UNCHANGED <<row, content, clock, reviewed>>
      BY <2>1 DEF CommitAudit, Finish
    <3>3. v \in Versions BY <1>1, <3>1, <3>2, SessionTypes
    <3> QED BY <1>1, <3>1, <3>2, <3>3, AuditOrderly DEF StepHeard
  <2> QED BY <1>1, <1>4, <2>1, CommitReviewOrderly, CommitPublishOrderly, CommitDeprecateOrderly,
             CommitEditOrderly DEF Commit, StepHeard
<1>5. ASSUME NEW s \in Sessions, Abort(s) PROVE Orderly' /\ StepHeard
  <2>1. session' = [session EXCEPT ![s] = Idle] /\ UNCHANGED <<row, content, qa, feed, clock, reviewed>>
    BY <1>5 DEF Abort
  <2> QED BY <1>1, <2>1, NobodyLeft, TablesKept, QuietTime, SilentUnheard DEF Orderly, StepHeard
<1>6. ASSUME NEW u \in Users, Author(u) PROVE Orderly' /\ StepHeard
  BY <1>1, <1>6, AuthorOrderly DEF StepHeard
<1>7. ASSUME NEW u \in Users, Administer(u) PROVE Orderly' /\ StepHeard
  BY <1>1, <1>7, AdministerOrderly
<1>8. ASSUME NEW v \in Versions, NEW status \in AuditStatuses, SetQATemplateStatus(v, status)
      PROVE  Orderly' /\ StepHeard
  BY <1>1, <1>8, AuditOrderly DEF SetQATemplateStatus, StepHeard
<1>9. CASE UNCHANGED vars
  <2>1. \A s \in Sessions : SeesTables(s)' BY <1>9 DEF vars, Orderly, SeesTables, Alive
  <2> QED BY <1>1, <1>9, <2>1, TablesKept, QuietTime, SilentUnheard DEF Orderly, StepHeard, vars
<1> QED BY <1>2, <1>3, <1>4, <1>5, <1>6, <1>7, <1>8, <1>9 DEF Next

LEMMA InitOrderly == Init => Orderly
<1> SUFFICES ASSUME Init PROVE Orderly OBVIOUS
<1>1. TypeInv BY InitTypes
<1>2. \A s \in Sessions : SeesTables(s) BY ConstantTypes DEF Init, SeesTables
<1>3. feed = <<>> /\ DOMAIN feed = {} BY DEF Init
<1>4. ASSUME NEW v \in Versions PROVE RowKnown(v) /\ AuditTold(v)
  <2>1. row[v].status = "ABSENT" /\ Announcements(v) = {} BY <1>3 DEF Init, Blank, Announcements
  <2> QED BY <2>1 DEF RowKnown, Unannounced, AsReviewed, AsReleased, AsWithdrawn, AuditTold
<1>5. InTimeOrder BY <1>3 DEF InTimeOrder, Releases
<1> QED BY <1>1, <1>2, <1>4, <1>5 DEF Orderly

\* When requests do not overlap, a published version's bundle, rebuilt from the
\* tables at any later time, has the hash that was signed (BuildBundle).
THEOREM ServedBundlesVerify ==
  ASSUME Serial
  PROVE  Spec => []ServedBundleVerifies
<1>1. Init => Orderly BY InitOrderly
<1>2. Orderly /\ [Next]_vars => Orderly' BY StepOrderly
<1>3. Orderly => ServedBundleVerifies BY DEF Orderly, ServedBundleVerifies, RowKnown, AsReleased
<1> QED BY <1>1, <1>2, <1>3, PTL DEF Spec

\* When requests do not overlap, what goes out is what the approver saw: nothing
\* can be changed between approval and release.
THEOREM ReviewedIsPublished ==
  ASSUME Serial
  PROVE  Spec => []ReviewedContentIsPublished
<1>1. Init => Orderly BY InitOrderly
<1>2. Orderly /\ [Next]_vars => Orderly' BY StepOrderly
<1>3. ASSUME Orderly PROVE ReviewedContentIsPublished
  <2> SUFFICES ASSUME NEW v \in Versions, ReleasedOnce(v)
               PROVE  row[v].signature.hash.body = reviewed[v]
    BY DEF ReviewedContentIsPublished
  <2>1. CASE row[v].status = "PUBLISHED"
    <3>1. row[v].signature.hash = Hash(content[v], row[v].publishedAt) /\ reviewed[v] = content[v]
      BY <1>3, <2>1 DEF Orderly, RowKnown, AsReleased
    <3> QED BY <3>1 DEF Hash
  <2>2. CASE row[v].status = "DEPRECATED" BY <1>3, <2>2 DEF Orderly, RowKnown, AsWithdrawn
  <2> QED BY <2>1, <2>2 DEF ReleasedOnce
<1> QED BY <1>1, <1>2, <1>3, PTL DEF Spec

\* When requests do not overlap, consumers were told of every ready audit
\* template of a published version, after its release.
THEOREM ReadyAuditsAreTold ==
  ASSUME Serial
  PROVE  Spec => []ReadyAuditAnnounced
<1>1. Init => Orderly BY InitOrderly
<1>2. Orderly /\ [Next]_vars => Orderly' BY StepOrderly
<1>3. Orderly => ReadyAuditAnnounced BY DEF Orderly, ReadyAuditAnnounced, AuditTold
<1> QED BY <1>1, <1>2, <1>3, PTL DEF Spec

\* What a published version may become in a step.
StaysPublished(v) ==
  row[v].status = "PUBLISHED" =>
    \/ row'[v].status = "DELETED"
    \/ /\ row'[v] \in {row[v], [row[v] EXCEPT !.status = "DEPRECATED"]}
       /\ content'[v] = content[v]

LEMMA CommitKeepsPublished ==
  ASSUME Orderly, NEW s \in Sessions, Commit(s), NEW v \in Versions
  PROVE  StaysPublished(v)
<1> PICK u : u = session[s].version OBVIOUS
<1>1. TypeInv /\ SeesTables(s) BY DEF Orderly
<1>2. session[s].step # "idle"
  BY DEF Commit, CommitSubmit, CommitApprove, CommitReject, CommitPublish, CommitDeprecate,
         CommitAudit, CommitAdd, CommitDelete, Finish
<1>3. u \in Versions /\ Alive(u) /\ session[s].row = row[u] BY <1>1, <1>2 DEF SeesTables
<1>4. row \in [Versions -> RowType] /\ content \in [Versions -> Bodies] BY <1>1 DEF TypeInv, TypeOK
<1>5. CASE CommitSubmit(s) \/ CommitApprove(s) \/ CommitReject(s) \/ CommitPublish(s)
  <2>1. row[u].status # "PUBLISHED"
    BY <1>1, <1>2, <1>5 DEF SeesTables, CommitSubmit, CommitApprove, CommitReject, CommitPublish, Finish
  <2>2. content' = content BY <1>5 DEF CommitSubmit, CommitApprove, CommitReject, CommitPublish
  <2>3. v # u => row'[v] = row[v]
    BY <1>4, <1>5 DEF CommitSubmit, CommitApprove, CommitReject, CommitPublish, Write
  <2> QED BY <2>1, <2>2, <2>3 DEF StaysPublished
<1>6. CASE CommitDeprecate(s)
  <2>1. content' = content /\ row' = [row EXCEPT ![u] = [row[u] EXCEPT !.status = "DEPRECATED"]]
    BY <1>3, <1>6 DEF CommitDeprecate, Write
  <2>2. row'[v] = row[v] \/ row'[v] = [row[v] EXCEPT !.status = "DEPRECATED"] BY <1>3, <1>4, <2>1
  <2> QED BY <2>1, <2>2 DEF StaysPublished
<1>7. CASE CommitAudit(s) BY <1>7 DEF CommitAudit, StaysPublished
<1>8. CASE \/ \E c \in Codes, text \in Texts : CommitAdd(s, c, text)
           \/ \E C \in SUBSET Codes : CommitDelete(s, C)
  <2>1. row' = row BY <1>8 DEF CommitAdd, CommitDelete
  <2>2. row[u].status = "DRAFT" BY <1>1, <1>2, <1>8 DEF SeesTables, CommitAdd, CommitDelete, Finish
  <2>3. v # u => content'[v] = content[v] BY <1>4, <1>8 DEF CommitAdd, CommitDelete
  <2> QED BY <2>1, <2>2, <2>3 DEF StaysPublished
<1> QED BY <1>5, <1>6, <1>7, <1>8 DEF Commit

\* When requests do not overlap, nothing changes the content, the hash or the
\* signature of a published version, which can only be deprecated or deleted with
\* its framework (framework_version.go: "immutable").
THEOREM PublishedIsNotRewritten ==
  ASSUME Serial
  PROVE  Spec => PublishedIsImmutable
<1>1. Init => Orderly BY InitOrderly
<1>2. Orderly /\ [Next]_vars => Orderly' BY StepOrderly
<1>3. ASSUME Orderly, Next PROVE \A v \in Versions : StaysPublished(v)
  <2> SUFFICES ASSUME NEW v \in Versions PROVE StaysPublished(v) OBVIOUS
  <2>1. ASSUME NEW s \in Sessions,
               Begin(s) \/ AssembleForSubmit(s) \/ AssembleForPublish(s) \/ Abort(s)
        PROVE  StaysPublished(v)
    <3>1. UNCHANGED <<row, content>>
      BY <2>1 DEF Begin, BeginSubmit, BeginDeprecate, BeginEdit, BeginApprove, BeginReject,
                  BeginPublish, BeginAudit, Load, AssembleForSubmit, AssembleForPublish, Abort
    <3> QED BY <3>1, Zenon DEF StaysPublished
  <2>2. ASSUME NEW s \in Sessions, Commit(s) PROVE StaysPublished(v)
    BY <1>3, <2>2, CommitKeepsPublished
  <2>3. ASSUME NEW u \in Users, Author(u) PROVE StaysPublished(v)
    <3>1. PICK w \in Versions : \E body : OpenDraft(u, w, body)
      BY <2>3 DEF Author, CreateFramework, ImportFrameworkDoc, AcceptNextVersion
    <3>2. row[w].status = "ABSENT" /\ (v # w => row'[v] = row[v] /\ content'[v] = content[v])
      BY <1>3, <3>1 DEF OpenDraft, Orderly, TypeInv, TypeOK
    <3> QED BY <3>2 DEF StaysPublished
  <2>4. ASSUME NEW u \in Users, Administer(u) PROVE StaysPublished(v)
    <3>1. ASSUME NEW f \in Frameworks, DeleteFramework(u, f) PROVE StaysPublished(v)
      BY <3>1 DEF DeleteFramework, Blank, StaysPublished
    <3>2. ASSUME NEW k \in Keys, GenerateSigningKey(u, k) PROVE StaysPublished(v)
      BY <3>2 DEF GenerateSigningKey, StaysPublished
    <3> QED BY <2>4, <3>1, <3>2 DEF Administer
  <2>5. ASSUME NEW w \in Versions, NEW status \in AuditStatuses, SetQATemplateStatus(w, status)
        PROVE  StaysPublished(v)
    BY <2>5 DEF SetQATemplateStatus, StaysPublished
  <2> QED BY <1>3, <2>1, <2>2, <2>3, <2>4, <2>5 DEF Next
<1>4. Orderly /\ [Next]_vars =>
        [\A v \in Versions :
           row[v].status = "PUBLISHED" =>
             \/ row'[v].status = "DELETED"
             \/ /\ row'[v] \in {row[v], [row[v] EXCEPT !.status = "DEPRECATED"]}
                /\ content'[v] = content[v]]_vars
  BY <1>3 DEF StaysPublished
<1> QED BY <1>1, <1>2, <1>4, PTL DEF Spec, PublishedIsImmutable

\* A set of numbers with a bound has a greatest member: of the members' sets of
\* greater members, which are finite, one has no smaller one.
LEMMA GreatestExists ==
  ASSUME NEW n \in Nat, NEW S \in SUBSET (0..n), S # {}
  PROVE  \E m \in S : \A j \in S : j <= m
<1> DEFINE Above(i) == {j \in S : j > i}
<1> DEFINE T == {Above(i) : i \in S}
<1>1. IsFiniteSet(S)
  <2>1. IsFiniteSet(0..n) BY FS_Interval
  <2> QED BY <2>1, FS_Subset
<1>2. T \subseteq FiniteSubsetsOf(S) /\ T # {}
  <2>1. FiniteSubsetsOf(S) = SUBSET S BY <1>1, FS_FiniteSubsetsOfFinite
  <2>2. \A i \in S : Above(i) \in SUBSET S OBVIOUS
  <2>3. PICK i \in S : TRUE OBVIOUS
  <2>4. Above(i) \in T OBVIOUS
  <2> HIDE DEF Above
  <2> QED BY <2>1, <2>2, <2>4
<1>3. PICK x \in T : \A y \in T : ~(<<y, x>> \in StrictSubsetOrdering(S))
  <2> HIDE DEF T
  <2> QED BY <1>2, FS_StrictSubsetOrderingWellFounded, WFMin
<1>4. PICK m \in S : x = Above(m) OBVIOUS
<1>5. \A i \in S : i \in Int OBVIOUS
<1>6. ASSUME NEW j \in S, j > m PROVE FALSE
  <2>1. Above(j) \in SUBSET S /\ Above(m) \in SUBSET S OBVIOUS
  <2>2. \A k : k \in Above(j) => k \in Above(m) BY <1>5, <1>6
  <2>3. j \in Above(m) /\ j \notin Above(j) BY <1>5, <1>6
  <2>4. Above(j) \in T OBVIOUS
  <2> HIDE DEF Above
  <2>5. <<Above(j), x>> \in StrictSubsetOrdering(S) BY <1>4, <2>1, <2>2, <2>3 DEF StrictSubsetOrdering
  <2> QED BY <1>3, <2>4, <2>5
<1> QED BY <1>5, <1>6

LEMMA LatestIsLast ==
  ASSUME TypeInv, NEW V \in SUBSET Versions, V # {}
  PROVE  /\ LatestPublished(V) \in V
         /\ \A w \in V : row[w].publishedAt <= row[LatestPublished(V)].publishedAt
<1> PICK times : times = {row[v].publishedAt : v \in V} OBVIOUS
<1>1. \A v \in V : row[v].publishedAt \in 0..MaxClock BY DEF TypeInv, TypeOK, RowType
<1>2. times \in SUBSET (0..MaxClock) /\ times # {} BY <1>1
<1>3. PICK m \in times : \A j \in times : j <= m BY <1>2, GreatestExists
<1>4. PICK v \in V : \A w \in V : row[w].publishedAt <= row[v].publishedAt BY <1>3
<1> QED BY <1>4 DEF LatestPublished

\* When requests do not overlap, the version the catalog shows as the latest is
\* the one the feed told of last, among those still published (publishedAt is
\* taken before the event gets its place).
THEOREM LatestIsToldLast ==
  ASSUME Serial
  PROVE  Spec => []LatestAgreesWithFeed
<1>1. Init => Orderly BY InitOrderly
<1>2. Orderly /\ [Next]_vars => Orderly' BY StepOrderly
<1>3. ASSUME Orderly PROVE LatestAgreesWithFeed
  <2> SUFFICES ASSUME NEW f \in Frameworks, NEW live, live = PublishedOf(f), live # {},
                      NEW told, told = {i \in DOMAIN feed : /\ feed[i].kind = "published"
                                                            /\ feed[i].version \in live}
               PROVE  \E last \in told : /\ \A i \in told : i <= last
                                         /\ feed[last].version = LatestPublished(live)
    BY DEF LatestAgreesWithFeed
  <2>1. TypeInv BY <1>3 DEF Orderly
  <2> PICK latest : latest = LatestPublished(live) OBVIOUS
  <2>2. latest \in live /\ \A w \in live : row[w].publishedAt <= row[latest].publishedAt
    BY <2>1, LatestIsLast DEF PublishedOf
  <2>3. ASSUME NEW v \in live
        PROVE  \E i \in DOMAIN feed : /\ Announcements(v) = {i} /\ feed[i].kind = "published"
                                      /\ feed[i].version = v /\ feed[i].hash.at = row[v].publishedAt
    <3>1. v \in Versions /\ row[v].status = "PUBLISHED" BY DEF PublishedOf
    <3>2. row[v].signature.hash.at = row[v].publishedAt
      <4>1. row[v].signature.hash = Hash(content[v], row[v].publishedAt)
        BY <1>3, <3>1 DEF Orderly, RowKnown, AsReleased
      <4> QED BY <4>1 DEF Hash
    <3>3. PICK i \in DOMAIN feed : /\ Announcements(v) = {i}
                                   /\ feed[i] = Event("published", v, row[v].signature.hash)
      BY <1>3, <3>1 DEF Orderly, RowKnown, AsReleased
    <3> QED BY <3>2, <3>3 DEF Event
  <2>4. PICK last \in DOMAIN feed :
          /\ feed[last].kind = "published" /\ feed[last].version = latest
          /\ feed[last].hash.at = row[latest].publishedAt
    BY <2>2, <2>3
  <2>5. ASSUME NEW j \in told PROVE j <= last
    <3>1. feed[j].version \in live /\ j \in DOMAIN feed /\ feed[j].kind = "published" OBVIOUS
    <3>2. j \in Announcements(feed[j].version) BY <3>1 DEF Announcements
    <3>3. feed[j].hash.at = row[feed[j].version].publishedAt BY <2>3, <3>1, <3>2
    <3>4. feed[j].hash.at <= feed[last].hash.at BY <2>2, <2>4, <3>1, <3>3
    <3>5. j \in Nat /\ last \in Nat /\ feed[j].hash.at \in Nat /\ feed[last].hash.at \in Nat
      BY <2>1, <3>1, TimeTypes
    <3>6. last < j => feed[last].hash.at < feed[j].hash.at
      BY <1>3, <2>4, <3>1 DEF Orderly, InTimeOrder, Releases
    <3> QED BY <3>4, <3>5, <3>6
  <2> QED BY <2>2, <2>4, <2>5
<1> QED BY <1>1, <1>2, <1>3, PTL DEF Spec

-----------------------------------------------------------------------------
(* The release register *)

\* The lifecycle events have the ordinals 1, 2, ... in the feed, each its own.
Counted ==
  /\ IsFiniteSet(LifePlaces)
  /\ \A i \in LifePlaces : Ordinal(i) \in 1..Cardinality(LifePlaces)
  /\ \A k \in 1..Cardinality(LifePlaces) : \E i \in LifePlaces : PlacesOf(k) = {i}

LEMMA LogUnheard ==
  ASSUME Counted, FeedKept,
         \A i \in DOMAIN feed' : i \in DOMAIN feed \/ feed'[i].kind = "qa_published"
  PROVE  Counted' /\ LifeLog' = LifeLog /\ \A v : AnnouncedHash(v)' = AnnouncedHash(v)
<1>1. LifePlaces' = LifePlaces BY DEF LifePlaces, FeedKept
<1>2. \A i : Ordinal(i)' = Ordinal(i) BY <1>1 DEF Ordinal
<1>3. \A k : PlacesOf(k)' = PlacesOf(k) BY <1>1, <1>2 DEF PlacesOf
<1>4. Counted' BY <1>1, <1>2, <1>3 DEF Counted
<1>5. \A k \in 1..Cardinality(LifePlaces) : feed'[OnlyOne(PlacesOf(k)')] = feed[OnlyOne(PlacesOf(k))]
  <2> SUFFICES ASSUME NEW k \in 1..Cardinality(LifePlaces)
               PROVE  feed'[OnlyOne(PlacesOf(k))] = feed[OnlyOne(PlacesOf(k))]
    BY <1>3
  <2>1. OnlyOne(PlacesOf(k)) \in LifePlaces BY DEF Counted, OnlyOne
  <2> QED BY <2>1 DEF LifePlaces, FeedKept
<1>6. LifeLog' = LifeLog BY <1>1, <1>5 DEF LifeLog, OnlyOne
<1>7. ASSUME NEW v PROVE AnnouncedHash(v)' = AnnouncedHash(v)
  <2>1. Announcements(v)' = Announcements(v) BY DEF Announcements, FeedKept
  <2>2. \A i \in Announcements(v) : feed'[i] = feed[i] BY DEF Announcements, FeedKept
  <2>3. AnnouncedHashes(v)' = AnnouncedHashes(v) BY <2>1, <2>2 DEF AnnouncedHashes
  <2> QED BY <2>3 DEF AnnouncedHash
<1> QED BY <1>4, <1>6, <1>7

LEMMA LogHeard ==
  ASSUME TypeInv, Counted, NEW e \in EventType, NEW n \in Nat, e.kind # "qa_published",
         FeedKept, OneLifeEvent(e, n)
  PROVE  Counted' /\ LifeLog' = Append(LifeLog, e)
<1> PICK N : N = Cardinality(LifePlaces) OBVIOUS
<1>1. N \in Nat BY FS_CardinalityType DEF Counted
<1>2. LifePlaces' = LifePlaces \union {n} /\ n \notin LifePlaces
      /\ \A i \in LifePlaces : i \in Nat /\ i < n /\ feed'[i] = feed[i]
  BY DEF LifePlaces, FeedKept, OneLifeEvent
<1>3. IsFiniteSet(LifePlaces') /\ Cardinality(LifePlaces') = N + 1
  BY <1>2, FS_AddElement DEF Counted
<1>4. \A i \in LifePlaces : Ordinal(i)' = Ordinal(i)
  <2> SUFFICES ASSUME NEW i \in LifePlaces PROVE Ordinal(i)' = Ordinal(i) OBVIOUS
  <2>1. {j \in LifePlaces' : j <= i} = {j \in LifePlaces : j <= i} BY <1>2
  <2> QED BY <2>1 DEF Ordinal
<1>5. Ordinal(n)' = N + 1
  <2>1. {j \in LifePlaces' : j <= n} = LifePlaces' BY <1>2
  <2> QED BY <1>3, <2>1 DEF Ordinal
<1>6. \A k \in 1..N : PlacesOf(k)' = PlacesOf(k)
  <2> SUFFICES ASSUME NEW k \in 1..N PROVE PlacesOf(k)' = PlacesOf(k) OBVIOUS
  <2>1. Ordinal(n)' # k BY <1>1, <1>5
  <2> QED BY <1>2, <1>4, <2>1 DEF PlacesOf
<1>7. PlacesOf(N + 1)' = {n}
  <2>1. \A i \in LifePlaces : Ordinal(i)' # N + 1 BY <1>1, <1>4 DEF Counted
  <2> QED BY <1>2, <1>5, <2>1 DEF PlacesOf
<1>8. 1..(N + 1) = (1..N) \union {N + 1} BY <1>1
<1>9. Counted'
  <2>1. \A i \in LifePlaces' : Ordinal(i)' \in 1..(N + 1) BY <1>1, <1>2, <1>4, <1>5, <1>8 DEF Counted
  <2>2. \A k \in 1..(N + 1) : \E i \in LifePlaces' : PlacesOf(k)' = {i}
    BY <1>2, <1>6, <1>7, <1>8 DEF Counted
  <2> QED BY <1>3, <2>1, <2>2 DEF Counted
<1>10. LifeLog' = Append(LifeLog, e)
  <2> DEFINE old(k) == feed[OnlyOne(PlacesOf(k))]
             new(k) == feed'[OnlyOne(PlacesOf(k)')]
  <2>1. \A k \in 1..N : new(k) = old(k) /\ old(k) \in EventType
    <3> SUFFICES ASSUME NEW k \in 1..N PROVE new(k) = old(k) /\ old(k) \in EventType OBVIOUS
    <3>1. OnlyOne(PlacesOf(k)) \in LifePlaces BY DEF Counted, OnlyOne
    <3>2. \A i \in LifePlaces : feed[i] \in EventType BY TimeTypes DEF LifePlaces
    <3> QED BY <1>2, <1>6, <3>1, <3>2
  <2>2. new(N + 1) = e BY <1>7 DEF OnlyOne, OneLifeEvent
  <2>3. LifeLog = [k \in 1..N |-> old(k)] BY DEF LifeLog
  <2>4. LifeLog' = [k \in 1..(N + 1) |-> new(k)] BY <1>3 DEF LifeLog, OnlyOne
  <2> HIDE DEF old, new
  <2>5. LifeLog \in [1..N -> EventType] BY <2>1, <2>3
  <2>6. LifeLog \in Seq(EventType) /\ Len(LifeLog) = N BY <1>1, <2>5
  <2>7. Append(LifeLog, e) = [k \in 1..(N + 1) |-> IF k <= N THEN old(k) ELSE e]
    BY <1>1, <2>3, <2>6
  <2>8. \A k \in 1..(N + 1) : new(k) = IF k <= N THEN old(k) ELSE e BY <1>1, <1>8, <2>1, <2>2
  <2> QED BY <2>4, <2>7, <2>8
<1> QED BY <1>9, <1>10

LEMMA UnheardIsStutter ==
  ASSUME Counted, Unheard
  PROVE  Counted' /\ UNCHANGED Register!vars
<1>1. Counted' /\ LifeLog' = LifeLog /\ \A v : AnnouncedHash(v)' = AnnouncedHash(v)
  BY LogUnheard DEF Unheard
<1>2. \A v \in Versions : ConsumerPhase(v)' = ConsumerPhase(v)
  BY DEF Unheard, SamePhase, OpenStatuses, ConsumerPhase
<1> QED BY <1>1, <1>2 DEF Register!vars

LEMMA ErasureIsErase ==
  ASSUME Counted, NEW u \in Users, NEW f \in Frameworks, DeleteFramework(u, f)
  PROVE  Counted' /\ (Register!Next \/ UNCHANGED Register!vars)
<1> PICK gone \in SUBSET Versions : gone = {v \in Versions : FrameworkOf[v] = f /\ Alive(v)} OBVIOUS
<1>1. feed' = feed BY DEF DeleteFramework
<1>2. Counted' /\ LifeLog' = LifeLog /\ \A v : AnnouncedHash(v)' = AnnouncedHash(v)
  BY <1>1, LogUnheard DEF FeedKept
<1>3. \A v \in Versions : ConsumerPhase(v)' = IF v \in gone THEN "erased" ELSE ConsumerPhase(v)
  BY DEF DeleteFramework, ConsumerPhase, Blank
<1>4. CASE gone = {} BY <1>2, <1>3, <1>4 DEF Register!vars
<1>5. CASE gone # {}
  <2>1. \A v \in gone : FrameworkOf[v] = f /\ ConsumerPhase(v) # "erased"
    BY DEF Alive, ConsumerPhase
  <2>2. \A v \in Versions \ gone : FrameworkOf[v] = f => ConsumerPhase(v) \in {"open", "erased"}
    BY DEF Alive, ConsumerPhase
  <2>3. Register!Erase(f, gone) BY <1>2, <1>3, <1>5, <2>1, <2>2 DEF Register!Erase
  <2> QED BY <1>2, <2>3 DEF Register!Next
<1> QED BY <1>4, <1>5

LEMMA ReleaseIsRelease ==
  ASSUME Orderly, Counted, ReleaseHeard
  PROVE  Counted' /\ Register!Next
<1>1. PICK v \in Versions, e \in EventType, n \in Nat :
        /\ FeedKept /\ OneLifeEvent(e, n)
        /\ e = Event("published", v, row'[v].signature.hash) /\ Valid(e.hash.body)
        /\ row[v].status = "APPROVED" /\ row'[v].status = "PUBLISHED"
        /\ \A w \in Versions : w # v => row'[w] = row[w]
  BY DEF ReleaseHeard
<1> PICK h : h = e.hash OBVIOUS
<1>2. e.kind = "published" /\ e.version = v /\ e = [kind |-> "published", version |-> v, hash |-> h]
  BY <1>1 DEF Event
<1>3. Counted' /\ LifeLog' = Append(LifeLog, e) BY <1>1, <1>2, LogHeard DEF Orderly
<1>4. h \in HashType \ {NoHash} BY <1>1 DEF EventType, NoHash, Hash, Valid
<1>5. Announcements(v) = {} BY <1>1 DEF Orderly, RowKnown, Unannounced, OpenStatuses
<1>6. AnnouncedHash(v)' = h
  <2>1. Announcements(v)' = {n} /\ feed'[n].hash = h BY <1>1, <1>2, <1>5 DEF OneLifeEvent
  <2>2. AnnouncedHashes(v)' = {h} BY <2>1 DEF AnnouncedHashes
  <2> QED BY <2>2 DEF AnnouncedHash
<1>7. \A w \in Versions : w # v => AnnouncedHash(w)' = AnnouncedHash(w)
  <2> SUFFICES ASSUME NEW w \in Versions, w # v PROVE AnnouncedHash(w)' = AnnouncedHash(w) OBVIOUS
  <2>1. Announcements(w)' = Announcements(w) BY <1>1, <1>2 DEF OneLifeEvent
  <2>2. \A i \in Announcements(w) : feed'[i] = feed[i] BY <1>1 DEF Announcements, FeedKept
  <2>3. AnnouncedHashes(w)' = AnnouncedHashes(w) BY <2>1, <2>2 DEF AnnouncedHashes
  <2> QED BY <2>3 DEF AnnouncedHash
<1>8. ConsumerPhase(v) = "open" /\ ConsumerPhase(v)' = "released" BY <1>1 DEF ConsumerPhase
<1>9. \A w \in Versions : w # v => ConsumerPhase(w)' = ConsumerPhase(w) BY <1>1 DEF ConsumerPhase
<1>10. Register!Announce("published", v, h) BY <1>2, <1>3 DEF Register!Announce
<1>11. Register!Release(v, h) BY <1>6, <1>7, <1>8, <1>9, <1>10 DEF Register!Release
<1> QED BY <1>3, <1>4, <1>11 DEF Register!Next

LEMMA WithdrawalIsWithdraw ==
  ASSUME Orderly, Counted, WithdrawalHeard
  PROVE  Counted' /\ Register!Next
<1>1. PICK v \in Versions, e \in EventType, n \in Nat :
        /\ FeedKept /\ OneLifeEvent(e, n)
        /\ e = Event("deprecated", v, row[v].signature.hash)
        /\ row[v].status = "PUBLISHED" /\ row'[v].status = "DEPRECATED"
        /\ \A w \in Versions : w # v => row'[w] = row[w]
  BY DEF WithdrawalHeard
<1> PICK h : h = e.hash OBVIOUS
<1>2. e.kind = "deprecated" /\ e.version = v /\ e = [kind |-> "deprecated", version |-> v, hash |-> h]
  BY <1>1 DEF Event
<1>3. Counted' /\ LifeLog' = Append(LifeLog, e) BY <1>1, <1>2, LogHeard DEF Orderly
<1>4. PICK i \in DOMAIN feed : Announcements(v) = {i} /\ feed[i].hash = h
  BY <1>1 DEF Orderly, RowKnown, AsReleased, Event
<1>5. AnnouncedHash(v) = h
  <2>1. AnnouncedHashes(v) = {h} BY <1>4 DEF AnnouncedHashes
  <2> QED BY <2>1 DEF AnnouncedHash
<1>6. AnnouncedHash(v)' = h
  <2>1. Announcements(v)' = {i, n} /\ feed'[n].hash = h /\ feed'[i].hash = h
    BY <1>1, <1>2, <1>4 DEF OneLifeEvent, FeedKept
  <2>2. AnnouncedHashes(v)' = {h} BY <2>1 DEF AnnouncedHashes
  <2> QED BY <2>2 DEF AnnouncedHash
<1>7. \A w \in Versions : w # v => AnnouncedHash(w)' = AnnouncedHash(w)
  <2> SUFFICES ASSUME NEW w \in Versions, w # v PROVE AnnouncedHash(w)' = AnnouncedHash(w) OBVIOUS
  <2>1. Announcements(w)' = Announcements(w) BY <1>1, <1>2 DEF OneLifeEvent
  <2>2. \A j \in Announcements(w) : feed'[j] = feed[j] BY <1>1 DEF Announcements, FeedKept
  <2>3. AnnouncedHashes(w)' = AnnouncedHashes(w) BY <2>1, <2>2 DEF AnnouncedHashes
  <2> QED BY <2>3 DEF AnnouncedHash
<1>8. ConsumerPhase(v) = "released" /\ ConsumerPhase(v)' = "withdrawn" BY <1>1 DEF ConsumerPhase
<1>9. \A w \in Versions : w # v => ConsumerPhase(w)' = ConsumerPhase(w) BY <1>1 DEF ConsumerPhase
<1>10. Register!Announce("deprecated", v, h) BY <1>2, <1>3 DEF Register!Announce
<1>11. Register!Withdraw(v) BY <1>5, <1>6, <1>7, <1>8, <1>9, <1>10 DEF Register!Withdraw
<1> QED BY <1>3, <1>11 DEF Register!Next

LEMMA InitIsInit == Init => Counted /\ Register!Init
<1> SUFFICES ASSUME Init PROVE Counted /\ Register!Init OBVIOUS
<1>1. LifePlaces = {} /\ \A v : Announcements(v) = {} BY DEF Init, LifePlaces, Announcements
<1>2. IsFiniteSet(LifePlaces) /\ Cardinality(LifePlaces) = 0 BY <1>1, FS_EmptySet
<1>3. Counted BY <1>1, <1>2 DEF Counted
<1>4. LifeLog = <<>> BY <1>2 DEF LifeLog
<1>5. \A v \in Versions : ConsumerPhase(v) = "open" BY DEF Init, Blank, ConsumerPhase
<1>6. \A v : AnnouncedHash(v) = NoHash BY <1>1 DEF AnnouncedHash, AnnouncedHashes
<1>7. Register!Init BY <1>4, <1>5, <1>6 DEF Register!Init
<1> QED BY <1>3, <1>7

\* When requests do not overlap, the lifecycle implements the release register:
\* every version is released once, with one hash, withdrawn at most once after
\* that, and each is announced in the same step and in order.
THEOREM LifecycleImplementsRegister ==
  ASSUME Serial
  PROVE  Spec => ImplementsRegister
<1>1. Init => Orderly /\ Counted /\ Register!Init BY InitOrderly, InitIsInit
<1>2. Orderly /\ Counted /\ [Next]_vars =>
        Orderly' /\ Counted' /\ [Register!Next]_Register!vars
  <2> SUFFICES ASSUME Orderly, Counted, [Next]_vars
               PROVE  Orderly' /\ Counted' /\ (Register!Next \/ UNCHANGED Register!vars)
    OBVIOUS
  <2>1. Orderly' /\ StepHeard BY StepOrderly
  <2> QED BY <2>1, UnheardIsStutter, ReleaseIsRelease, WithdrawalIsWithdraw, ErasureIsErase
       DEF StepHeard
<1> QED BY <1>1, <1>2, PTL DEF Spec, ImplementsRegister, Register!Spec
=============================================================================
