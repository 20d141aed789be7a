-------------------------- MODULE FrameworkDrafts --------------------------
(***************************************************************************)
(* How drafts come about: a job reads a document part by part through a    *)
(* language model and puts together a framework; a reviewer accepts it, as *)
(* a first or as a next version; its controls are added to the library one *)
(* transaction at a time; editors change the structure and the library     *)
(* meanwhile; the newest version is exported and translated.               *)
(* The operations on the data are those of Documents.                      *)
(***************************************************************************)
EXTENDS Documents

CONSTANTS
  Frameworks, Texts,
  Budget, MaxChunk,     \* chunkBudgetFor(provider) and maxChunkRunes
  BatchSize,            \* requirements per request for controls
  Parts,                \* what the model may answer for a part
  ControlReplies,       \* and for a batch of requirements
  Renamings,            \* and for a batch to translate
  Handed, Nested,       \* documents that come from outside
  ByHand,               \* controls an auditor adds
  OwnCategories, OwnRequirements, \* and categories and requirements
  ExpectedRequirements, \* the numbered headings of the document
  MaxVersions,          \* bounds: versions of a framework,
  MaxJobs, MaxTranslations, \* jobs of either kind in a run,
  MaxEdits              \* and changes of a structure by hand

VARIABLES
  job,        \* the generation under way
  versions,   \* the stored versions of each framework, oldest first
  library,    \* the control library: one table for all frameworks
  seeding,    \* the controls of an accepted document still to be added
  translation, \* the translation jobs, in the order they were started in
  overlay,    \* the translated rows of each version
  begun       \* how many generations and changes by hand there were

vars == <<job, versions, library, seeding, translation, overlay, begun>>

Idle == [step |-> "idle"]
NotSeeded == [doc |-> <<>>, left |-> <<>>, state |-> "none", edited |-> FALSE]

Init ==
  /\ job = Idle
  /\ versions = [f \in Frameworks |-> <<>>]
  /\ library = {}
  /\ seeding = [f \in Frameworks |-> NotSeeded]
  /\ translation = <<>>
  /\ overlay = [f \in Frameworks |-> [n \in 1 .. MaxVersions |-> {}]]
  /\ begun = [generate |-> 0, edit |-> 0]

Begin(kind, max) == begun[kind] < max /\ begun' = [begun EXCEPT ![kind] = @ + 1]

Newest(f) == Last(versions[f])

\* The entries of a framework, linked to requirements of its newest version.
\* A link is to a row of one version.
LibraryOf(f) ==
  {[e EXCEPT !.items = {i[2] : i \in {i \in @ : i[1] = Len(versions[f])}}] :
     e \in {e \in library : e.framework = f}}

Export(f) == ExportFlat(Newest(f), LibraryOf(f))

-----------------------------------------------------------------------------
(* Generation *)

stored == <<versions, library, seeding, translation, overlay>>

StartGenerateJob(f, text) ==
  /\ job.step \in {"idle", "failed", "invalid"}
  /\ text # <<>>
  /\ job' = [step |-> "extract", framework |-> f, text |-> text, parts |-> <<>>,
             chunks |-> ChunkText(text, Budget, MaxChunk)]
  /\ Begin("generate", MaxJobs)
  /\ UNCHANGED stored

\* A part read; after the last one the parts are merged.
Extract(part) ==
  LET parts == Append(job.parts, part)
      merged == MergeExtract(parts)
  IN  /\ job.step = "extract"
      /\ job' = IF Len(parts) < Len(job.chunks) THEN [job EXCEPT !.parts = parts]
                ELSE IF merged.requirements = <<>> THEN [step |-> "failed"]
                ELSE [step |-> "controls", framework |-> job.framework, batch |-> 1,
                      doc |-> [categories |-> merged.categories,
                               requirements |-> merged.requirements, controls |-> <<>>]]
      /\ UNCHANGED <<stored, begun>>

\* Whether there are requirements left after this batch.
MoreBatches == BatchSize * job.batch < Len(job.doc.requirements)

StepControls(reply) ==
  LET doc == ApplyControls(job.doc, reply)
  IN  /\ job.step = "controls"
      /\ job' = [job EXCEPT !.doc = doc, !.batch = @ + 1,
                            !.step = IF MoreBatches THEN "controls" ELSE "assemble"]
      /\ UNCHANGED <<stored, begun>>

Assemble ==
  LET doc == GuaranteeControls(Normalize(job.doc))
  IN  /\ job.step = "assemble"
      /\ job' = [step |-> IF Validate(doc) THEN "review" ELSE "invalid",
                 framework |-> job.framework, doc |-> doc,
                 warnings |-> Warnings(doc, ExpectedRequirements),
                 diff |-> IF versions[job.framework] = <<>> THEN {}
                          ELSE DiffFlatAgainstBaseline(Newest(job.framework), doc)]
      /\ UNCHANGED <<stored, begun>>

\* The model gives up, or keeps answering something that is not JSON.
StepFails ==
  /\ job.step \in {"extract", "controls"}
  /\ job' = [step |-> "failed"]
  /\ UNCHANGED <<stored, begun>>

-----------------------------------------------------------------------------
(* Acceptance *)

AcceptedFrom(f, doc) == doc \in Handed \/ (job.step = "review" /\ job.framework = f /\ doc = job.doc)
JobAfter(doc) == IF job.step = "review" /\ doc = job.doc THEN Idle ELSE job

\* The documents at hand.
AtHand == Handed \union (IF job.step = "review" THEN {job.doc} ELSE {})

CreateVersion(f, tree) ==
  /\ Len(versions[f]) < MaxVersions
  /\ Insertable(tree)
  /\ versions' = [versions EXCEPT ![f] = Append(@, tree)]

AcceptGeneratedFlat(f, doc) ==
  LET flat == Normalize(doc)
  IN  /\ AcceptedFrom(f, doc)
      /\ versions[f] = <<>>
      /\ Validate(flat)
      /\ CreateVersion(f, FromFlat(flat))
      /\ seeding' = [seeding EXCEPT ![f] = [doc |-> flat, left |-> flat.controls,
                                                state |-> IF flat.controls = <<>> THEN "whole" ELSE "running",
                                                edited |-> FALSE]]
      /\ job' = JobAfter(doc)
      /\ UNCHANGED <<library, translation, overlay, begun>>

AcceptNextVersion(f, doc) ==
  /\ AcceptedFrom(f, doc)
  /\ versions[f] # <<>>
  /\ Validate(Normalize(doc))
  /\ CreateVersion(f, FromFlat(Normalize(doc)))
  /\ job' = JobAfter(doc)
  /\ UNCHANGED <<library, seeding, translation, overlay, begun>>

ImportFrameworkDoc(f, nested) ==
  /\ versions[f] = <<>>
  /\ CreateVersion(f, FromNested(nested))
  /\ UNCHANGED <<job, library, seeding, translation, overlay, begun>>

-----------------------------------------------------------------------------
(* The control library *)

\* The codes are unique in the whole table, whatever the framework.
Addable(f, c, items) ==
  /\ ~Blank(c.name) /\ ~Blank(c.ref)
  /\ Trim(c.ref) \notin Refs(SetToSeq(library))
  /\ {Trim(ref) : ref \in items} \subseteq Refs(RowsOf(Newest(f)))

Entry(f, c, items) ==
  [framework |-> f, ref |-> Trim(c.ref), name |-> Trim(c.name), description |-> c.description,
   category |-> Trim(c.category), items |-> {<<Len(versions[f]), Trim(ref)>> : ref \in items}]

\* Mutant of SeedControl: a control is added without its links.
SeedControlAlone(f) ==
  LET s == seeding[f]
      c == Head(s.left)
  IN  /\ s.state = "running" /\ s.left # <<>> /\ Addable(f, c, {})
      /\ library' = library \union {Entry(f, c, {})}
      /\ seeding' = [seeding EXCEPT ![f].left = Tail(@),
                       ![f].state = IF Len(s.left) = 1 THEN "whole" ELSE @]
      /\ UNCHANGED <<job, versions, translation, overlay, begun>>

SeedControl(f) ==
  LET s == seeding[f]
      c == Head(s.left)
      items == LinkedTo(s.doc, c.ref)
  IN  /\ s.state = "running" /\ s.left # <<>> /\ Addable(f, c, items)
      /\ library' = library \union {Entry(f, c, items)}
      /\ seeding' = [seeding EXCEPT ![f].left = Tail(@),
                       ![f].state = IF Len(s.left) = 1 THEN "whole" ELSE @]
      /\ UNCHANGED <<job, versions, translation, overlay, begun>>

\* The first control that cannot be added ends the loop, and so does the end of
\* the process.
SeedStops(f) ==
  /\ seeding[f].state = "running"
  /\ seeding' = [seeding EXCEPT ![f].state = "stopped"]
  /\ UNCHANGED <<job, versions, library, translation, overlay, begun>>

AddControlEntry(f, c) ==
  /\ versions[f] # <<>>
  /\ Addable(f, c, c.items)
  /\ library' = library \union {Entry(f, c, c.items)}
  /\ UNCHANGED <<job, versions, seeding, translation, overlay, begun>>

\* The draft is no longer what was accepted; the seeding does not hear of it.
Edited(f) == seeding' = [seeding EXCEPT ![f].edited = TRUE]

DeleteControlEntry(e) ==
  /\ library' = library \ {e}
  /\ Edited(e.framework)
  /\ UNCHANGED <<job, versions, translation, overlay, begun>>

-----------------------------------------------------------------------------
(* The structure, changed by hand: any version may still be a draft *)

Unlinked(f, n, refs) ==
  {IF e.framework = f THEN [e EXCEPT !.items = @ \ ({n} \X refs)] ELSE e : e \in library}

Restructure(f, n, tree) ==
  /\ Insertable(tree)
  /\ versions' = [versions EXCEPT ![f][n] = tree]
  /\ Edited(f)
  /\ Begin("edit", MaxEdits)
  /\ UNCHANGED <<job, translation, overlay>>

AddCategory(f, n, c) ==
  /\ ~Blank(c.code) /\ ~Blank(c.name)
  /\ Restructure(f, n, Append(versions[f][n],
                     [code |-> Trim(c.code), name |-> Trim(c.name), requirements |-> <<>>]))
  /\ UNCHANGED library

AddRequirement(f, n, c, r) ==
  /\ ~Blank(r.ref) /\ ~Blank(r.name)
  /\ Restructure(f, n, [versions[f][n] EXCEPT ![c].requirements =
                          Append(@, [r EXCEPT !.ref = Trim(@), !.name = Trim(@)])])
  /\ UNCHANGED library

\* A category takes its requirements along, a requirement its links.
DeleteCategory(f, n, c) ==
  /\ Restructure(f, n, RemoveAt(versions[f][n], c))
  /\ library' = Unlinked(f, n, Refs(versions[f][n][c].requirements))

DeleteRequirement(f, n, c, r) ==
  /\ Restructure(f, n, [versions[f][n] EXCEPT ![c].requirements = RemoveAt(@, r)])
  /\ library' = Unlinked(f, n, {versions[f][n][c].requirements[r].ref})

DeleteStructureNode(f, n) ==
  \E c \in DOMAIN versions[f][n] :
    \/ DeleteCategory(f, n, c)
    \/ \E r \in DOMAIN versions[f][n][c].requirements : DeleteRequirement(f, n, c, r)

-----------------------------------------------------------------------------
(* Translation: any number of jobs, of one framework or of several *)

Ended == {j \in DOMAIN translation : translation[j].step = "ended"}

Proceed(j, from, to) ==
  /\ translation[j].step = from
  /\ translation' = [translation EXCEPT ![j] = to @@ @]
  /\ UNCHANGED <<job, versions, library, seeding, begun>>

\* The version to write under is looked up first.
StartTranslateJob(f) ==
  /\ versions[f] # <<>> /\ Len(translation) < MaxTranslations
  /\ translation' = Append(translation, [step |-> "resolved", framework |-> f,
                                         version |-> Len(versions[f]), before |-> Ended])
  /\ UNCHANGED <<job, versions, library, seeding, overlay, begun>>

\* The document is read afterwards, of the version that is the newest then.
ReadDocument(j) ==
  LET f == translation[j].framework
  IN  /\ Proceed(j, "resolved", [step |-> "running", read |-> Len(versions[f]),
                                 nodes |-> CollectNodes(Export(f))])
      /\ UNCHANGED overlay

\* What the model may answer to a batch; a node is translated into its kind.
Answer(how, batch) ==
  LET whole == [i \in DOMAIN batch |-> [batch[i] EXCEPT !.name = batch[i].kind]]
  IN  CASE how = "whole" -> whole
        [] how = "short" -> Front(whole)
        [] how = "blank" -> [whole EXCEPT ![Len(whole)].name = ""]
        [] how = "drift" -> [i \in DOMAIN whole |-> [whole[i] EXCEPT !.ref = "drift"]]

StepTranslate(j, how) ==
  LET batch == translation[j].nodes
      done == TranslateBatch(batch, Answer(how, batch))
  IN  /\ Proceed(j, "running", IF done.ok THEN [step |-> "translated", made |-> done.nodes]
                                ELSE [step |-> "ended"])
      /\ UNCHANGED overlay

OverlayOf(j) == overlay[translation[j].framework][translation[j].version]

\* The transaction that stores a translation deletes the rows it finds; rows
\* that come in until its own follow are not among them.
DeleteByVersionAndLanguage(j) ==
  /\ Proceed(j, "translated", [step |-> "replacing", found |-> OverlayOf(j)])
  /\ UNCHANGED overlay

SameNode(t, u) == t.kind = u.kind /\ t.ref = u.ref

\* A row keeps the job that wrote it, which tells two rows of a node apart.
Stored(j) == {[by |-> j] @@ node : node \in PersistTranslation(translation[j].made)}

\* Mutant of Persist: the rows that were there stay.
PersistOver(j) ==
  /\ Proceed(j, "replacing", [step |-> "ended", made |-> <<>>, found |-> {}])
  /\ overlay' = [overlay EXCEPT ![translation[j].framework][translation[j].version] =
                   Stored(j) \union {t \in @ : ~\E u \in Stored(j) : SameNode(t, u)}]

Persist(j) ==
  /\ Proceed(j, "replacing", [step |-> "ended", made |-> <<>>, found |-> {}])
  /\ overlay' = [overlay EXCEPT ![translation[j].framework][translation[j].version] =
                   Stored(j) \union {t \in @ \ translation[j].found :
                                      ~\E u \in Stored(j) : SameNode(t, u)}]

\* The document in the other language.
Exported(f) == ApplyOverlay(Export(f), overlay[f][Len(versions[f])])

-----------------------------------------------------------------------------

Next ==
  \/ \E f \in Frameworks, text \in Texts : StartGenerateJob(f, text)
  \/ \E part \in Parts : Extract(part)
  \/ \E reply \in ControlReplies : StepControls(reply)
  \/ Assemble
  \/ StepFails
  \/ \E f \in Frameworks, doc \in AtHand : AcceptGeneratedFlat(f, doc) \/ AcceptNextVersion(f, doc)
  \/ \E f \in Frameworks, nested \in Nested : ImportFrameworkDoc(f, nested)
  \/ \E f \in Frameworks : SeedControl(f) \/ SeedStops(f)
  \/ \E f \in Frameworks, c \in ByHand : AddControlEntry(f, c)
  \/ \E e \in library : DeleteControlEntry(e)
  \/ \E f \in Frameworks : \E n \in DOMAIN versions[f] :
       \/ \E c \in OwnCategories : AddCategory(f, n, c)
       \/ \E c \in DOMAIN versions[f][n], r \in OwnRequirements : AddRequirement(f, n, c, r)
       \/ DeleteStructureNode(f, n)
  \/ \E f \in Frameworks : StartTranslateJob(f)
  \/ \E j \in DOMAIN translation, how \in Renamings : StepTranslate(j, how)
  \/ \E j \in DOMAIN translation : ReadDocument(j) \/ DeleteByVersionAndLanguage(j) \/ Persist(j)

Spec == Init /\ [][Next]_vars

-----------------------------------------------------------------------------
(* Properties *)

\* Two lines that follow each other in the document are together in some part
\* the model reads, wherever the text is cut, so a requirement that runs over a
\* cut is whole somewhere.
ChunksKeepNeighbours ==
  job.step = "extract" =>
    LET lines == FlattenSeq([b \in DOMAIN job.text |-> [l \in DOMAIN job.text[b] |-> <<b, l>>]])
        Held(c) == UNION {Range(job.chunks[c][k].lines) : k \in DOMAIN job.chunks[c]}
    IN  /\ lines # <<>> => \E c \in DOMAIN job.chunks : lines[1] \in Held(c)
        /\ \A i \in 1 .. Len(lines) - 1 :
             \E c \in DOMAIN job.chunks : {lines[i], lines[i + 1]} \subseteq Held(c)

\* Whatever the model says of categories, controls and links, in whatever part
\* or batch, the document put together from it fails the check only for a
\* requirement without a name: the paid work is not lost to a dangling ref.
OnlyNamelessIsInvalid ==
  job.step = "invalid" => \E r \in Range(job.doc.requirements) : Blank(r.name)

\* A first version nobody changed by hand reads back as the document that was
\* accepted, wherever the seeding of its controls is or stopped: the same
\* requirements with the same text and category, and each control that was
\* reached, with its text and all its links.  When all were, it is valid but
\* for the domains of controls that were added by hand.
AcceptedIsExported ==
  \A f \in Frameworks :
    LET s == seeding[f]
        out == Export(f)
        Facts(r) == <<r.ref, r.name, r.description, CategoryOf(r)>>
        Text(c) == <<Trim(c.ref), Trim(c.name), c.description, Trim(c.category)>>
        Usual(c) == [c EXCEPT !.category = IF @ \in ControlCategories THEN @ ELSE ""]
        known == [out EXCEPT !.controls = [i \in DOMAIN @ |-> Usual(@[i])]]
    IN  s.state # "none" /\ ~s.edited /\ Len(versions[f]) = 1 =>
          /\ {Facts(r) : r \in Range(out.requirements)} = {Facts(r) : r \in Range(s.doc.requirements)}
          /\ \A c \in Range(s.doc.controls) \ Range(s.left) :
               /\ Text(c) \in {Text(d) : d \in Range(out.controls)}
               /\ LinkedTo(s.doc, c.ref) = LinkedTo(out, Trim(c.ref))
          /\ s.state = "whole" /\ (s.doc.controls # <<>> \/ out.controls = <<>>) => Validate(known)

\* Whatever the model answers and however many translations of a version are
\* stored over each other: each row is about a node of the document its job
\* read and has words if the node had; some job has a row for every node it
\* read; and nothing is left of a job that was over before another began.
TranslationNamesEveryNode ==
  \A f \in Frameworks : \A n \in DOMAIN versions[f] :
    LET rows == overlay[f][n]
        Nodes(j) == Range(translation[j].nodes)
    IN  rows # {} =>
          /\ \A t \in rows : \E node \in Nodes(t.by) :
               SameNode(t, node) /\ (Blank(t.name) => Blank(node.name))
          /\ \E u \in rows : \A node \in Nodes(u.by) :
               \E t \in rows : t.by = u.by /\ SameNode(t, node)
          /\ \A t, u \in rows : t.by \notin translation[u.by].before

\* What src/pkg/registry/export_service.go:27 says an export is for, "sharing
\* and re-import", said of a framework that got a next version out of a valid
\* document after all its controls were added.  The code fails it: the controls
\* of the new document are dropped and the links of the old ones stay behind.
NextVersionExports ==
  \A f \in Frameworks :
    seeding[f].state = "whole" /\ Len(versions[f]) > 1 => Validate(Export(f))

\* The same line, said of a first version with its controls that somebody added
\* one to.  The code fails it: the domain of a control is free text, which the
\* check of a document refuses.
HandMadeExports ==
  \A f \in Frameworks :
    LET s == seeding[f]
    IN  s.state = "whole" /\ s.doc.controls # <<>> /\ ~s.edited /\ Len(versions[f]) = 1
          => Validate(Export(f))

\* What src/pkg/registry/flat_import.go:282 says of seeding, "adds each flat
\* control to the framework's control library", for controls that have a name
\* and a framework that nothing interrupts.  The code fails it: a control of
\* another framework holds the code.
ControlsAreAddable ==
  \A f \in Frameworks :
    LET s == seeding[f]
    IN  s.state = "running" /\ Len(versions[f]) = 1 /\ ~Blank(Head(s.left).name)
          => Addable(f, Head(s.left), LinkedTo(s.doc, Head(s.left).ref))

\* What src/pkg/coredata/framework_translation.go:28 says, "A requirement and a
\* control can share a ref string, so the kind is part of the key".  The code
\* fails it: the model's answers are looked up by ref alone.
NodeKeepsItsKind ==
  \A f \in Frameworks : \A n \in DOMAIN versions[f] : \A t \in overlay[f][n] :
    t.name \in {"framework", "category", "requirement", "control"} => t.name = t.kind

\* What src/pkg/registry/translate_service.go:104 says of a translation,
\* "snapshot the source document synchronously", with the version it is stored
\* under.  The code fails it: a version accepted between the two reads has its
\* words stored under the one before.
TranslationIsOfItsVersion ==
  \A f \in Frameworks : \A n \in DOMAIN versions[f] : \A t \in overlay[f][n] :
    translation[t.by].read = n

\* What src/pkg/registry/translate_service.go:302 says of storing a translation,
\* "replacing whatever was there before".  The code fails it: two jobs that
\* store at once do not delete each other's rows, and a node only one of the
\* documents had keeps its words.
TranslationIsReplaced ==
  \A f \in Frameworks : \A n \in DOMAIN versions[f] : \A t, u \in overlay[f][n] : t.by = u.by
=============================================================================
