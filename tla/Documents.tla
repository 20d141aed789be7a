----------------------------- MODULE Documents -----------------------------
(***************************************************************************)
(* What happens to a framework on its way through the formats: the source  *)
(* text cut into parts, the model's answers for the parts merged, controls *)
(* attached, the flat document checked, turned into rows, read back, and   *)
(* translated.  Pure operators; FrameworkDrafts runs them.                 *)
(*                                                                         *)
(* A text is a sequence of blocks, a block a sequence of line lengths.     *)
(* Refs and names are strings; a description is its length, and two equal  *)
(* lengths are equal wordings.                                             *)
(***************************************************************************)
EXTENDS Integers, Sequences, FiniteSets, SequencesExt

CONSTANTS
  TrimOf,       \* padded strings and what trimming leaves of them
  SlugOf,       \* the ref of the placeholder control of a requirement
  RankOf,       \* the place of a control's ref in the order of codes
  DupThreshold  \* the shortest description compared with others

Trim(s) == IF s \in DOMAIN TrimOf THEN TrimOf[s] ELSE s
Blank(s) == Trim(s) = ""

Total(s) == FoldLeft(LAMBDA n, x : n + x, 0, s)
Positions(s) == [i \in DOMAIN s |-> i]
Refs(s) == {s[i].ref : i \in DOMAIN s}
UniqueRefs(s) == Cardinality(Refs(s)) = Len(s)
IndexOfRef(s, ref) == SelectInSeq(s, LAMBDA x : x.ref = ref)
OneOfEach(s) == FoldLeft(LAMBDA out, x : IF x \in Range(out) THEN out ELSE Append(out, x), <<>>, s)

-----------------------------------------------------------------------------
(* Chunks *)

\* Greedy packing of positions: a new pack starts when the next one does not
\* fit, with the last position of the old pack when packs overlap.
Pack(sizes, limit, overlap) ==
  LET Put(acc, i) ==
        IF acc.n = 0 \/ acc.n + sizes[i] <= limit
        THEN [acc EXCEPT !.cur = Append(@, i), !.n = @ + sizes[i]]
        ELSE LET seed == IF overlap THEN <<Last(acc.cur)>> ELSE <<>>
             IN  [out |-> Append(acc.out, acc.cur), cur |-> Append(seed, i),
                  n |-> sizes[i] + Total([j \in DOMAIN seed |-> sizes[seed[j]]])]
      all == FoldLeft(Put, [out |-> <<>>, cur |-> <<>>, n |-> 0], Positions(sizes))
  IN  IF all.cur = <<>> THEN all.out ELSE Append(all.out, all.cur)

BlockSize(block) == Total(block) + Len(block) - 1

\* A block too long is cut between its lines.  A piece keeps the place in the
\* text of the lines it holds.
Pieces(text, b, max) ==
  LET lines == text[b]
      Piece(part) == [lines |-> [k \in DOMAIN part |-> <<b, part[k]>>],
                      size |-> BlockSize([k \in DOMAIN part |-> lines[part[k]]])]
      parts == IF BlockSize(lines) <= max THEN <<Positions(lines)>>
               ELSE Pack([i \in DOMAIN lines |-> lines[i] + 1], max, FALSE)
  IN  [k \in DOMAIN parts |-> Piece(parts[k])]

SplitBlocks(text, max) == FlattenSeq([b \in DOMAIN text |-> Pieces(text, b, max)])

TextSize(text) == Total([b \in DOMAIN text |-> BlockSize(text[b])]) + 2 * (Len(text) - 1)

\* Mutant of ChunkText: parts that do not overlap.
ChunkTextApart(text, budget, max) ==
  LET blocks == SplitBlocks(text, max)
      packs == Pack([i \in DOMAIN blocks |-> blocks[i].size], budget, FALSE)
  IN  IF TextSize(text) <= budget THEN <<blocks>>
      ELSE [c \in DOMAIN packs |-> [k \in DOMAIN packs[c] |-> blocks[packs[c][k]]]]

\* The chunks, each a sequence of pieces.
ChunkText(text, budget, max) ==
  LET blocks == SplitBlocks(text, max)
      packs == Pack([i \in DOMAIN blocks |-> blocks[i].size], budget, TRUE)
  IN  IF text = <<>> THEN <<>>
      ELSE IF TextSize(text) <= budget THEN <<[b \in DOMAIN text |-> Pieces(text, b, TextSize(text))[1]]>>
      ELSE [c \in DOMAIN packs |-> [k \in DOMAIN packs[c] |-> blocks[packs[c][k]]]]

-----------------------------------------------------------------------------
(* From the model's answers to a flat document *)

ControlCategories == {"Policy", "Access", "Other"}   \* three of the fifteen

MergeCategories(categories) ==
  FoldLeft(LAMBDA out, c :
             LET ref == Trim(c.ref)
             IN  IF ref = "" \/ ref \in Refs(out) THEN out
                 ELSE Append(out, [ref |-> ref, name |-> c.name]),
           <<>>, categories)

\* On an overlap the longer description wins and missing fields are filled.
Filled(have, r) ==
  [have EXCEPT !.description = IF r.description > @ THEN r.description ELSE @,
               !.name = IF Blank(@) THEN r.name ELSE @,
               !.category = IF Blank(@) THEN r.category ELSE @]

MergeRequirements(found) ==
  FoldLeft(LAMBDA out, r :
             LET ref == Trim(r.ref)
                 i == IndexOfRef(out, ref)
             IN  CASE ref = "" -> out
                   [] i > 0 -> [out EXCEPT ![i] = Filled(@, r)]
                   [] OTHER -> Append(out, [ref |-> ref, category |-> Trim(r.category), name |-> r.name,
                                            description |-> r.description, controls |-> <<>>]),
           <<>>, found)

DropDangling(reqs, known) ==
  [i \in DOMAIN reqs |-> [reqs[i] EXCEPT !.category = IF @ \in known THEN @ ELSE ""]]

\* Mutant of MergeExtract: categories no part defines stay.
MergeExtractDangling(parts) ==
  [categories |-> MergeCategories(FlattenSeq([p \in DOMAIN parts |-> parts[p].categories])),
   requirements |-> MergeRequirements(FlattenSeq([p \in DOMAIN parts |-> parts[p].requirements]))]

MergeExtract(parts) ==
  LET categories == MergeCategories(FlattenSeq([p \in DOMAIN parts |-> parts[p].categories]))
  IN  [categories |-> categories,
       requirements |-> DropDangling(
         MergeRequirements(FlattenSeq([p \in DOMAIN parts |-> parts[p].requirements])),
         Refs(categories))]

\* A batch of controls and links joins the library; the first definition wins,
\* and a link to a control or a requirement nobody defined is dropped.
ApplyControls(doc, reply) ==
  LET controls == FoldLeft(LAMBDA out, c :
        LET ref == Trim(c.ref)
        IN  IF ref = "" \/ ref \in Refs(out) THEN out
            ELSE Append(out, [ref |-> ref, name |-> c.name, description |-> c.description,
                              category |-> IF c.category \in ControlCategories \union {""}
                                           THEN c.category ELSE "Other"]),
        doc.controls, reply.controls)
      Linked(req) == FlattenSeq([k \in DOMAIN reply.links |->
        IF Trim(reply.links[k].requirement) = req.ref
        THEN SelectSeq([j \in DOMAIN reply.links[k].controls |-> Trim(reply.links[k].controls[j])],
                       LAMBDA ref : ref \in Refs(controls))
        ELSE <<>>])
  IN  [doc EXCEPT !.controls = controls,
                  !.requirements = [i \in DOMAIN @ |->
                     [@[i] EXCEPT !.controls = @ \o Linked(doc.requirements[i])]]]

Normalize(doc) ==
  [doc EXCEPT !.requirements = [i \in DOMAIN @ |->
     [@[i] EXCEPT !.controls = OneOfEach(SelectSeq(@, LAMBDA ref : ref # ""))]]]

Placeholder(ref) == [ref |-> SlugOf[ref], name |-> "Implement", description |-> 1, category |-> "Other"]

\* Every requirement without a control gets a placeholder.
GuaranteeControls(doc) ==
  LET bare == SelectSeq(doc.requirements, LAMBDA r : r.controls = <<>>)
      needed == OneOfEach([i \in DOMAIN bare |-> Placeholder(bare[i].ref)])
      new == SelectSeq(needed, LAMBDA c : c.ref \notin Refs(doc.controls))
  IN  [doc EXCEPT !.controls = @ \o new,
                  !.requirements = [i \in DOMAIN @ |->
                     [@[i] EXCEPT !.controls = IF @ = <<>> THEN <<SlugOf[doc.requirements[i].ref]>> ELSE @]]]

Validate(doc) ==
  LET reqs == Range(doc.requirements)
      controls == Range(doc.controls)
  IN  /\ doc.requirements # <<>> /\ UniqueRefs(doc.requirements)
      /\ \A r \in reqs : ~Blank(r.ref) /\ ~Blank(r.name)
      /\ UniqueRefs(doc.categories) /\ \A c \in Range(doc.categories) : ~Blank(c.ref)
      /\ \A r \in reqs : r.category \in Refs(doc.categories) \union {""}
      /\ UniqueRefs(doc.controls)
      /\ \A c \in controls : ~Blank(c.ref) /\ c.category \in ControlCategories \union {""}
      /\ \A r \in reqs : Range(r.controls) \subseteq Refs(doc.controls)
      /\ controls # {} => \A r \in reqs : r.controls # <<>>

\* Requirements that share a long wording, and how much of the numbering of the
\* document came out: told to the reviewer, never a reason to fail.
DuplicateDescriptions(doc) ==
  LET long == {i \in DOMAIN doc.requirements : doc.requirements[i].description >= DupThreshold}
      Same(i) == {j \in long : doc.requirements[j].description = doc.requirements[i].description}
  IN  {{doc.requirements[j].ref : j \in Same(i)} : i \in {i \in long : Cardinality(Same(i)) > 1}}

Warnings(doc, expected) ==
  (IF DuplicateDescriptions(doc) # {} THEN {"repeated"} ELSE {})
    \union (IF expected > 0 /\ 10 * Len(doc.requirements) < 9 * expected THEN {"skipped"} ELSE {})

-----------------------------------------------------------------------------
(* Rows *)

Uncategorized == "GENERAL"

CategoryOf(req) == IF Blank(req.category) THEN Uncategorized ELSE Trim(req.category)

\* The categories declared, those met after them, and the empty ones left out.
FromFlat(doc) ==
  LET used == OneOfEach([i \in DOMAIN doc.requirements |-> CategoryOf(doc.requirements[i])])
      met == SelectSeq(used, LAMBDA code : code \notin Refs(doc.categories))
      In(code) == SelectSeq(doc.requirements, LAMBDA r : CategoryOf(r) = code)
      all == doc.categories \o [i \in DOMAIN met |-> [ref |-> met[i], name |-> "General"]]
  IN  SelectSeq([i \in DOMAIN all |-> [code |-> all[i].ref, name |-> all[i].name,
                                       requirements |-> In(all[i].ref)]],
                LAMBDA c : c.requirements # <<>>)

\* An item becomes a requirement under its own code; what it does not say comes
\* from the requirement that holds it.  Without items the requirement stays.
MergeItem(req, item) ==
  [ref |-> item.ref, category |-> "", controls |-> <<>>,
   name |-> IF Blank(item.name) THEN req.name ELSE item.name,
   description |-> IF item.description = 0 THEN req.description ELSE item.description]

Flattened(req) ==
  IF req.items = <<>>
  THEN <<[ref |-> req.ref, category |-> "", controls |-> <<>>, name |-> req.name,
          description |-> req.description]>>
  ELSE [i \in DOMAIN req.items |-> MergeItem(req, req.items[i])]

FromNested(nested) ==
  [c \in DOMAIN nested |->
     [code |-> nested[c].code, name |-> nested[c].name,
      requirements |-> FlattenSeq([r \in DOMAIN nested[c].requirements |->
                                     Flattened(nested[c].requirements[r])])]]

RowsOf(tree) == FlattenSeq([c \in DOMAIN tree |-> tree[c].requirements])

\* The unique codes of categories and of requirements within a version.
Insertable(tree) ==
  /\ Cardinality({tree[c].code : c \in DOMAIN tree}) = Len(tree)
  /\ UniqueRefs(RowsOf(tree))

\* What a control is linked to in the document.
LinkedTo(doc, ref) == {r.ref : r \in {r \in Range(doc.requirements) : ref \in Range(r.controls)}}

\* The document a stored version reads back as.  Every requirement is under a
\* category now; controls come in the order of their codes.
ExportFlat(tree, library) ==
  LET controls == SetToSortSeq(library, LAMBDA a, b : RankOf[a.ref] < RankOf[b.ref])
      Of(ref) == SelectSeq(controls, LAMBDA c : ref \in c.items)
  IN  Normalize(
        [categories |-> [c \in DOMAIN tree |-> [ref |-> tree[c].code, name |-> tree[c].name]],
         requirements |-> FlattenSeq([c \in DOMAIN tree |->
           [r \in DOMAIN tree[c].requirements |->
              [tree[c].requirements[r] EXCEPT
                 !.category = tree[c].code,
                 !.controls = [k \in DOMAIN Of(tree[c].requirements[r].ref) |->
                                 Of(tree[c].requirements[r].ref)[k].ref]]]]),
         controls |-> [k \in DOMAIN controls |->
           [ref |-> controls[k].ref, name |-> controls[k].name,
            description |-> controls[k].description, category |-> controls[k].category]]])

\* How a new document differs from the newest version.
DiffFlatAgainstBaseline(tree, doc) ==
  LET base == RowsOf(tree)
      Text(r) == <<r.name, r.description>>
      Change(r) == CASE r.ref \notin Refs(base) -> "added"
                     [] \E b \in Range(base) : b.ref = r.ref /\ Text(b) = Text(r) -> "unchanged"
                     [] OTHER -> "modified"
  IN  {<<r.ref, Change(r)>> : r \in Range(doc.requirements)}
        \union {<<ref, "removed">> : ref \in Refs(base) \ Refs(doc.requirements)}

-----------------------------------------------------------------------------
(* Translations: text by kind and ref, laid over the canonical document *)

Node(kind, ref, name) == [kind |-> kind, ref |-> ref, name |-> name]

CollectNodes(doc) ==
  <<Node("framework", "", "Framework")>>
    \o [i \in DOMAIN doc.categories |-> Node("category", doc.categories[i].ref, doc.categories[i].name)]
    \o [i \in DOMAIN doc.requirements |->
          Node("requirement", doc.requirements[i].ref, doc.requirements[i].name)]
    \o [i \in DOMAIN doc.controls |-> Node("control", doc.controls[i].ref, doc.controls[i].name)]

\* What the model said of a ref last, whatever the kind; a blank name is none.
Said(reply, ref) == SelectLastInSeq(reply, LAMBDA n : n.ref = ref)
Missing(batch, reply) ==
  {i \in DOMAIN batch : Said(reply, batch[i].ref) = 0 \/ Blank(reply[Said(reply, batch[i].ref)].name)}

\* Too much missing is asked again; otherwise what is missing keeps its text.
TranslateBatch(batch, reply) ==
  [ok |-> reply # <<>> /\ 2 * Cardinality(Missing(batch, reply)) <= Len(batch),
   nodes |-> [i \in DOMAIN batch |->
     IF i \in Missing(batch, reply) THEN batch[i]
     ELSE [batch[i] EXCEPT !.name = reply[Said(reply, batch[i].ref)].name]]]

\* The rows of a translation: one for each kind and ref, the later one stays.
PersistTranslation(nodes) ==
  {nodes[i] : i \in {i \in DOMAIN nodes :
     ~\E j \in i + 1 .. Len(nodes) : nodes[j].kind = nodes[i].kind /\ nodes[j].ref = nodes[i].ref}}

\* Text of a node in the overlay, and its own when there is none.
InLanguage(overlay, kind, x) ==
  LET rows == {t \in overlay : t.kind = kind /\ t.ref = x.ref /\ t.name # ""}
  IN  IF rows = {} THEN x ELSE [x EXCEPT !.name = (CHOOSE t \in rows : TRUE).name]

ApplyOverlay(doc, overlay) ==
  [categories |-> [i \in DOMAIN doc.categories |-> InLanguage(overlay, "category", doc.categories[i])],
   requirements |-> [i \in DOMAIN doc.requirements |->
                       InLanguage(overlay, "requirement", doc.requirements[i])],
   controls |-> [i \in DOMAIN doc.controls |-> InLanguage(overlay, "control", doc.controls[i])]]
=============================================================================
