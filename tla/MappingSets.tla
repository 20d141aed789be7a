---------------------------- MODULE MappingSets ----------------------------
(***************************************************************************)
(* The signed sets that distribute the mappings of one source framework to *)
(* one target framework (mapping_sets): publication, the catalog and the   *)
(* document a consumer is served, the mapping_published events, and a      *)
(* consumer that writes each set it pulls to one file for the two          *)
(* frameworks.                                                             *)
(*                                                                         *)
(* PublishMappingSet is one transaction of several statements, each of     *)
(* which sees what others committed before it.  Signing is left out: a     *)
(* document that does not verify is refused before anything is written.    *)
(***************************************************************************)
EXTENDS Naturals, Sequences, FiniteSets

CONSTANTS
  Versions,        \* of the source framework: 1 .. n, in order of creation
  Targets,         \* versions of the target framework, as the catalog sorts them
  Refs,            \* nodes of the source framework
  Pins,            \* the target versions a mapping may pin, 0 for none
  Publishers,
  MaxEvents,       \* bound: sets published
  NoRef,           \* the empty source ref of an entry whose node is gone
  NoSet

ASSUME SetsAssumption ==
  /\ IsFiniteSet(Versions) /\ Versions = 1 .. Cardinality(Versions) /\ Versions # {}
  /\ IsFiniteSet(Targets) /\ Targets = 1 .. Cardinality(Targets) /\ Targets # {}
  /\ Pins \subseteq Targets \union {0}
  /\ NoRef \notin Refs /\ MaxEvents \in Nat

VARIABLES
  status,       \* framework_versions of the source
  content,      \* the nodes of each source version
  mappings,     \* the mappings of each source version to the target
  publication,  \* PublishMappingSet transactions under way
  sets,         \* mapping_sets: the signed document of each pair
  feed,         \* mapping_published events, by sequence number
  consumer,     \* a sync run: what it still has to pull, and the saved cursor
  file          \* the file of the two frameworks at the consumer

vars == <<status, content, mappings, publication, sets, feed, consumer, file>>

Mapping == [ref : Refs, pin : Pins]
Entry == [source : Refs \union {NoRef}, pin : Pins]
Pair == [version : Versions, target : Targets]

NoPublication == [pc |-> "idle", pair |-> [version |-> 1, target |-> 1], rows |-> {}]
NoFile == [pair |-> [version |-> 1, target |-> 1], document |-> NoSet]

Init ==
  /\ status = [v \in Versions |-> IF v = 1 THEN "draft" ELSE "absent"]
  /\ content = [v \in Versions |-> IF v = 1 THEN Refs ELSE {}]
  /\ mappings = [v \in Versions |-> {}]
  /\ publication = [p \in Publishers |-> NoPublication]
  /\ sets = [pair \in Pair |-> NoSet]
  /\ feed = <<>>
  /\ consumer = [pc |-> "idle", queue |-> <<>>, cursor |-> 0, next |-> 0, start |-> 0, ok |-> TRUE]
  /\ file = NoFile

Latest == CHOOSE v \in Versions :
            /\ status[v] # "absent"
            /\ \A w \in Versions : status[w] # "absent" => w <= v

-----------------------------------------------------------------------------
(* Versions and their mappings *)

\* "held" stands for a version in review or approved.
ChangeStatus(v) ==
  /\ \E change \in {<<"draft", "held">>, <<"held", "draft">>, <<"held", "published">>,
                    <<"published", "deprecated">>} :
       status[v] = change[1] /\ status' = [status EXCEPT ![v] = change[2]]
  /\ UNCHANGED <<content, mappings, publication, sets, feed, consumer, file>>

OpenDraft ==
  /\ Latest + 1 \in Versions
  /\ status' = [status EXCEPT ![Latest + 1] = "draft"]
  /\ content' = [content EXCEPT ![Latest + 1] = Refs]
  /\ UNCHANGED <<mappings, publication, sets, feed, consumer, file>>

\* ON DELETE CASCADE: the mappings of the node go with it.
DeleteNode(v, ref) ==
  /\ status[v] = "draft" /\ ref \in content[v]
  /\ content' = [content EXCEPT ![v] = @ \ {ref}]
  /\ mappings' = [mappings EXCEPT ![v] = {m \in @ : m.ref # ref}]
  /\ UNCHANGED <<status, publication, sets, feed, consumer, file>>

\* By hand or from a proposal, on a draft or on a published version.
AddMapping(v, m) ==
  /\ status[v] \in {"draft", "published"} /\ m.ref \in content[v] /\ m \notin mappings[v]
  /\ mappings' = [mappings EXCEPT ![v] = @ \union {m}]
  /\ UNCHANGED <<status, content, publication, sets, feed, consumer, file>>

-----------------------------------------------------------------------------
(* Publication *)

\* The newest version, draft or not, and all its mappings to the framework,
\* whatever version of it they pin.
BeginPublishSet(p, t) ==
  /\ publication[p].pc = "idle"
  /\ publication' = [publication EXCEPT ![p] =
       [pc |-> "assembling", pair |-> [version |-> Latest, target |-> t], rows |-> mappings[Latest]]]
  /\ UNCHANGED <<status, content, mappings, sets, feed, consumer, file>>

\* The refs are read after the mappings: a node deleted in between has none.
Assembled(p) ==
  {[source |-> IF m.ref \in content[publication[p].pair.version] THEN m.ref ELSE NoRef,
    pin |-> m.pin] : m \in publication[p].rows}

\* One set a pair, whether it was there or not.
Upsert(pair, document) == [sets EXCEPT ![pair] = document]

\* Mutant of CommitPublishSet: a set that is published already is not announced.
CommitPublishSetOnce(p) ==
  LET pair == publication[p].pair IN
  /\ publication[p].pc = "assembling"
  /\ publication' = [publication EXCEPT ![p] = NoPublication]
  /\ IF publication[p].rows = {} \/ Len(feed) = MaxEvents THEN UNCHANGED <<sets, feed>>
     ELSE /\ sets' = Upsert(pair, Assembled(p))
          /\ feed' = IF sets[pair] = NoSet THEN Append(feed, pair) ELSE feed
  /\ UNCHANGED <<status, content, mappings, consumer, file>>

\* An empty set is refused.  The document of the pair is replaced and announced;
\* the row lock of the upsert orders overlapping publications of one pair.
CommitPublishSet(p) ==
  LET pair == publication[p].pair IN
  /\ publication[p].pc = "assembling"
  /\ publication' = [publication EXCEPT ![p] = NoPublication]
  /\ IF publication[p].rows = {} \/ Len(feed) = MaxEvents THEN UNCHANGED <<sets, feed>>
     ELSE /\ sets' = Upsert(pair, Assembled(p))
          /\ feed' = Append(feed, pair)
  /\ UNCHANGED <<status, content, mappings, consumer, file>>

-----------------------------------------------------------------------------
(* What a consumer is served *)

\* The version the catalog lists: the latest published one, or else the newest.
\* Versions are published in order here.
CatalogVersion ==
  LET published == {v \in Versions : status[v] = "published"}
  IN  IF published = {} THEN Latest ELSE CHOOSE v \in published : \A w \in published : w <= v

\* ORDER BY target version.
MappingCatalog ==
  SelectSeq([t \in Targets |-> [version |-> CatalogVersion, target |-> t]],
            LAMBDA pair : sets[pair] # NoSet)

\* MappingSetDocument, asked for a pair by name.
Served(pair) == sets[pair]

-----------------------------------------------------------------------------
(* The consumer *)

\* Cold start: walk the catalog, then adopt the head of the feed.
BeginWalk ==
  /\ consumer.pc = "idle" /\ consumer.cursor = 0
  /\ consumer' = [consumer EXCEPT !.pc = "walk", !.queue = MappingCatalog]
  /\ UNCHANGED <<status, content, mappings, publication, sets, feed, file>>

\* Mutant of BeginPage: the cursor is saved before the page is handled.
BeginPageSaving ==
  /\ consumer.pc = "idle" /\ consumer.cursor \in 1 .. Len(feed) - 1
  /\ \E n \in consumer.cursor + 1 .. Len(feed) :
       consumer' = [consumer EXCEPT !.pc = "page", !.next = n, !.cursor = n,
                                    !.queue = SubSeq(feed, consumer.cursor + 1, n)]
  /\ UNCHANGED <<status, content, mappings, publication, sets, feed, file>>

\* One page of the feed, of some length.
BeginPage ==
  /\ consumer.pc = "idle" /\ consumer.cursor \in 1 .. Len(feed) - 1
  /\ \E n \in consumer.cursor + 1 .. Len(feed) :
       consumer' = [consumer EXCEPT !.pc = "page", !.next = n,
                                    !.queue = SubSeq(feed, consumer.cursor + 1, n)]
  /\ UNCHANGED <<status, content, mappings, publication, sets, feed, file>>

\* The document is the one served now, not the one the event announced.  A fetch
\* that fails is recorded and passed over.
PullMapping ==
  /\ consumer.queue # <<>>
  /\ \E ok \in BOOLEAN :
       /\ consumer' = [consumer EXCEPT !.queue = Tail(@), !.ok = ok]
       /\ file' = IF ok THEN [pair |-> Head(consumer.queue), document |-> Served(Head(consumer.queue))]
                  ELSE file
  /\ UNCHANGED <<status, content, mappings, publication, sets, feed>>

EndWalk ==
  /\ consumer.pc = "walk" /\ consumer.queue = <<>>
  /\ consumer' = [consumer EXCEPT !.pc = "idle", !.cursor = Len(feed), !.start = Len(feed)]
  /\ UNCHANGED <<status, content, mappings, publication, sets, feed, file>>

EndPage ==
  /\ consumer.pc = "page" /\ consumer.queue = <<>>
  /\ consumer' = [consumer EXCEPT !.pc = "idle", !.cursor = consumer.next]
  /\ UNCHANGED <<status, content, mappings, publication, sets, feed, file>>

\* The consumer is killed: it starts again from the saved cursor.
Kill ==
  /\ consumer.pc # "idle"
  /\ consumer' = [consumer EXCEPT !.pc = "idle", !.queue = <<>>]
  /\ UNCHANGED <<status, content, mappings, publication, sets, feed, file>>

Next ==
  \/ \E v \in Versions :
       \/ ChangeStatus(v)
       \/ \E ref \in Refs : DeleteNode(v, ref)
       \/ \E m \in Mapping : AddMapping(v, m)
  \/ OpenDraft
  \/ \E p \in Publishers : CommitPublishSet(p) \/ \E t \in Targets : BeginPublishSet(p, t)
  \/ BeginWalk
  \/ BeginPage
  \/ PullMapping
  \/ EndWalk
  \/ EndPage
  \/ Kill

Spec == Init /\ [][Next]_vars

-----------------------------------------------------------------------------
(* Properties *)

\* Types; the consumer's cursor never passes the head of the feed.
TypeOK ==
  /\ status \in [Versions -> {"absent", "draft", "held", "published", "deprecated"}]
  /\ content \in [Versions -> SUBSET Refs]
  /\ mappings \in [Versions -> SUBSET Mapping]
  /\ publication \in [Publishers -> [pc : {"idle", "assembling"}, pair : Pair, rows : SUBSET Mapping]]
  /\ sets \in [Pair -> {NoSet} \union (SUBSET Entry \ {{}})]
  /\ feed \in Seq(Pair)
  /\ consumer.pc \in {"idle", "walk", "page"} /\ consumer.queue \in Seq(Pair)
  /\ consumer.cursor \in 0 .. Len(feed) /\ consumer.next \in 0 .. Len(feed)
  /\ consumer.start \in 0 .. Len(feed) /\ consumer.ok \in BOOLEAN
  /\ file.pair \in Pair /\ file.document \in {NoSet} \union (SUBSET Entry \ {{}})

\* A consumer that has handled an event of the feed since its cold start, is
\* caught up, and did not fail on the last pull, holds the document served for
\* the pair announced last: no kill or republication leaves an older one.
FollowerHoldsLast ==
  (/\ consumer.pc = "idle" /\ consumer.ok
   /\ consumer.cursor = Len(feed) /\ consumer.cursor > consumer.start)
    => file = [pair |-> feed[Len(feed)], document |-> Served(feed[Len(feed)])]

\* A signed set names the source node of every entry: a claim of
\* PublishMappingSet that two statements of one transaction do not keep.
SetNamesItsSources ==
  \A pair \in Pair : sets[pair] # NoSet => \A e \in sets[pair] : e.source # NoRef

\* A set to a version of the target has no mapping pinned to another version: a
\* claim of the format that assembleMappingSetTx does not keep.
SetIsOfItsTarget ==
  \A pair \in Pair : sets[pair] # NoSet => \A e \in sets[pair] : e.pin \in {0, pair.target}

\* The catalog lists every published set: a claim of the integration guide that
\* does not hold of sets on any version but one.
CatalogListsEverySet ==
  \A pair \in Pair :
    sets[pair] # NoSet => \E i \in DOMAIN MappingCatalog : MappingCatalog[i] = pair
=============================================================================
