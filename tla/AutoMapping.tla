---------------------------- MODULE AutoMapping ----------------------------
(***************************************************************************)
(* From a model's suggestions to mappings: automatic mapping runs and      *)
(* their ledger (mapping_runs), proposals and the decisions on them        *)
(* (mapping_proposals), and the mappings of one source framework to one    *)
(* target framework.                                                       *)
(*                                                                         *)
(* Nodes of both kinds are treated alike, so there is one kind.  The       *)
(* status of a version changes as VersionLifecycle says; only what         *)
(* requireMappable looks at is kept.  Resolution of mappings is in         *)
(* CrossMappings, slots and rows of jobs are in IngestJobs, and what is    *)
(* distributed is in MappingSets.                                          *)
(***************************************************************************)
EXTENDS Naturals, FiniteSets

CONSTANTS
  Versions,        \* of the source framework: 1 .. n, in order of creation
  Targets,         \* of the target framework: 1 .. n, in order of creation
  Refs,            \* nodes of the source framework
  TargetRefs,      \* nodes of the target framework
  Invented,        \* a ref the model makes up
  Relations,
  HandPins,        \* target versions a mapping written by hand pins, 0 for none
  Runs,
  MaxEdits         \* bound: nodes deleted, mappings written by hand

ASSUME AutoMappingAssumption ==
  /\ IsFiniteSet(Versions) /\ Versions = 1 .. Cardinality(Versions) /\ Versions # {}
  /\ IsFiniteSet(Targets) /\ Targets = 1 .. Cardinality(Targets) /\ Targets # {}
  /\ HandPins \subseteq Targets \union {0} /\ MaxEdits \in Nat
  /\ Invented \notin TargetRefs

VARIABLES
  status,     \* framework_versions of the source
  content,    \* the nodes of each source version
  target,     \* the newest version of the target
  proposals,  \* mapping_proposals: the status of each possible one
  ledger,     \* mapping_runs.adjudicated_refs, per source and target version
  mappings,   \* requirement_cross_mappings of the source framework
  run,        \* automatic mapping jobs under way
  edits       \* counter for MaxEdits

vars == <<status, content, target, proposals, ledger, mappings, run, edits>>

\* proposals_unique: the relation is part of the key, the target version is not.
Proposal == [version : Versions, ref : Refs, target : TargetRefs, relation : Relations]

\* A mapping may pin a target version (0: any).  Its key has all of this
\* (rxmap_unique): the same pair may be mapped with two relations, or two pins.
Mapping == [version : Versions, ref : Refs, target : TargetRefs,
            relation : Relations, pin : Targets \union {0}]

\* A row of proposals: what was decided, and the target version it was made for.
NoProposal == [status |-> "none", pin |-> 0]

Idle == [pc |-> "idle", version |-> 1, pin |-> 1, nodes |-> {}, found |-> {}]

Init ==
  /\ status = [v \in Versions |-> IF v = 1 THEN "draft" ELSE "absent"]
  /\ content = [v \in Versions |-> IF v = 1 THEN Refs ELSE {}]
  /\ target = 1
  /\ proposals = [p \in Proposal |-> NoProposal]
  /\ ledger = [pair \in Versions \X Targets |-> {}]
  /\ mappings = {}
  /\ run = [r \in Runs |-> Idle]
  /\ edits = 0

\* latestVersionID: the newest version by creation, whatever its status.
Latest == CHOOSE v \in Versions :
            /\ status[v] # "absent"
            /\ \A w \in Versions : status[w] # "absent" => w <= v

\* requireMappable, for bundles of schema 3.0.
Mappable(v) == status[v] \in {"draft", "published"}

-----------------------------------------------------------------------------
(* Versions *)

\* "held" stands for a version in review or approved.
ChangeStatus(v) ==
  /\ \E change \in {<<"draft", "held">>, <<"held", "draft">>, <<"held", "published">>,
                    <<"published", "deprecated">>} :
       status[v] = change[1] /\ status' = [status EXCEPT ![v] = change[2]]
  /\ UNCHANGED <<content, target, proposals, ledger, mappings, run, edits>>

\* Accepting a next version opens a draft, with nodes of its own and no mapping.
OpenDraft ==
  /\ Latest + 1 \in Versions
  /\ status' = [status EXCEPT ![Latest + 1] = "draft"]
  /\ content' = [content EXCEPT ![Latest + 1] = Refs]
  /\ UNCHANGED <<target, proposals, ledger, mappings, run, edits>>

NewTarget ==
  /\ target + 1 \in Targets
  /\ target' = target + 1
  /\ UNCHANGED <<status, content, proposals, ledger, mappings, run, edits>>

\* Mappings go with the requirement they start from (ON DELETE CASCADE).
DeleteNode(v, ref) ==
  /\ status[v] = "draft" /\ ref \in content[v] /\ edits < MaxEdits
  /\ edits' = edits + 1
  /\ content' = [content EXCEPT ![v] = @ \ {ref}]
  /\ mappings' = {m \in mappings : ~ (m.version = v /\ m.ref = ref)}
  /\ UNCHANGED <<status, target, proposals, ledger, run>>

-----------------------------------------------------------------------------
(* An automatic mapping run *)

\* The request resolves both versions in one transaction ...
StartAutoMapJob(r) ==
  /\ run[r].pc = "idle"
  /\ run' = [run EXCEPT ![r] = [Idle EXCEPT !.pc = "started", !.version = Latest, !.pin = target]]
  /\ UNCHANGED <<status, content, target, proposals, ledger, mappings, edits>>

\* ... and reads the documents in others, of whatever version is newest then.
ReadDocuments(r) ==
  /\ run[r].pc = "started"
  /\ run' = [run EXCEPT ![r].pc = "read", ![r].nodes = content[Latest]]
  /\ UNCHANGED <<status, content, target, proposals, ledger, mappings, edits>>

\* Refs adjudicated against any version of the target count as done.
AdjudicatedRefs(v) == UNION {ledger[<<v, t>>] : t \in Targets}

\* The candidates for each node: how they are ranked is numerical, so they may be
\* any, or none.
RetrieveCandidates(nodes) == [nodes -> SUBSET TargetRefs]

\* stepAdjudicate: a ref that was not among the candidates is dropped, never repaired.
Kept(answer, candidates) == {n \in DOMAIN answer : answer[n].target \in candidates[n]}

\* What is left is put to the model: it answers with at most one target node and
\* relation for a source node (a bound).  A document without nodes is an error.
Adjudicate(r, remap) ==
  LET pending == IF remap THEN run[r].nodes ELSE run[r].nodes \ AdjudicatedRefs(run[r].version) IN
  /\ run[r].pc = "read" /\ run[r].nodes # {}
  /\ \E candidates \in RetrieveCandidates(pending), matched \in SUBSET pending :
       \E answer \in [matched -> [target : TargetRefs \union {Invented}, relation : Relations]] :
         run' = [run EXCEPT
           ![r].pc = "adjudicated", ![r].nodes = pending,
           ![r].found = {[version |-> run[r].version, ref |-> n, target |-> answer[n].target,
                          relation |-> answer[n].relation] : n \in Kept(answer, candidates)}]
  /\ UNCHANGED <<status, content, target, proposals, ledger, mappings, edits>>

\* Mutant of StoreProposal: ON CONFLICT DO UPDATE, as the ledger has it.
StoreProposalAgain(p, pin) == [status |-> "pending", pin |-> pin]

\* Mutant of StoreProposal: the target version is not recorded.
StoreProposalUnpinned(p, pin) ==
  IF proposals[p].status = "none" THEN [status |-> "pending", pin |-> 0] ELSE proposals[p]

\* ON CONFLICT DO NOTHING.
StoreProposal(p, pin) ==
  IF proposals[p].status = "none" THEN [status |-> "pending", pin |-> pin] ELSE proposals[p]

StoreProposals(r) ==
  /\ run[r].pc = "adjudicated"
  /\ proposals' = [p \in Proposal |->
                     IF p \in run[r].found THEN StoreProposal(p, run[r].pin) ELSE proposals[p]]
  /\ run' = [run EXCEPT ![r].pc = "stored"]
  /\ UNCHANGED <<status, content, target, ledger, mappings, edits>>

\* Mutant of RecordMappingRun: the ledger may be written before the proposals.
RecordMappingRunFirst(r) ==
  /\ run[r].pc \in {"adjudicated", "stored"}
  /\ ledger' = [ledger EXCEPT ![<<run[r].version, run[r].pin>>] = @ \union run[r].nodes]
  /\ run' = [run EXCEPT ![r] = Idle]
  /\ UNCHANGED <<status, content, target, proposals, mappings, edits>>

\* A transaction of its own, after that of the proposals.
RecordMappingRun(r) ==
  /\ run[r].pc = "stored"
  /\ ledger' = [ledger EXCEPT ![<<run[r].version, run[r].pin>>] = @ \union run[r].nodes]
  /\ run' = [run EXCEPT ![r] = Idle]
  /\ UNCHANGED <<status, content, target, proposals, mappings, edits>>

\* The run fails, or its instance dies.
AbandonRun(r) ==
  /\ run[r].pc # "idle"
  /\ run' = [run EXCEPT ![r] = Idle]
  /\ UNCHANGED <<status, content, target, proposals, ledger, mappings, edits>>

-----------------------------------------------------------------------------
(* Decisions *)

MappingOf(p) ==
  [version |-> Latest, ref |-> p.ref, target |-> p.target, relation |-> p.relation,
   pin |-> proposals[p].pin]

\* Mutant of Applicable: what has no source node is accepted all the same.
ApplicableAlways(ids) == {p \in ids : proposals[p].status # "accepted"}

\* What is accepted already, and what has lost its source node, is passed over;
\* what was rejected is not.
Applicable(ids) == {p \in ids : proposals[p].status # "accepted" /\ p.ref \in content[Latest]}

\* A mapping that exists aborts the transaction, so nothing of the batch stays.
AcceptMappingProposals(ids) ==
  LET applied == Applicable(ids) IN
  /\ ids # {} /\ Mappable(Latest)
  /\ \A p \in applied : MappingOf(p) \notin mappings
  /\ \A p, q \in applied : MappingOf(p) = MappingOf(q) => p = q
  /\ proposals' = [p \in Proposal |->
                     IF p \in applied THEN [proposals[p] EXCEPT !.status = "accepted"] ELSE proposals[p]]
  /\ mappings' = mappings \union {MappingOf(p) : p \in {q \in applied : q.ref \in content[Latest]}}
  /\ UNCHANGED <<status, content, target, ledger, run, edits>>

\* Whatever was decided before.
RejectMappingProposals(ids) ==
  /\ ids # {} /\ Mappable(Latest)
  /\ proposals' = [p \in Proposal |->
                     IF p \in ids THEN [proposals[p] EXCEPT !.status = "rejected"] ELSE proposals[p]]
  /\ UNCHANGED <<status, content, target, ledger, mappings, run, edits>>

AddItemMapping(m) ==
  /\ edits < MaxEdits /\ m.pin \in HandPins /\ Mappable(m.version) /\ m.ref \in content[m.version]
  /\ m \notin mappings
  /\ edits' = edits + 1
  /\ mappings' = mappings \union {m}
  /\ UNCHANGED <<status, content, target, proposals, ledger, run>>

\* The newest version is checked, the mapping deleted may be of another one.
DeleteMapping(m) ==
  /\ m \in mappings /\ Mappable(Latest)
  /\ mappings' = mappings \ {m}
  /\ UNCHANGED <<status, content, target, proposals, ledger, run, edits>>

-----------------------------------------------------------------------------
Next ==
  \/ \E v \in Versions : ChangeStatus(v) \/ \E ref \in Refs : DeleteNode(v, ref)
  \/ OpenDraft
  \/ NewTarget
  \/ \E r \in Runs :
       \/ StartAutoMapJob(r)
       \/ ReadDocuments(r)
       \/ \E remap \in BOOLEAN : Adjudicate(r, remap)
       \/ StoreProposals(r)
       \/ RecordMappingRun(r)
       \/ AbandonRun(r)
  \/ \E ids \in SUBSET {p \in Proposal : proposals[p].status # "none"} :
       AcceptMappingProposals(ids) \/ RejectMappingProposals(ids)
  \/ \E m \in Mapping : AddItemMapping(m) \/ DeleteMapping(m)

Spec == Init /\ [][Next]_vars

-----------------------------------------------------------------------------
(* Properties *)

\* Types; a proposal that exists names the target version it was made for.
TypeOK ==
  /\ status \in [Versions -> {"absent", "draft", "held", "published", "deprecated"}]
  /\ content \in [Versions -> SUBSET Refs]
  /\ target \in Targets
  /\ proposals \in [Proposal -> [status : {"none", "pending", "accepted", "rejected"},
                                 pin : Targets \union {0}]]
  /\ \A p \in Proposal : proposals[p].status = "none" <=> proposals[p].pin = 0
  /\ ledger \in [Versions \X Targets -> SUBSET Refs]
  /\ mappings \subseteq Mapping
  /\ run \in [Runs -> [pc : {"idle", "started", "read", "adjudicated", "stored"},
                       version : Versions, pin : Targets, nodes : SUBSET Refs,
                       found : SUBSET Proposal]]
  /\ edits \in 0 .. MaxEdits

\* A proposal somebody decided on is never pending again, however many runs
\* find it again, with remap or after a crash that lost the ledger entry.
DecisionKept ==
  [][\A p \in Proposal :
       proposals[p].status \in {"accepted", "rejected"} => proposals'[p].status # "pending"]_vars

\* A proposal becomes accepted only together with a mapping of the version being
\* edited: no reviewer's yes is recorded without its effect, also when the node
\* was deleted after the run or another one of the batch fails.
AcceptedIsMapped ==
  [][\A p \in Proposal :
       proposals[p].status # "accepted" /\ proposals'[p].status = "accepted"
         => \E m \in mappings' : m.version = Latest /\ m.ref = p.ref /\ m.target = p.target
                                 /\ m.relation = p.relation /\ m.ref \in content'[Latest]]_vars

\* A node in the ledger is not asked about again, so when a run enters it,
\* everything the model said of it in that run is with the reviewers: a run that
\* dies between its two transactions is paid for again rather than lost.
LedgerLosesNothing ==
  [][\A r \in Runs :
       run[r].pc # "idle" /\ run'[r].pc = "idle" /\ ledger' # ledger
         => \A p \in run[r].found : proposals'[p].status # "none"]_vars

\* A pair of nodes a human turned down is not proposed again: a claim of the
\* rejection that holds of one relation only, since the relation is in the key.
TurnedDownOnce ==
  [][\A p, q \in Proposal :
       /\ p.version = q.version /\ p.ref = q.ref /\ p.target = q.target
       /\ proposals[p].status = "rejected" /\ proposals[q].status = "none"
       => proposals'[q].status # "pending"]_vars
=============================================================================
