------------------------- MODULE AutoMappingProofs -------------------------
(***************************************************************************)
(* Theorems about AutoMapping for any number of versions, nodes, relations *)
(* and runs.  The inductive invariant, Inv, adds to TypeOK                 *)
(*                                                                         *)
(*   Created      the versions there are were created in order, so that    *)
(*                there is a newest one (Latest is a CHOOSE);              *)
(*   StoredFound  what a run found is with the reviewers once it is past   *)
(*                StoreProposals.                                          *)
(*                                                                         *)
(* What is promised of decisions and of the ledger is about steps: each    *)
(* theorem rests on a lemma that says what one step may do.                *)
(***************************************************************************)
EXTENDS AutoMapping, TLAPS, FiniteSetTheorems

-----------------------------------------------------------------------------
(* Versions *)

\* What the proofs need of the sets of versions.
LEMMA VersionNumbers ==
  /\ Versions \subseteq Nat \ {0} /\ Targets \subseteq Nat \ {0} /\ 1 \in Versions /\ 1 \in Targets
  /\ \A v \in Versions : \A w \in 1 .. v : w \in Versions
<1>1. Cardinality(Versions) \in Nat /\ Cardinality(Targets) \in Nat
  BY AutoMappingAssumption, FS_CardinalityType DEF AutoMappingAssumption
<1>2. PICK m \in Nat, n \in Nat : Versions = 1 .. m /\ Targets = 1 .. n
  BY <1>1, AutoMappingAssumption DEF AutoMappingAssumption
<1>3. Versions # {} /\ Targets # {}
  BY AutoMappingAssumption DEF AutoMappingAssumption
<1> QED BY <1>2, <1>3

Created == \E k \in Versions : \A v \in Versions : status[v] # "absent" <=> v <= k

StoredFound ==
  \A r \in Runs : run[r].pc = "stored" => \A p \in run[r].found : proposals[p].status # "none"

Inv == TypeOK /\ Created /\ StoredFound

\* The newest version exists, and is the last of those created.
LEMMA LatestIsNewest ==
  ASSUME Created
  PROVE  Latest \in Versions /\ \A v \in Versions : status[v] # "absent" <=> v <= Latest
<1>1. PICK k \in Versions : \A v \in Versions : status[v] # "absent" <=> v <= k
  BY DEF Created
<1>2. status[k] # "absent" /\ \A w \in Versions : status[w] # "absent" => w <= k
  BY <1>1, VersionNumbers
<1>3. ASSUME NEW v \in Versions, status[v] # "absent", \A w \in Versions : status[w] # "absent" => w <= v
      PROVE  v = k
  BY <1>1, <1>2, <1>3, VersionNumbers
<1>4. Latest = k
  BY <1>2, <1>3 DEF Latest
<1> QED BY <1>1, <1>4

\* A version that changes status stays one that exists.
LEMMA CreatedKept ==
  ASSUME Created, NEW v \in Versions, NEW s, s # "absent", status[v] # "absent",
         TypeOK, status' = [status EXCEPT ![v] = s]
  PROVE  Created'
  BY DEF Created, TypeOK

-----------------------------------------------------------------------------
(* Type correctness *)

ProposalType == [status : {"none", "pending", "accepted", "rejected"}, pin : Targets \union {0}]
RunType == [pc : {"idle", "started", "read", "adjudicated", "stored"},
            version : Versions, pin : Targets, nodes : SUBSET Refs, found : SUBSET Proposal]

LEMMA IdleType == Idle \in RunType
  BY VersionNumbers DEF Idle, RunType

LEMMA Types ==
  ASSUME Inv
  PROVE  /\ proposals \in [Proposal -> ProposalType]
         /\ run \in [Runs -> RunType]
         /\ \A r \in Runs :
              /\ run[r].version \in Versions /\ run[r].pin \in Targets
              /\ run[r].nodes \subseteq Refs /\ run[r].found \subseteq Proposal
  BY DEF Inv, TypeOK, ProposalType, RunType

LEMMA InitInv == Init => Inv
<1> SUFFICES ASSUME Init PROVE Inv OBVIOUS
<1>1. NoProposal \in ProposalType /\ NoProposal.status = "none" /\ NoProposal.pin = 0
  BY DEF NoProposal, ProposalType
<1>2. proposals \in [Proposal -> ProposalType]
      /\ \A p \in Proposal : proposals[p].status = "none" <=> proposals[p].pin = 0
  BY <1>1 DEF Init
<1>3. run \in [Runs -> RunType] /\ \A r \in Runs : run[r].pc = "idle"
  BY IdleType DEF Init, Idle
<1>4. edits \in 0 .. MaxEdits
  BY AutoMappingAssumption DEF Init, AutoMappingAssumption
<1>5. TypeOK
  BY <1>2, <1>3, <1>4, VersionNumbers DEF Init, TypeOK, ProposalType, RunType
<1>6. Created
  BY VersionNumbers DEF Init, Created
<1> QED BY <1>3, <1>5, <1>6 DEF Inv, StoredFound

\* A step of a run that leaves its proposals where they are.
LEMMA RunMoves ==
  ASSUME Inv, NEW r \in Runs, NEW t \in RunType, t.pc # "stored",
         run' = [run EXCEPT ![r] = t], proposals' = proposals
  PROVE  run' \in [Runs -> RunType] /\ StoredFound'
  BY Types DEF Inv, StoredFound

LEMMA StartInv ==
  ASSUME Inv, NEW r \in Runs, StartAutoMapJob(r)
  PROVE  Inv'
<1> DEFINE t == [Idle EXCEPT !.pc = "started", !.version = Latest, !.pin = target]
<1>1. t \in RunType /\ t.pc # "stored"
  BY IdleType, LatestIsNewest DEF Inv, TypeOK, RunType, Idle
<1>2. run' \in [Runs -> RunType] /\ StoredFound'
  BY <1>1, RunMoves DEF StartAutoMapJob
<1> QED BY <1>2 DEF StartAutoMapJob, Inv, TypeOK, Created, RunType

LEMMA ReadInv ==
  ASSUME Inv, NEW r \in Runs, ReadDocuments(r)
  PROVE  Inv'
<1>1. content[Latest] \subseteq Refs
  BY LatestIsNewest DEF Inv, TypeOK
<1>2. PICK t \in RunType : t.pc = "read" /\ run' = [run EXCEPT ![r] = t]
  BY <1>1, Types, ZenonT(40) DEF ReadDocuments, RunType
<1>3. run' \in [Runs -> RunType] /\ StoredFound'
  BY <1>2, RunMoves DEF ReadDocuments
<1> QED BY <1>3 DEF ReadDocuments, Inv, TypeOK, Created, RunType

\* Only refs that were among the candidates are kept, so what is found is a set
\* of proposals, never of nodes the model invented.
LEMMA AdjudicateInv ==
  ASSUME Inv, NEW r \in Runs, NEW remap \in BOOLEAN, Adjudicate(r, remap)
  PROVE  Inv'
<1> DEFINE pending == IF remap THEN run[r].nodes ELSE run[r].nodes \ AdjudicatedRefs(run[r].version)
           Found(answer, candidates) ==
             {[version |-> run[r].version, ref |-> n, target |-> answer[n].target,
               relation |-> answer[n].relation] : n \in Kept(answer, candidates)}
<1>1. pending \subseteq Refs
  BY Types
<1>2. PICK candidates \in RetrieveCandidates(pending), matched \in SUBSET pending :
        \E answer \in [matched -> [target : TargetRefs \union {Invented}, relation : Relations]] :
          run' = [run EXCEPT ![r].pc = "adjudicated", ![r].nodes = pending,
                             ![r].found = Found(answer, candidates)]
  BY DEF Adjudicate
<1>3. PICK answer \in [matched -> [target : TargetRefs \union {Invented}, relation : Relations]] :
        run' = [run EXCEPT ![r].pc = "adjudicated", ![r].nodes = pending,
                           ![r].found = Found(answer, candidates)]
  BY <1>2
<1>4. Found(answer, candidates) \subseteq Proposal
  <2> SUFFICES ASSUME NEW n \in Kept(answer, candidates)
               PROVE  [version |-> run[r].version, ref |-> n, target |-> answer[n].target,
                       relation |-> answer[n].relation] \in Proposal
    OBVIOUS
  <2>1. n \in matched /\ answer[n].target \in candidates[n]
    BY DEF Kept
  <2>2. n \in pending /\ candidates[n] \subseteq TargetRefs
    BY <2>1 DEF RetrieveCandidates
  <2>3. answer[n].relation \in Relations
    BY <2>1
  <2> QED BY <1>1, <2>1, <2>2, <2>3, Types DEF Proposal
<1> HIDE DEF pending, Found
<1>5. PICK t \in RunType : t.pc = "adjudicated" /\ run' = [run EXCEPT ![r] = t]
  <2> DEFINE t == [run[r] EXCEPT !.pc = "adjudicated", !.nodes = pending, !.found = Found(answer, candidates)]
  <2>1. run[r] \in RunType
    BY Types
  <2>2. t \in RunType /\ t.pc = "adjudicated"
    BY <1>1, <1>4, <2>1 DEF RunType
  <2>3. run' = [run EXCEPT ![r] = t]
    BY <1>3, <2>1, Types
  <2> QED BY <2>2, <2>3
<1>6. run' \in [Runs -> RunType] /\ StoredFound'
  BY <1>5, RunMoves DEF Adjudicate
<1> QED BY <1>6 DEF Adjudicate, Inv, TypeOK, Created, RunType

LEMMA StoreInv ==
  ASSUME Inv, NEW r \in Runs, StoreProposals(r)
  PROVE  /\ Inv'
         /\ \A p \in Proposal :
              \/ proposals'[p] = proposals[p]
              \/ proposals[p].status = "none" /\ proposals'[p].status = "pending"
<1>1. ASSUME NEW p \in Proposal
      PROVE  /\ proposals'[p] \in ProposalType
             /\ proposals'[p].status = "none" <=> proposals'[p].pin = 0
             /\ p \in run[r].found => proposals'[p].status # "none"
             /\ \/ proposals'[p] = proposals[p]
                \/ proposals[p].status = "none" /\ proposals'[p].status = "pending"
  <2>1. run[r].pin \in Targets /\ run[r].pin # 0
    BY Types, VersionNumbers
  <2>2. [status |-> "pending", pin |-> run[r].pin] \in ProposalType
    BY <2>1 DEF ProposalType
  <2>3. proposals[p].status = "none" <=> proposals[p].pin = 0
    BY DEF Inv, TypeOK
  <2> QED BY <2>1, <2>2, <2>3, Types DEF StoreProposals, StoreProposal
<1>2. proposals' \in [Proposal -> ProposalType]
  BY <1>1 DEF StoreProposals
<1>3. PICK t \in RunType : t.pc = "stored" /\ t.found = run[r].found /\ run' = [run EXCEPT ![r] = t]
  BY Types DEF StoreProposals, RunType
<1>4. StoredFound'
  <2> SUFFICES ASSUME NEW k \in Runs, run'[k].pc = "stored", NEW p \in run'[k].found
               PROVE  proposals'[p].status # "none"
    BY DEF StoredFound
  <2>1. CASE k = r
    BY <1>1, <1>3, <2>1, Types
  <2>2. CASE k # r
    <3>1. run[k].pc = "stored" /\ p \in run[k].found /\ p \in Proposal
      BY <1>3, <2>2, Types
    <3>2. proposals[p].status # "none"
      BY <3>1 DEF Inv, StoredFound
    <3> QED BY <1>1, <3>1, <3>2
  <2> QED BY <2>1, <2>2
<1>5. TypeOK'
  BY <1>1, <1>2, <1>3, Types DEF StoreProposals, Inv, TypeOK, ProposalType, RunType
<1> QED BY <1>1, <1>4, <1>5 DEF StoreProposals, Inv, Created

LEMMA RecordInv ==
  ASSUME Inv, NEW r \in Runs, RecordMappingRun(r)
  PROVE  Inv'
<1>1. run' \in [Runs -> RunType] /\ StoredFound'
  BY IdleType, RunMoves DEF RecordMappingRun, Idle
<1>2. ledger' \in [Versions \X Targets -> SUBSET Refs]
  BY Types DEF RecordMappingRun, Inv, TypeOK
<1> QED BY <1>1, <1>2 DEF RecordMappingRun, Inv, TypeOK, Created, RunType

LEMMA AbandonInv ==
  ASSUME Inv, NEW r \in Runs, AbandonRun(r)
  PROVE  Inv'
<1>1. run' \in [Runs -> RunType] /\ StoredFound'
  BY IdleType, RunMoves DEF AbandonRun, Idle
<1> QED BY <1>1 DEF AbandonRun, Inv, TypeOK, Created, RunType

-----------------------------------------------------------------------------
(* Decisions *)

\* What a decision does to one proposal.
LEMMA AcceptInv ==
  ASSUME Inv, NEW ids \in SUBSET {p \in Proposal : proposals[p].status # "none"},
         AcceptMappingProposals(ids)
  PROVE  /\ Inv'
         /\ \A p \in Proposal :
              \/ proposals'[p] = proposals[p]
              \/ /\ p \in Applicable(ids) /\ proposals'[p].status = "accepted"
                 /\ MappingOf(p) \in mappings'
<1> DEFINE applied == Applicable(ids)
<1>1. ASSUME NEW p \in Proposal
      PROVE  /\ proposals'[p] \in ProposalType
             /\ proposals'[p].status = "none" <=> proposals'[p].pin = 0
             /\ proposals[p].status # "none" => proposals'[p].status # "none"
             /\ \/ p \notin applied /\ proposals'[p] = proposals[p]
                \/ p \in applied /\ proposals'[p].status = "accepted"
  <2>1. proposals[p].status = "none" <=> proposals[p].pin = 0
    BY DEF Inv, TypeOK
  <2>2. p \in applied => proposals[p].status # "none"
    BY DEF Applicable
  <2> QED BY <2>1, <2>2, Types DEF AcceptMappingProposals, ProposalType
<1>2. proposals' \in [Proposal -> ProposalType]
  BY <1>1 DEF AcceptMappingProposals
<1>3. ASSUME NEW p \in applied PROVE MappingOf(p) \in Mapping /\ MappingOf(p) \in mappings'
  <2>1. p \in Proposal /\ p.ref \in content[Latest]
    BY DEF Applicable
  <2>2. p.ref \in Refs /\ p.target \in TargetRefs /\ p.relation \in Relations
    BY <2>1 DEF Proposal
  <2>3. proposals[p].pin \in Targets \union {0} /\ Latest \in Versions
    BY <2>1, Types, LatestIsNewest DEF Inv, ProposalType
  <2>4. MappingOf(p) \in Mapping
    BY <2>2, <2>3 DEF MappingOf, Mapping
  <2> QED BY <2>1, <2>4 DEF AcceptMappingProposals
<1>4. mappings' \subseteq Mapping
  BY <1>3 DEF AcceptMappingProposals, Inv, TypeOK
<1>5. TypeOK'
  BY <1>1, <1>2, <1>4 DEF AcceptMappingProposals, Inv, TypeOK, ProposalType
<1>6. StoredFound'
  BY <1>1, Types DEF AcceptMappingProposals, Inv, StoredFound
<1> QED BY <1>1, <1>3, <1>5, <1>6 DEF AcceptMappingProposals, Inv, Created

LEMMA RejectInv ==
  ASSUME Inv, NEW ids \in SUBSET {p \in Proposal : proposals[p].status # "none"},
         RejectMappingProposals(ids)
  PROVE  /\ Inv'
         /\ \A p \in Proposal : proposals'[p] = proposals[p] \/ proposals'[p].status = "rejected"
<1>1. ASSUME NEW p \in Proposal
      PROVE  /\ proposals'[p] \in ProposalType
             /\ proposals'[p].status = "none" <=> proposals'[p].pin = 0
             /\ proposals[p].status # "none" => proposals'[p].status # "none"
             /\ proposals'[p] = proposals[p] \/ proposals'[p].status = "rejected"
  <2>1. proposals[p].status = "none" <=> proposals[p].pin = 0
    BY DEF Inv, TypeOK
  <2> QED BY <2>1, Types DEF RejectMappingProposals, ProposalType
<1>2. proposals' \in [Proposal -> ProposalType]
  BY <1>1 DEF RejectMappingProposals
<1>3. TypeOK'
  BY <1>1, <1>2 DEF RejectMappingProposals, Inv, TypeOK, ProposalType
<1>4. StoredFound'
  BY <1>1, Types DEF RejectMappingProposals, Inv, StoredFound
<1> QED BY <1>1, <1>3, <1>4 DEF RejectMappingProposals, Inv, Created

-----------------------------------------------------------------------------
(* The other steps *)

\* None of these touches a proposal, a run or the ledger.
Elsewhere ==
  \/ \E v \in Versions : ChangeStatus(v) \/ \E ref \in Refs : DeleteNode(v, ref)
  \/ OpenDraft
  \/ NewTarget
  \/ \E m \in Mapping : AddItemMapping(m) \/ DeleteMapping(m)

LEMMA ElsewhereInv ==
  ASSUME Inv, Elsewhere
  PROVE  Inv' /\ UNCHANGED <<proposals, run, ledger>>
<1>1. ASSUME NEW v \in Versions, ChangeStatus(v) PROVE Inv' /\ UNCHANGED <<proposals, run, ledger>>
  <2>1. PICK s \in {"held", "draft", "published", "deprecated"} :
          status' = [status EXCEPT ![v] = s] /\ status[v] # "absent"
    <3>1. PICK change \in {<<"draft", "held">>, <<"held", "draft">>, <<"held", "published">>,
                           <<"published", "deprecated">>} :
            status[v] = change[1] /\ status' = [status EXCEPT ![v] = change[2]]
      BY <1>1 DEF ChangeStatus
    <3>2. change[1] # "absent" /\ change[2] \in {"held", "draft", "published", "deprecated"}
      OBVIOUS
    <3> QED BY <3>1, <3>2
  <2>2. Created'
    BY <2>1, CreatedKept DEF Inv
  <2>3. TypeOK'
    BY <1>1, <2>1 DEF ChangeStatus, Inv, TypeOK
  <2> QED BY <1>1, <2>2, <2>3 DEF ChangeStatus, Inv, StoredFound
<1>2. ASSUME NEW v \in Versions, NEW ref \in Refs, DeleteNode(v, ref)
      PROVE  Inv' /\ UNCHANGED <<proposals, run, ledger>>
  <2>1. content' \in [Versions -> SUBSET Refs] /\ mappings' \subseteq Mapping /\ edits' \in 0 .. MaxEdits
    BY <1>2, AutoMappingAssumption DEF DeleteNode, Inv, TypeOK, AutoMappingAssumption
  <2> QED BY <1>2, <2>1 DEF DeleteNode, Inv, TypeOK, Created, StoredFound
<1>3. CASE OpenDraft
  <2>1. Latest \in Versions /\ \A v \in Versions : status[v] # "absent" <=> v <= Latest
    BY LatestIsNewest DEF Inv
  <2>2. PICK k \in Versions : k = Latest + 1 /\ status' = [status EXCEPT ![k] = "draft"]
                              /\ content' = [content EXCEPT ![k] = Refs]
    BY <1>3 DEF OpenDraft
  <2>3. \A v \in Versions : v <= k <=> v <= Latest \/ v = k
    BY <2>1, <2>2, VersionNumbers
  <2>4. Created'
    BY <2>1, <2>2, <2>3 DEF Inv, TypeOK, Created
  <2> QED BY <1>3, <2>2, <2>4 DEF OpenDraft, Inv, TypeOK, StoredFound
<1>4. CASE NewTarget
  BY <1>4 DEF NewTarget, Inv, TypeOK, Created, StoredFound
<1>5. ASSUME NEW m \in Mapping, AddItemMapping(m) \/ DeleteMapping(m)
      PROVE  Inv' /\ UNCHANGED <<proposals, run, ledger>>
  <2>1. mappings' \subseteq Mapping /\ edits' \in 0 .. MaxEdits
    BY <1>5, AutoMappingAssumption DEF AddItemMapping, DeleteMapping, Inv, TypeOK, AutoMappingAssumption
  <2> QED BY <1>5, <2>1 DEF AddItemMapping, DeleteMapping, Inv, TypeOK, Created, StoredFound
<1> QED BY <1>1, <1>2, <1>3, <1>4, <1>5 DEF Elsewhere

LEMMA StepInv == Inv /\ [Next]_vars => Inv'
<1> SUFFICES ASSUME Inv, [Next]_vars PROVE Inv' OBVIOUS
<1>1. CASE Elsewhere
  BY <1>1, ElsewhereInv
<1>2. ASSUME NEW r \in Runs,
             \/ StartAutoMapJob(r) \/ ReadDocuments(r) \/ \E remap \in BOOLEAN : Adjudicate(r, remap)
             \/ StoreProposals(r) \/ RecordMappingRun(r) \/ AbandonRun(r)
      PROVE  Inv'
  BY <1>2, StartInv, ReadInv, AdjudicateInv, StoreInv, RecordInv, AbandonInv
<1>3. ASSUME NEW ids \in SUBSET {p \in Proposal : proposals[p].status # "none"},
             AcceptMappingProposals(ids) \/ RejectMappingProposals(ids)
      PROVE  Inv'
  BY <1>3, AcceptInv, RejectInv
<1>4. CASE UNCHANGED vars
  BY <1>4 DEF vars, Inv, TypeOK, Created, StoredFound
<1> QED BY <1>1, <1>2, <1>3, <1>4 DEF Next, Elsewhere

LEMMA InvHolds == Spec => []Inv
  BY InitInv, StepInv, PTL DEF Spec

\* What a step of Next does to one proposal.
LEMMA ProposalSteps ==
  ASSUME Inv, [Next]_vars, NEW p \in Proposal
  PROVE  \/ proposals'[p] = proposals[p]
         \/ proposals[p].status = "none" /\ proposals'[p].status = "pending"
         \/ proposals'[p].status = "rejected"
         \/ /\ \E ids \in SUBSET Proposal : p \in Applicable(ids)
            /\ proposals'[p].status = "accepted" /\ MappingOf(p) \in mappings'
            /\ UNCHANGED content
<1>1. CASE Elsewhere
  BY <1>1, ElsewhereInv
<1>2. ASSUME NEW r \in Runs,
             \/ StartAutoMapJob(r) \/ ReadDocuments(r) \/ \E remap \in BOOLEAN : Adjudicate(r, remap)
             \/ RecordMappingRun(r) \/ AbandonRun(r)
      PROVE  proposals'[p] = proposals[p]
  BY <1>2 DEF StartAutoMapJob, ReadDocuments, Adjudicate, RecordMappingRun, AbandonRun
<1>3. ASSUME NEW r \in Runs, StoreProposals(r)
      PROVE  proposals'[p] = proposals[p] \/ (proposals[p].status = "none" /\ proposals'[p].status = "pending")
  BY <1>3, StoreInv
<1>4. ASSUME NEW ids \in SUBSET {q \in Proposal : proposals[q].status # "none"}, AcceptMappingProposals(ids)
      PROVE  \/ proposals'[p] = proposals[p]
             \/ /\ p \in Applicable(ids) /\ proposals'[p].status = "accepted"
                /\ MappingOf(p) \in mappings' /\ UNCHANGED content
  BY <1>4, AcceptInv DEF AcceptMappingProposals
<1>5. ASSUME NEW ids \in SUBSET {q \in Proposal : proposals[q].status # "none"}, RejectMappingProposals(ids)
      PROVE  proposals'[p] = proposals[p] \/ proposals'[p].status = "rejected"
  BY <1>5, RejectInv
<1>6. CASE UNCHANGED vars
  BY <1>6 DEF vars
<1> QED BY <1>1, <1>2, <1>3, <1>4, <1>5, <1>6 DEF Next, Elsewhere

-----------------------------------------------------------------------------
(* Theorems *)

\* Every variable keeps its type: no run, document or answer of a model, whatever
\* it invents, becomes a proposal or a mapping to a node that does not exist, and
\* a proposal names a target version exactly when there is one.
THEOREM TypeCorrect == Spec => []TypeOK
<1>1. Inv => TypeOK BY DEF Inv
<1> QED BY <1>1, InvHolds, PTL

\* What a reviewer accepted or rejected does not become pending again, in however
\* many runs a model finds it (proposals_unique and ON CONFLICT DO NOTHING).
THEOREM DecisionsAreKept == Spec => DecisionKept
<1>1. Inv /\ [Next]_vars =>
        [\A p \in Proposal :
           proposals[p].status \in {"accepted", "rejected"} => proposals'[p].status # "pending"]_vars
  BY ProposalSteps
<1> QED BY <1>1, InvHolds, PTL DEF Spec, DecisionKept

\* A proposal is marked accepted only by the step that adds its mapping to the
\* newest version, between nodes that are there (AcceptMappingProposals).
THEOREM AcceptedIsMappedAlways == Spec => AcceptedIsMapped
<1>1. ASSUME Inv, [Next]_vars, NEW p \in Proposal,
             proposals[p].status # "accepted", proposals'[p].status = "accepted"
      PROVE  \E m \in mappings' : m.version = Latest /\ m.ref = p.ref /\ m.target = p.target
                                  /\ m.relation = p.relation /\ m.ref \in content'[Latest]
  <2>1. /\ \E ids \in SUBSET Proposal : p \in Applicable(ids)
        /\ MappingOf(p) \in mappings' /\ UNCHANGED content
    BY <1>1, ProposalSteps
  <2>2. p.ref \in content'[Latest]
    BY <2>1 DEF Applicable
  <2>3. /\ MappingOf(p).version = Latest /\ MappingOf(p).ref = p.ref
        /\ MappingOf(p).target = p.target /\ MappingOf(p).relation = p.relation
    BY DEF MappingOf
  <2> QED BY <2>1, <2>2, <2>3
<1>2. Inv /\ [Next]_vars =>
        [\A p \in Proposal :
           proposals[p].status # "accepted" /\ proposals'[p].status = "accepted"
             => \E m \in mappings' : m.version = Latest /\ m.ref = p.ref /\ m.target = p.target
                                     /\ m.relation = p.relation /\ m.ref \in content'[Latest]]_vars
  BY <1>1
<1> QED BY <1>2, InvHolds, PTL DEF Spec, AcceptedIsMapped

\* A run enters nodes in the ledger only after everything the model said of them
\* is stored: the ledger is written last (RecordMappingRun), so what is skipped
\* later was never lost.
THEOREM LedgerLosesNothingEver == Spec => LedgerLosesNothing
<1>1. ASSUME Inv, [Next]_vars, NEW r \in Runs, run[r].pc # "idle", run'[r].pc = "idle",
             ledger' # ledger, NEW p \in run[r].found
      PROVE  proposals'[p].status # "none"
  <2>1. PICK k \in Runs : RecordMappingRun(k)
    BY <1>1, ElsewhereInv DEF Next, Elsewhere, vars, StartAutoMapJob, ReadDocuments, Adjudicate,
       StoreProposals, AbandonRun, AcceptMappingProposals, RejectMappingProposals
  <2>2. r = k
    BY <1>1, <2>1, Types DEF RecordMappingRun
  <2> QED BY <1>1, <2>1, <2>2 DEF RecordMappingRun, Inv, StoredFound
<1>2. Inv /\ [Next]_vars =>
        [\A r \in Runs :
           run[r].pc # "idle" /\ run'[r].pc = "idle" /\ ledger' # ledger
             => \A p \in run[r].found : proposals'[p].status # "none"]_vars
  BY <1>1
<1> QED BY <1>2, InvHolds, PTL DEF Spec, LedgerLosesNothing
=============================================================================
