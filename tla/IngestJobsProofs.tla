-------------------------- MODULE IngestJobsProofs --------------------------
(***************************************************************************)
(* Theorems about IngestJobs for any number of instances, jobs, slots,     *)
(* crashes and failures.  One inductive invariant, Inv:                    *)
(*                                                                         *)
(*   TypeOK         the types, with the slots an instance has taken;       *)
(*   SlotsCounted   a slot is taken for each goroutine between             *)
(*                  AcquireSlot and ReleaseSlot, and for no other: without *)
(*                  it a slot could be given back that nobody had taken;   *)
(*   JobOK(j)       of each job: a goroutine under way runs on an instance *)
(*                  that is up (PlacedJob), what its row may say at each   *)
(*                  phase (RowFollows), what it has committed once it      *)
(*                  succeeded (Produced), and OutcomeKept, already while   *)
(*                  it holds its slot after the write (Told).              *)
(*                                                                         *)
(* A step of one job leaves JobOK of the others alone (OthersKept), so     *)
(* each action has three obligations: types, slots, and the job it moves.  *)
(***************************************************************************)
EXTENDS IngestJobs, TLAPS, FiniteSetTheorems

USE JobsAssumption DEF JobsAssumption

-----------------------------------------------------------------------------
(* The inductive invariant *)

\* The phases in which a goroutine holds a slot.
Holding == {"working", "finishing", "write", "writeClean", "writeError", "leaving"}
Holders(i) == {j \in Jobs : job[j].at = i /\ job[j].pc \in Holding}

SlotsCounted ==
  \A i \in Instances : IsFiniteSet(Holders(i)) /\ busy[i] = Cardinality(Holders(i))

PlacedJob(j) ==
  /\ job[j].pc = "unborn" => job[j] = Unborn
  /\ job[j].pc \notin {"unborn", "ended"} => job[j].at \in up

RowFollows(j) ==
  /\ job[j].pc \in {"unborn", "checked", "started"} => row[j].status = "none"
  /\ row[j].status = "done" => job[j].pc \in {"leaving", "ended"} /\ HasEffect(j)

Produced(j) ==
  /\ job[j].outcome = "done" =>
       /\ job[j].pc \in {"finishing", "write", "writeClean", "writeError", "leaving", "ended"}
       /\ KindOf[j] = "translate" => FrameworkOf[j] \in translated
       /\ KindOf[j] \in {"automap", "qa_template"} => j \in stored
  /\ job[j].pc = "writeClean" => HasPayload(j)

Told(j) ==
  /\ job[j].pc \in {"leaving", "ended"} /\ job[j].at # NoInstance
  /\ row[j].status # "none" /\ j \notin unsaved
  => row[j].status = job[j].outcome

JobOK(j) == PlacedJob(j) /\ RowFollows(j) /\ Produced(j) /\ Told(j)

Inv == TypeOK /\ SlotsCounted /\ \A j \in Jobs : JobOK(j)

JobType == [at : Instances \union {NoInstance}, pc : Phases, outcome : Outcomes]
RowType == [status : {"none", "running"} \union Outcomes, result : BOOLEAN]

LEMMA Types == Inv => job \in [Jobs -> JobType] /\ row \in [Jobs -> RowType]
  BY DEF Inv, TypeOK, JobType, RowType

LEMMA InitInv == Init => Inv
<1> SUFFICES ASSUME Init PROVE Inv OBVIOUS
<1>1. TypeOK
  <2>1. Unborn \in [at : Instances \union {NoInstance}, pc : Phases, outcome : Outcomes]
    BY DEF Unborn, Phases, Outcomes
  <2>2. NoRow \in [status : {"none", "running"} \union Outcomes, result : BOOLEAN]
    BY DEF NoRow
  <2>3. busy \in [Instances -> 0 .. Slots] /\ crashes \in 0 .. MaxCrashes /\ failures \in 0 .. MaxFailures
    BY DEF Init
  <2> QED BY <2>1, <2>2, <2>3 DEF Init, TypeOK
<1>2. ASSUME NEW i \in Instances PROVE Holders(i) = {}
  BY DEF Init, Holders, Holding, Unborn
<1>3. SlotsCounted
  BY <1>2, FS_EmptySet DEF Init, SlotsCounted
<1>4. ASSUME NEW j \in Jobs PROVE JobOK(j)
  BY DEF Init, JobOK, PlacedJob, RowFollows, Produced, Told, Unborn, NoRow
<1> QED BY <1>1, <1>3, <1>4 DEF Inv

-----------------------------------------------------------------------------
(* Slots *)

\* A step of one job that leaves busy alone and moves the job between phases
\* that both hold a slot, or that both hold none.
LEMMA SlotsUntouched ==
  ASSUME Inv, NEW j \in Jobs, UNCHANGED busy,
         \A k \in Jobs \ {j} : job'[k].at = job[k].at /\ job'[k].pc = job[k].pc,
         job[j].pc \in Holding <=> job'[j].pc \in Holding,
         job[j].pc \in Holding => job'[j].at = job[j].at
  PROVE  SlotsCounted'
<1>1. ASSUME NEW i \in Instances PROVE Holders(i)' = Holders(i)
  BY DEF Holders
<1> QED BY <1>1 DEF Inv, SlotsCounted

LEMMA SlotTaken ==
  ASSUME Inv, NEW j \in Jobs, AcquireSlot(j)
  PROVE  SlotsCounted' /\ busy' \in [Instances -> 0 .. Slots]
<1>1. job[j].at \in Instances
  BY DEF Inv, JobOK, PlacedJob, TypeOK, AcquireSlot
<1>2. PICK at \in Instances : job[j].at = at
  BY <1>1
<1>3. job' = [job EXCEPT ![j].pc = "working"] /\ job[j].pc = "waiting"
  BY DEF AcquireSlot, Goto
<1>4. Holders(at)' = Holders(at) \union {j} /\ j \notin Holders(at)
  BY <1>2, <1>3 DEF Inv, TypeOK, Holders, Holding
<1>5. ASSUME NEW i \in Instances, i # at PROVE Holders(i)' = Holders(i)
  BY <1>2, <1>3, <1>5 DEF Inv, TypeOK, Holders, Holding
<1>6. /\ busy \in [Instances -> 0 .. Slots] /\ busy[at] < Slots
      /\ busy' = [busy EXCEPT ![at] = busy[at] + 1]
  BY <1>2 DEF AcquireSlot, Inv, TypeOK
<1>7. busy' \in [Instances -> 0 .. Slots]
  BY <1>6
<1>8. IsFiniteSet(Holders(at)') /\ busy'[at] = Cardinality(Holders(at)')
  <2>1. IsFiniteSet(Holders(at)) /\ busy[at] = Cardinality(Holders(at))
    BY DEF Inv, SlotsCounted
  <2> QED BY <1>4, <1>6, <2>1, FS_AddElement
<1>9. ASSUME NEW i \in Instances PROVE IsFiniteSet(Holders(i)') /\ busy'[i] = Cardinality(Holders(i)')
  BY <1>5, <1>6, <1>8 DEF Inv, SlotsCounted
<1> QED BY <1>7, <1>9 DEF SlotsCounted

LEMMA SlotGivenBack ==
  ASSUME Inv, NEW j \in Jobs, ReleaseSlot(j)
  PROVE  SlotsCounted' /\ busy' \in [Instances -> 0 .. Slots]
<1>1. job[j].at \in Instances
  BY DEF Inv, JobOK, PlacedJob, TypeOK, ReleaseSlot
<1>2. PICK at \in Instances : job[j].at = at
  BY <1>1
<1>3. job' = [job EXCEPT ![j].pc = "ended"] /\ job[j].pc = "leaving"
  BY DEF ReleaseSlot, Goto
<1>4. Holders(at)' = Holders(at) \ {j} /\ j \in Holders(at)
  BY <1>2, <1>3 DEF Inv, TypeOK, Holders, Holding
<1>5. ASSUME NEW i \in Instances, i # at PROVE Holders(i)' = Holders(i)
  BY <1>2, <1>3, <1>5 DEF Inv, TypeOK, Holders, Holding
<1>6. /\ busy \in [Instances -> 0 .. Slots]
      /\ busy' = [busy EXCEPT ![at] = busy[at] - 1]
  BY <1>2 DEF ReleaseSlot, Inv, TypeOK
<1>7. IsFiniteSet(Holders(at)) /\ busy[at] = Cardinality(Holders(at))
  BY DEF Inv, SlotsCounted
<1>8. busy[at] # 0
  BY <1>4, <1>7, FS_EmptySet
<1>9. busy' \in [Instances -> 0 .. Slots]
  BY <1>6, <1>8
<1>10. IsFiniteSet(Holders(at)') /\ busy'[at] = Cardinality(Holders(at)')
  BY <1>4, <1>6, <1>7, FS_RemoveElement
<1>11. ASSUME NEW i \in Instances PROVE IsFiniteSet(Holders(i)') /\ busy'[i] = Cardinality(Holders(i)')
  BY <1>5, <1>6, <1>10 DEF Inv, SlotsCounted
<1> QED BY <1>9, <1>11 DEF SlotsCounted

-----------------------------------------------------------------------------
(* Steps *)

\* What a step of job j does to the others: nothing that JobOK looks at.
LEMMA OthersKept ==
  ASSUME Inv, NEW j \in Jobs, UNCHANGED up,
         translated \subseteq translated', stored \subseteq stored', unsaved \subseteq unsaved',
         \A k \in Jobs \ {j} : job'[k] = job[k] /\ row'[k] = row[k],
         JobOK(j)'
  PROVE  \A k \in Jobs : JobOK(k)'
<1> SUFFICES ASSUME NEW k \in Jobs \ {j} PROVE JobOK(k)' OBVIOUS
<1>1. job'[k] = job[k] /\ row'[k] = row[k] /\ JobOK(k)
  BY DEF Inv
<1>2. HasEffect(k) => HasEffect(k)'
  BY <1>1 DEF HasEffect
<1>3. HasPayload(k)' <=> HasPayload(k)
  BY <1>1 DEF HasPayload
<1> QED BY <1>1, <1>2, <1>3 DEF JobOK, PlacedJob, RowFollows, Produced, Told

LEMMA Move ==
  ASSUME Inv, NEW j \in Jobs, NEW pc \in Phases, Goto(j, pc)
  PROVE  /\ job' \in [Jobs -> JobType]
         /\ \A k \in Jobs \ {j} : job'[k] = job[k]
         /\ job'[j].pc = pc /\ job'[j].at = job[j].at /\ job'[j].outcome = job[j].outcome
<1>1. job \in [Jobs -> JobType] BY Types
<1>2. job' = [job EXCEPT ![j].pc = pc] BY DEF Goto
<1> QED BY <1>1, <1>2 DEF JobType

LEMMA RowWritten ==
  ASSUME Inv, NEW j \in Jobs, NEW status \in Outcomes, NEW result \in BOOLEAN,
         row' = Finish(j, status, result)
  PROVE  /\ row' \in [Jobs -> RowType]
         /\ \A k \in Jobs \ {j} : row'[k] = row[k]
         /\ IF row[j].status = "none" THEN row'[j] = row[j]
            ELSE row'[j].status = status /\ row'[j].result = result
<1>1. row \in [Jobs -> RowType] BY Types
<1>2. [status |-> status, result |-> result] \in RowType BY DEF RowType
<1> QED BY <1>1, <1>2 DEF Finish

LEMMA CheckCanonicalInv ==
  ASSUME Inv, NEW j \in Jobs, CheckCanonical(j)
  PROVE  Inv'
<1>1. PICK i \in up :
        job' = [job EXCEPT ![j].at = i,
                           ![j].pc = IF NeedsTranslation(FrameworkOf[j]) THEN "checked" ELSE "ended"]
  BY DEF CheckCanonical
<1>2. job[j] = Unborn /\ row[j].status = "none"
  BY DEF CheckCanonical, Inv, JobOK, PlacedJob, RowFollows
<1>3. PICK t \in {[at |-> i, pc |-> "checked", outcome |-> "error"], [at |-> i, pc |-> "ended", outcome |-> "error"]} :
        job' = [job EXCEPT ![j] = t]
  BY <1>1, <1>2, Types DEF Unborn
<1>4. t \in JobType
  BY DEF JobType, Phases, Outcomes, Inv, TypeOK
<1>5. SlotsCounted'
  <2>1. job'[j] = t /\ \A k \in Jobs \ {j} : job'[k] = job[k]
    BY <1>3, Types
  <2>2. job[j].pc \notin Holding /\ job'[j].pc \notin Holding
    BY <1>2, <2>1 DEF Unborn, Holding
  <2> QED BY <2>1, <2>2, SlotsUntouched DEF CheckCanonical
<1>6. TypeOK'
  BY <1>3, <1>4, Types DEF CheckCanonical, Inv, TypeOK, JobType
<1>7. JobOK(j)'
  BY <1>2, <1>3, Types DEF CheckCanonical, JobOK, PlacedJob, RowFollows, Produced, Told, HasPayload
<1> QED BY <1>3, <1>5, <1>6, <1>7, Types, OthersKept DEF Inv, CheckCanonical

LEMMA StartInv ==
  ASSUME Inv, NEW j \in Jobs, Start(j)
  PROVE  Inv'
<1>1. PICK i \in up :
        /\ job' = [job EXCEPT ![j].at = i, ![j].pc = "started"]
        /\ job[j].pc \in {"unborn", "checked"}
        /\ IF InMemory(j) THEN Add(j, i) ELSE UNCHANGED memory
  BY DEF Start
<1>2. /\ job' \in [Jobs -> JobType] /\ \A k \in Jobs \ {j} : job'[k] = job[k]
      /\ job'[j].at = i /\ job'[j].pc = "started" /\ job'[j].outcome = job[j].outcome
  <2>1. i \in Instances BY DEF Inv, TypeOK
  <2> QED BY <1>1, <2>1, Types DEF JobType, Phases
<1>3. SlotsCounted'
  <2>1. job[j].pc \notin Holding /\ job'[j].pc \notin Holding
    BY <1>1, <1>2 DEF Holding
  <2> QED BY <1>2, <2>1, SlotsUntouched DEF Start
<1>4. memory' \in [Jobs -> {"none", "running"} \union Outcomes]
  BY <1>1 DEF Add, Inv, TypeOK
<1>5. TypeOK'
  BY <1>2, <1>4 DEF Start, Inv, TypeOK, JobType
<1>6. JobOK(j)'
  BY <1>1, <1>2 DEF Start, Inv, JobOK, PlacedJob, RowFollows, Produced, Told, HasPayload
<1> QED BY <1>2, <1>3, <1>5, <1>6, OthersKept DEF Inv, Start

LEMMA RecordInv ==
  ASSUME Inv, NEW j \in Jobs, Record(j)
  PROVE  Inv'
<1>1. Goto(j, "waiting") /\ "waiting" \in Phases /\ job[j].pc = "started"
  BY DEF Record, Phases
<1>2. /\ row' \in [Jobs -> RowType] /\ \A k \in Jobs \ {j} : row'[k] = row[k]
      /\ row'[j].status \in {row[j].status, "running"}
  BY Types DEF Record, RowType
<1>3. SlotsCounted'
  BY <1>1, Move, SlotsUntouched DEF Record, Holding
<1>4. failures' \in 0 .. MaxFailures
  BY DEF Record, Failing, Inv, TypeOK
<1>5. TypeOK'
  BY <1>1, <1>2, <1>4, Move DEF Record, Inv, TypeOK, JobType, RowType
<1>6. JobOK(j)'
  BY <1>1, <1>2, Move DEF Record, Inv, JobOK, PlacedJob, RowFollows, Produced, Told, HasPayload
<1> QED BY <1>1, <1>2, <1>3, <1>5, <1>6, Move, OthersKept DEF Inv, Record

LEMMA AcquireSlotInv ==
  ASSUME Inv, NEW j \in Jobs, AcquireSlot(j)
  PROVE  Inv'
<1>1. Goto(j, "working") /\ "working" \in Phases /\ job[j].pc = "waiting"
  BY DEF AcquireSlot, Phases
<1>2. SlotsCounted' /\ busy' \in [Instances -> 0 .. Slots]
  BY SlotTaken
<1>3. TypeOK'
  BY <1>1, <1>2, Move DEF AcquireSlot, Inv, TypeOK, JobType
<1>4. JobOK(j)'
  BY <1>1, Move DEF AcquireSlot, Inv, JobOK, PlacedJob, RowFollows, Produced, Told, HasPayload
<1> QED BY <1>1, <1>2, <1>3, <1>4, Move, OthersKept DEF Inv, AcquireSlot

LEMMA ProduceInv ==
  ASSUME Inv, NEW j \in Jobs, Produce(j)
  PROVE  Inv'
<1>1. /\ job' \in [Jobs -> JobType] /\ \A k \in Jobs \ {j} : job'[k] = job[k]
      /\ job'[j].at = job[j].at /\ job'[j].pc = "finishing" /\ job'[j].outcome = "done"
  BY Types DEF Produce, JobType, Phases, Outcomes
<1>2. job[j].pc = "working"
  BY DEF Produce
<1>3. SlotsCounted'
  BY <1>1, <1>2, SlotsUntouched DEF Produce, Holding
<1>4. translated' \subseteq Frameworks /\ stored' \subseteq Jobs
  BY DEF Produce, Inv, TypeOK
<1>5. TypeOK'
  BY <1>1, <1>4 DEF Produce, Inv, TypeOK, JobType
<1>6. JobOK(j)'
  BY <1>1, <1>2 DEF Produce, Inv, JobOK, PlacedJob, RowFollows, Produced, Told, HasPayload
<1>7. translated \subseteq translated' /\ stored \subseteq stored'
  BY DEF Produce
<1> QED BY <1>1, <1>3, <1>5, <1>6, <1>7, OthersKept DEF Inv, Produce

LEMMA BreakInv ==
  ASSUME Inv, NEW j \in Jobs, Break(j)
  PROVE  Inv'
<1>1. Goto(j, "finishing") /\ "finishing" \in Phases /\ job[j].pc = "working"
  BY DEF Break, Phases
<1>2. SlotsCounted'
  BY <1>1, Move, SlotsUntouched DEF Break, Holding
<1>3. TypeOK'
  BY <1>1, Move DEF Break, Inv, TypeOK, JobType
<1>4. JobOK(j)'
  BY <1>1, Move DEF Break, Inv, JobOK, PlacedJob, RowFollows, Produced, Told, HasPayload
<1> QED BY <1>1, <1>2, <1>3, <1>4, Move, OthersKept DEF Inv, Break

LEMMA FinishMemoryInv ==
  ASSUME Inv, NEW j \in Jobs, FinishMemory(j)
  PROVE  Inv'
<1>1. Goto(j, "write") /\ "write" \in Phases /\ job[j].pc = "finishing"
  BY DEF FinishMemory, Phases
<1>2. SlotsCounted'
  BY <1>1, Move, SlotsUntouched DEF FinishMemory, Holding
<1>3. memory' \in [Jobs -> {"none", "running"} \union Outcomes]
  BY Types DEF FinishMemory, Inv, TypeOK, JobType
<1>4. TypeOK'
  BY <1>1, <1>3, Move DEF FinishMemory, Inv, TypeOK, JobType
<1>5. JobOK(j)'
  BY <1>1, Move DEF FinishMemory, Inv, JobOK, PlacedJob, RowFollows, Produced, Told, HasPayload
<1> QED BY <1>1, <1>2, <1>4, <1>5, Move, OthersKept DEF Inv, FinishMemory

\* The first write: the outcome reaches the row and the goroutine leaves, or the
\* row is as it was.
LEMMA WriteInv ==
  ASSUME Inv, NEW j \in Jobs, Write(j)
  PROVE  Inv'
<1>1. PICK pc \in Phases : Goto(j, pc) /\ pc \in {"leaving", "writeClean", "writeError"}
  BY DEF Write, AfterFailedWrite, Phases
<1>2. /\ job' \in [Jobs -> JobType] /\ \A k \in Jobs \ {j} : job'[k] = job[k]
      /\ job'[j].pc = pc /\ job'[j].at = job[j].at /\ job'[j].outcome = job[j].outcome
  BY <1>1, Move
<1>3. job[j].pc = "write" /\ job[j].outcome \in Outcomes /\ HasPayload(j) \in BOOLEAN
  BY Types DEF Write, JobType, HasPayload
<1>4. HasPayload(j)' <=> HasPayload(j)
  BY <1>2 DEF HasPayload
<1>5. row[j].status # "done" /\ Produced(j) /\ PlacedJob(j)
  BY <1>3 DEF Inv, JobOK, RowFollows
<1>6. SlotsCounted'
  BY <1>1, <1>2, <1>3, SlotsUntouched DEF Write, Holding
<1>7. /\ row' \in [Jobs -> RowType] /\ \A k \in Jobs \ {j} : row'[k] = row[k]
      /\ unsaved \subseteq unsaved' /\ unsaved' \subseteq Jobs /\ failures' \in 0 .. MaxFailures
  <2>1. CASE row' = Finish(j, job[j].outcome, HasPayload(j)) /\ UNCHANGED <<failures, unsaved>>
    BY <1>3, <2>1, RowWritten DEF Inv, TypeOK
  <2>2. CASE row' = row /\ unsaved' = (IF InMemory(j) THEN unsaved ELSE unsaved \union {j})
             /\ (failures' = failures \/ Failing)
    BY <2>2, Types DEF Failing, Inv, TypeOK
  <2> QED BY <2>1, <2>2 DEF Write
<1>8. TypeOK'
  BY <1>2, <1>7 DEF Write, Inv, TypeOK, JobType, RowType
<1>9. JobOK(j)'
  <2>1. PlacedJob(j)'
    BY <1>1, <1>2, <1>3, <1>5 DEF Write, PlacedJob
  <2>2. CASE /\ pc = "leaving" /\ row' = Finish(j, job[j].outcome, HasPayload(j))
             /\ UNCHANGED unsaved
    <3>1. IF row[j].status = "none" THEN row'[j] = row[j]
          ELSE row'[j].status = job[j].outcome /\ row'[j].result = HasPayload(j)
      BY <1>3, <2>2, RowWritten
    <3>2. row'[j].status = "done" => HasEffect(j)'
      BY <1>3, <1>5, <3>1 DEF Write, HasEffect, Produced, HasPayload, Kinds
    <3> QED BY <1>2, <1>3, <1>5, <2>1, <2>2, <3>1, <3>2 DEF Write, JobOK, RowFollows, Produced, Told
  <2>3. CASE /\ pc = AfterFailedWrite(j) /\ UNCHANGED row
             /\ unsaved' = (IF InMemory(j) THEN unsaved ELSE unsaved \union {j})
    BY <1>2, <1>3, <1>4, <1>5, <2>1, <2>3
       DEF Write, AfterFailedWrite, JobOK, RowFollows, Produced, Told
  <2> QED BY <1>1, <1>2, <2>2, <2>3, Types DEF Write, Goto, JobType
<1> QED BY <1>2, <1>6, <1>7, <1>8, <1>9, OthersKept DEF Inv, Write

LEMMA WriteCleanInv ==
  ASSUME Inv, NEW j \in Jobs, WriteClean(j)
  PROVE  Inv'
<1>1. PICK pc \in {"leaving", "writeError"} :
        /\ Goto(j, pc)
        /\ \/ pc = "leaving" /\ row' = Finish(j, "done", TRUE) /\ UNCHANGED failures
           \/ pc = "writeError" /\ Failing /\ UNCHANGED row
  BY DEF WriteClean
<1>2. /\ job' \in [Jobs -> JobType] /\ \A k \in Jobs \ {j} : job'[k] = job[k]
      /\ job'[j].pc = pc /\ job'[j].at = job[j].at /\ job'[j].outcome = job[j].outcome
  BY <1>1, Move DEF Phases
<1>3. job[j].pc = "writeClean" /\ HasPayload(j) /\ Produced(j) /\ PlacedJob(j) /\ row[j].status # "done"
  BY DEF WriteClean, Inv, JobOK, Produced, RowFollows
<1>4. SlotsCounted'
  BY <1>2, <1>3, SlotsUntouched DEF WriteClean, Holding
<1>5. /\ row' \in [Jobs -> RowType] /\ \A k \in Jobs \ {j} : row'[k] = row[k]
      /\ failures' \in 0 .. MaxFailures
      /\ \/ row'[j] = row[j]
         \/ pc = "leaving" /\ row'[j].status = "done" /\ row'[j].result = TRUE
      /\ pc = "leaving" => row'[j].status \in {"none", "done"}
  <2>1. CASE pc = "leaving" /\ row' = Finish(j, "done", TRUE) /\ UNCHANGED failures
    BY <2>1, RowWritten, ZenonT(40) DEF Outcomes, Inv, TypeOK
  <2>2. CASE pc = "writeError" /\ Failing /\ UNCHANGED row
    BY <2>2, Types DEF Failing, Inv, TypeOK
  <2> QED BY <1>1, <2>1, <2>2
<1>6. TypeOK'
  BY <1>2, <1>5 DEF WriteClean, Inv, TypeOK, JobType, RowType
<1>7. JobOK(j)'
  <2>1. row'[j].status = "done" => pc = "leaving" /\ HasEffect(j)'
    BY <1>3, <1>5 DEF WriteClean, HasEffect, HasPayload, Produced
  <2>2. PlacedJob(j)' /\ Produced(j)'
    BY <1>1, <1>2, <1>3 DEF WriteClean, PlacedJob, Produced
  <2>3. Told(j)'
    BY <1>1, <1>2, <1>3, <1>5 DEF WriteClean, Told, HasPayload
  <2> QED BY <1>1, <1>2, <2>1, <2>2, <2>3 DEF JobOK, RowFollows
<1> QED BY <1>2, <1>4, <1>5, <1>6, <1>7, OthersKept DEF Inv, WriteClean

LEMMA WriteErrorInv ==
  ASSUME Inv, NEW j \in Jobs, WriteError(j)
  PROVE  Inv'
<1>1. /\ job' \in [Jobs -> JobType] /\ \A k \in Jobs \ {j} : job'[k] = job[k]
      /\ job'[j].pc = "leaving" /\ job'[j].at = job[j].at /\ job'[j].outcome = job[j].outcome
  BY Move DEF WriteError, Phases
<1>2. job[j].pc = "writeError" /\ Produced(j) /\ PlacedJob(j) /\ row[j].status # "done"
  BY DEF WriteError, Inv, JobOK, RowFollows
<1>3. SlotsCounted'
  BY <1>1, <1>2, SlotsUntouched DEF WriteError, Holding
<1>4. /\ row' \in [Jobs -> RowType] /\ \A k \in Jobs \ {j} : row'[k] = row[k]
      /\ failures' \in 0 .. MaxFailures /\ row'[j].status # "done"
  <2>1. CASE row' = Finish(j, "error", FALSE) /\ UNCHANGED failures
    BY <1>2, <2>1, RowWritten DEF Outcomes, Inv, TypeOK
  <2>2. CASE Failing /\ UNCHANGED row
    BY <1>2, <2>2, Types DEF Failing, Inv, TypeOK
  <2> QED BY <2>1, <2>2 DEF WriteError
<1>5. TypeOK'
  BY <1>1, <1>4 DEF WriteError, Inv, TypeOK, JobType, RowType
<1>6. JobOK(j)'
  BY <1>1, <1>2, <1>4 DEF WriteError, JobOK, PlacedJob, RowFollows, Produced, Told
<1>7. unsaved \subseteq unsaved'
  BY DEF WriteError
<1> QED BY <1>1, <1>3, <1>4, <1>5, <1>6, <1>7, OthersKept DEF Inv, WriteError

LEMMA ReleaseSlotInv ==
  ASSUME Inv, NEW j \in Jobs, ReleaseSlot(j)
  PROVE  Inv'
<1>1. Goto(j, "ended") /\ "ended" \in Phases /\ job[j].pc = "leaving"
  BY DEF ReleaseSlot, Phases
<1>2. SlotsCounted' /\ busy' \in [Instances -> 0 .. Slots]
  BY SlotGivenBack
<1>3. TypeOK'
  BY <1>1, <1>2, Move DEF ReleaseSlot, Inv, TypeOK, JobType
<1>4. JobOK(j)'
  BY <1>1, Move DEF ReleaseSlot, Inv, JobOK, PlacedJob, RowFollows, Produced, Told, HasPayload, HasEffect
<1> QED BY <1>1, <1>2, <1>3, <1>4, Move, OthersKept DEF Inv, ReleaseSlot

\* An instance that dies takes its goroutines, its memory and its slots with it.
LEMMA CrashInv ==
  ASSUME Inv, NEW i \in Instances, Crash(i)
  PROVE  Inv'
<1>1. /\ job' = [j \in Jobs |-> IF job[j].at = i THEN [Unborn EXCEPT !.pc = "ended"] ELSE job[j]]
      /\ busy' = [busy EXCEPT ![i] = 0] /\ up' = up \ {i}
  BY DEF Crash
<1>2. Holders(i)' = {}
  BY <1>1 DEF Holders, Unborn
<1>3. ASSUME NEW k \in Instances, k # i PROVE Holders(k)' = Holders(k)
  BY <1>1, <1>3 DEF Holders, Unborn
<1>4. ASSUME NEW k \in Instances PROVE IsFiniteSet(Holders(k)') /\ busy'[k] = Cardinality(Holders(k)')
  BY <1>1, <1>2, <1>3, FS_EmptySet DEF Inv, SlotsCounted, TypeOK
<1>5. SlotsCounted'
  BY <1>4 DEF SlotsCounted
<1>6. TypeOK'
  <2>1. job' \in [Jobs -> JobType]
    BY <1>1, Types DEF JobType, Phases, Outcomes, Unborn
  <2>2. memory' \in [Jobs -> {"none", "running"} \union Outcomes]
    BY DEF Crash, Inv, TypeOK
  <2>3. busy' \in [Instances -> 0 .. Slots] /\ crashes' \in 0 .. MaxCrashes
    BY DEF Crash, Inv, TypeOK
  <2>4. up' \subseteq Instances
    BY DEF Crash, Inv, TypeOK
  <2> QED BY <2>1, <2>2, <2>3, <2>4 DEF Crash, Inv, TypeOK, JobType
<1>7. ASSUME NEW j \in Jobs PROVE JobOK(j)'
  <2>1. CASE job[j].at = i
    <3>1. job'[j] = [at |-> NoInstance, pc |-> "ended", outcome |-> "error"]
      BY <1>1, <2>1 DEF Unborn
    <3>2. row[j].status = "done" => HasEffect(j)'
      BY DEF Crash, Inv, JobOK, RowFollows, HasEffect
    <3> QED BY <3>1, <3>2 DEF Crash, JobOK, PlacedJob, RowFollows, Produced, Told
  <2>2. CASE job[j].at # i
    <3>1. job'[j] = job[j]
      BY <1>1, <2>2
    <3> QED BY <1>1, <2>2, <3>1
            DEF Crash, Inv, JobOK, PlacedJob, RowFollows, Produced, Told, HasEffect, HasPayload
  <2> QED BY <2>1, <2>2
<1> QED BY <1>5, <1>6, <1>7 DEF Inv

\* The rows an instance reconciles are those no goroutine has finished.
LEMMA RestartInv ==
  ASSUME Inv, NEW i \in Instances, Restart(i)
  PROVE  Inv'
<1>1. ASSUME NEW k \in Instances PROVE Holders(k)' = Holders(k)
  BY DEF Restart, Holders
<1>2. SlotsCounted'
  BY <1>1 DEF Inv, SlotsCounted, Restart
<1>3. /\ row' \in [Jobs -> RowType]
      /\ \A j \in Jobs :
           \/ row'[j] = row[j]
           \/ row[j].status = "running" /\ row'[j].status = "error"
  <2>1. CASE row' = FailOrphaned(row)
    <3>1. ASSUME NEW j \in Jobs
          PROVE  /\ row'[j] \in RowType
                 /\ \/ row'[j] = row[j]
                    \/ row[j].status = "running" /\ row'[j].status = "error"
      BY <2>1, Types DEF FailOrphaned, RowType, Outcomes
    <3> QED BY <2>1, <3>1 DEF FailOrphaned
  <2>2. CASE row' = row
    BY <2>2, Types
  <2> QED BY <2>1, <2>2 DEF Restart
<1>4. TypeOK'
  <2>1. up' \subseteq Instances
    BY DEF Restart, Inv, TypeOK
  <2>2. failures' \in 0 .. MaxFailures /\ unreconciled' \in BOOLEAN
    <3>1. failures \in 0 .. MaxFailures /\ unreconciled \in BOOLEAN
      BY DEF Inv, TypeOK
    <3>2. \/ UNCHANGED <<failures, unreconciled>>
          \/ Failing /\ unreconciled' = TRUE
      BY DEF Restart
    <3>3. failures' \in 0 .. MaxFailures
      BY <3>1, <3>2 DEF Failing
    <3>4. unreconciled' \in BOOLEAN
      BY <3>1, <3>2, Zenon
    <3> QED BY <3>3, <3>4
  <2> QED BY <1>3, <2>1, <2>2 DEF Restart, Inv, TypeOK, RowType
<1>5. ASSUME NEW j \in Jobs PROVE JobOK(j)'
  <2>1. CASE row'[j] = row[j]
    BY <2>1 DEF Restart, Inv, JobOK, PlacedJob, RowFollows, Produced, Told, HasEffect, HasPayload
  <2>2. CASE row[j].status = "running" /\ row'[j].status = "error"
    <3>1. job[j].outcome # "running"
      BY Types DEF JobType, Outcomes
    <3> QED BY <2>2, <3>1 DEF Restart, Inv, JobOK, PlacedJob, RowFollows, Produced, Told, HasPayload
  <2> QED BY <1>3, <2>1, <2>2
<1> QED BY <1>2, <1>4, <1>5 DEF Inv

LEMMA StepInv == Inv /\ [Next]_vars => Inv'
<1> SUFFICES ASSUME Inv, [Next]_vars PROVE Inv' OBVIOUS
<1>1. ASSUME NEW j \in Jobs, CheckCanonical(j) PROVE Inv'
  BY <1>1, CheckCanonicalInv
<1>2. ASSUME NEW j \in Jobs, Start(j) PROVE Inv'
  BY <1>2, StartInv
<1>3. ASSUME NEW j \in Jobs, Goroutine(j) PROVE Inv'
  BY <1>3, RecordInv, AcquireSlotInv, ProduceInv, BreakInv, FinishMemoryInv, WriteInv, WriteCleanInv,
     WriteErrorInv, ReleaseSlotInv DEF Goroutine, Work
<1>4. ASSUME NEW i \in Instances, Crash(i) \/ Restart(i) PROVE Inv'
  BY <1>4, CrashInv, RestartInv
<1>5. CASE UNCHANGED vars
  <2>1. ASSUME NEW i \in Instances PROVE Holders(i)' = Holders(i)
    BY <1>5 DEF vars, Holders
  <2>2. SlotsCounted'
    BY <1>5, <2>1 DEF vars, Inv, SlotsCounted
  <2>3. ASSUME NEW j \in Jobs PROVE JobOK(j)'
    BY <1>5 DEF vars, Inv, JobOK, PlacedJob, RowFollows, Produced, Told, HasEffect, HasPayload
  <2> QED BY <1>5, <2>2, <2>3 DEF vars, Inv, TypeOK
<1> QED BY <1>1, <1>2, <1>3, <1>4, <1>5 DEF Next

-----------------------------------------------------------------------------
(* Theorems *)

LEMMA InvHolds == Spec => []Inv
  BY InitInv, StepInv, PTL DEF Spec

\* Every variable keeps its type; in particular no instance of the server ever
\* runs more jobs than it has slots (llmSem), and none gives back a slot nobody
\* had taken, however often instances die and start again.
THEOREM TypeCorrect == Spec => []TypeOK
<1>1. Inv => TypeOK BY DEF Inv
<1> QED BY <1>1, InvHolds, PTL

\* A row that says done belongs to a job whose document, overlay, proposals or
\* template is there: finish and its two retries never say done too early.
THEOREM DoneJobsHaveTheirEffect == Spec => []DoneHasEffect
<1>1. Inv => DoneHasEffect BY DEF Inv, JobOK, RowFollows, DoneHasEffect
<1> QED BY <1>1, InvHolds, PTL

\* The row of a job whose goroutine has ended tells its outcome, whatever another
\* instance wrote to it at its start, unless no write of the outcome succeeded.
THEOREM OutcomesAreKept == Spec => []OutcomeKept
<1>1. Inv => OutcomeKept BY DEF Inv, JobOK, Told, OutcomeKept
<1> QED BY <1>1, InvHolds, PTL

\* What a step does to the row of a job that is done.
LEMMA DoneRowKept ==
  ASSUME Inv, [Next]_vars, NEW j \in Jobs, row[j].status = "done"
  PROVE  row'[j] = row[j]
<1>1. job[j].pc \in {"leaving", "ended"}
  BY DEF Inv, JobOK, RowFollows
<1>2. ASSUME NEW k \in Jobs, Record(k) \/ Write(k) \/ WriteClean(k) \/ WriteError(k)
      PROVE  row'[j] = row[j]
  <2>1. k # j BY <1>1, <1>2 DEF Record, Write, WriteClean, WriteError
  <2> QED BY <1>2, <2>1, Types DEF Record, Write, WriteClean, WriteError, Finish
<1>3. ASSUME NEW i \in Instances, Restart(i) PROVE row'[j] = row[j]
  BY <1>3 DEF Restart, FailOrphaned
<1>4. ASSUME NEW k \in Jobs,
             CheckCanonical(k) \/ Start(k) \/ AcquireSlot(k) \/ Work(k) \/ FinishMemory(k) \/ ReleaseSlot(k)
      PROVE  row'[j] = row[j]
  BY <1>4 DEF CheckCanonical, Start, AcquireSlot, Work, Produce, Break, FinishMemory, ReleaseSlot
<1>5. ASSUME NEW i \in Instances, Crash(i) PROVE row'[j] = row[j]
  BY <1>5 DEF Crash
<1>6. CASE UNCHANGED vars
  BY <1>6 DEF vars
<1> QED BY <1>2, <1>3, <1>4, <1>5, <1>6 DEF Next, Goroutine

\* Nothing touches the row of a finished job again: neither an instance that
\* starts, nor the write of another goroutine.
THEOREM DoneRowsAreFinal == Spec => DoneIsFinal
<1>1. Inv /\ [Next]_vars => [\A j \in Jobs : row[j].status = "done" => row'[j] = row[j]]_vars
  BY DoneRowKept
<1> QED BY <1>1, InvHolds, PTL DEF Spec, DoneIsFinal
=============================================================================
