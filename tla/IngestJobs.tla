----------------------------- MODULE IngestJobs -----------------------------
(***************************************************************************)
(* Long-running jobs: generation, next version, translation, automatic     *)
(* mapping and audit template jobs, the slots they share, the copy each    *)
(* instance keeps in memory and the row all instances share                *)
(* (ingest_jobs).  Several instances of the server may run on one          *)
(* database; an instance may die at any step and marks every running row   *)
(* as failed when it starts again.                                         *)
(*                                                                         *)
(* What a job computes is not modelled here, only what it leaves behind:   *)
(* the document in its row, an overlay, proposals, or a template.  Ticks   *)
(* of progress touch nothing the properties look at.                       *)
(***************************************************************************)
EXTENDS Naturals, FiniteSets

CONSTANTS
  Instances, Jobs, Frameworks,
  KindOf,           \* Jobs -> Kinds
  FrameworkOf,      \* Jobs -> Frameworks
  Ensured,          \* translations started by EnsureCanonicalTranslation
  Unstorable,       \* jobs whose document has a character jsonb rejects
  Slots,            \* cap(llmSem), per instance
  MaxCrashes,       \* bound: instances that die
  MaxFailures,      \* bound: statements on ingest_jobs that fail
  NoInstance

Kinds == {"generate", "next_version", "translate", "automap", "qa_template"}

ASSUME JobsAssumption ==
  /\ KindOf \in [Jobs -> Kinds] /\ FrameworkOf \in [Jobs -> Frameworks]
  /\ Ensured \subseteq {j \in Jobs : KindOf[j] = "translate"}
  /\ Unstorable \subseteq Jobs
  /\ Slots \in Nat \ {0} /\ MaxCrashes \in Nat /\ MaxFailures \in Nat
  /\ NoInstance \notin Instances

VARIABLES
  up,         \* instances that are running
  job,        \* the goroutine of each job: where it is, and what it came to
  memory,     \* ingestJobRegistry: the status of the jobs held in memory
  row,        \* ingest_jobs
  translated, \* frameworks with an English overlay on their latest version
  stored,     \* automap and qa_template jobs that stored what they made
  busy,       \* slots taken, per instance
  crashes, failures,  \* counters for MaxCrashes and MaxFailures
  unsaved,    \* history: jobs whose outcome could not be written to their row
  unreconciled \* history: FailOrphanedJobs failed when an instance started

vars == <<up, job, memory, row, translated, stored, busy,
          crashes, failures, unsaved, unreconciled>>

Outcomes == {"done", "error"}
Phases ==
  {"unborn", "checked", "started", "waiting", "working", "finishing",
   "write", "writeClean", "writeError", "leaving", "ended"}

Unborn == [at |-> NoInstance, pc |-> "unborn", outcome |-> "error"]
NoRow == [status |-> "none", result |-> FALSE]

Init ==
  /\ up = Instances
  /\ job = [j \in Jobs |-> Unborn]
  /\ memory = [j \in Jobs |-> "none"]
  /\ row = [j \in Jobs |-> NoRow]
  /\ translated = {} /\ stored = {}
  /\ busy = [i \in Instances |-> 0]
  /\ crashes = 0 /\ failures = 0
  /\ unsaved = {} /\ unreconciled = FALSE

-----------------------------------------------------------------------------
(* Rows and memory *)

InMemory(j) == KindOf[j] # "qa_template"

\* The jobs that carry a document to their row: the others pass no result.
HasPayload(j) ==
  job[j].outcome = "done" /\ KindOf[j] \in {"generate", "next_version", "qa_template"}

Failing == failures < MaxFailures /\ failures' = failures + 1

HasRunning(f) ==
  \E j \in Jobs : KindOf[j] = "translate" /\ FrameworkOf[j] = f /\ row[j].status = "running"

\* Mutant of Finish: only a running row is finished, as UpdateProgress does.
FinishRunning(j, status, result) ==
  IF row[j].status # "running" THEN row
  ELSE [row EXCEPT ![j] = [status |-> status, result |-> result]]

\* UPDATE ... WHERE id = @id: whatever the row says, if there is one.
Finish(j, status, result) ==
  IF row[j].status = "none" THEN row
  ELSE [row EXCEPT ![j] = [status |-> status, result |-> result]]

\* Mutant of FailOrphaned: every row that is not failed yet.
FailUnfailed(r) ==
  [j \in Jobs |-> IF r[j].status # "none" THEN [r[j] EXCEPT !.status = "error"] ELSE r[j]]

FailOrphaned(r) ==
  [j \in Jobs |-> IF r[j].status = "running" THEN [r[j] EXCEPT !.status = "error"] ELSE r[j]]

\* Adding a job drops entries older than the TTL, whatever their status; how
\* old an entry is is not modelled, so it drops any.
Add(j, i) ==
  \E old \in SUBSET {k \in Jobs : job[k].at = i /\ memory[k] # "none"} :
    memory' = [k \in Jobs |->
                 IF k = j THEN "running" ELSE IF k \in old THEN "none" ELSE memory[k]]

\* What a poll through instance i reads: memory first, then the row.
IngestJobStatus(i, j) ==
  IF job[j].at = i /\ memory[j] # "none" THEN memory[j] ELSE row[j].status

Goto(j, pc) == job' = [job EXCEPT ![j].pc = pc]

-----------------------------------------------------------------------------
(* A request starts a job *)

NeedsTranslation(f) == ~ HasRunning(f) /\ f \notin translated

\* EnsureCanonicalTranslation looks for a running job and for an overlay; the
\* job is recorded later, so another check may come in between.
CheckCanonical(j) ==
  /\ j \in Ensured /\ job[j].pc = "unborn"
  /\ \E i \in up :
       job' = [job EXCEPT ![j].at = i,
                          ![j].pc = IF NeedsTranslation(FrameworkOf[j]) THEN "checked" ELSE "ended"]
  /\ UNCHANGED <<up, memory, row, translated, stored, busy, crashes, failures, unsaved, unreconciled>>

\* The job is added to the memory of the instance that serves the request.
\* Audit template jobs are not.
Start(j) ==
  /\ \E i \in up :
       /\ \/ j \notin Ensured /\ job[j].pc = "unborn"
          \/ job[j].pc = "checked" /\ job[j].at = i
       /\ IF InMemory(j) THEN Add(j, i) ELSE UNCHANGED memory
       /\ job' = [job EXCEPT ![j].at = i, ![j].pc = "started"]
  /\ UNCHANGED <<up, row, translated, stored, busy, crashes, failures, unsaved, unreconciled>>

\* startJobRecord: an insert that fails is only logged.
Record(j) ==
  /\ job[j].pc = "started"
  /\ Goto(j, "waiting")
  /\ \/ /\ row' = [row EXCEPT ![j].status = "running"]
        /\ UNCHANGED failures
     \/ Failing /\ UNCHANGED row
  /\ UNCHANGED <<up, memory, translated, stored, busy, crashes, unsaved, unreconciled>>

-----------------------------------------------------------------------------
(* The goroutine *)

\* Mutant of AcquireSlot: one more goroutine than the channel has room for.
AcquireSlotAnyway(j) ==
  /\ job[j].pc = "waiting" /\ busy[job[j].at] <= Slots
  /\ busy' = [busy EXCEPT ![job[j].at] = @ + 1]
  /\ Goto(j, "working")
  /\ UNCHANGED <<up, memory, row, translated, stored, crashes, failures, unsaved, unreconciled>>

AcquireSlot(j) ==
  /\ job[j].pc = "waiting" /\ busy[job[j].at] < Slots
  /\ busy' = [busy EXCEPT ![job[j].at] = @ + 1]
  /\ Goto(j, "working")
  /\ UNCHANGED <<up, memory, row, translated, stored, crashes, failures, unsaved, unreconciled>>

\* The pipeline succeeded; a translation, a mapping or a template job has
\* committed what it made before it says so.
Produce(j) ==
  /\ job[j].pc = "working"
  /\ job' = [job EXCEPT ![j].pc = "finishing", ![j].outcome = "done"]
  /\ translated' = IF KindOf[j] = "translate" THEN translated \union {FrameworkOf[j]} ELSE translated
  /\ stored' = IF KindOf[j] \in {"automap", "qa_template"} THEN stored \union {j} ELSE stored
  /\ UNCHANGED <<up, memory, row, busy, crashes, failures, unsaved, unreconciled>>

\* Mutant of Break: an error while persisting is logged and the job goes on.
BreakQuietly(j) ==
  /\ job[j].pc = "working"
  /\ job' = [job EXCEPT ![j].pc = "finishing", ![j].outcome = "done"]
  /\ UNCHANGED <<up, memory, row, translated, stored, busy, crashes, failures, unsaved, unreconciled>>

\* OCR, the model, validation or the final transaction failed.
Break(j) ==
  /\ job[j].pc = "working"
  /\ Goto(j, "finishing")
  /\ UNCHANGED <<up, memory, row, translated, stored, busy, crashes, failures, unsaved, unreconciled>>

\* finish: memory first.  An entry dropped meanwhile stays dropped.
FinishMemory(j) ==
  /\ job[j].pc = "finishing"
  /\ Goto(j, "write")
  /\ memory' = IF memory[j] = "none" THEN memory ELSE [memory EXCEPT ![j] = job[j].outcome]
  /\ UNCHANGED <<up, row, translated, stored, busy, crashes, failures, unsaved, unreconciled>>

\* Mutant of AfterFailedWrite: the last resort is forgotten.
AfterFailedWriteGiveUp(j) == IF HasPayload(j) THEN "writeClean" ELSE "leaving"

\* Where a first write that fails leads.  finishQAJob tries once.
AfterFailedWrite(j) ==
  IF ~ InMemory(j) THEN "leaving" ELSE IF HasPayload(j) THEN "writeClean" ELSE "writeError"

Write(j) ==
  /\ job[j].pc = "write"
  /\ \/ /\ ~ (HasPayload(j) /\ j \in Unstorable)
        /\ row' = Finish(j, job[j].outcome, HasPayload(j))
        /\ Goto(j, "leaving")
        /\ UNCHANGED <<failures, unsaved>>
     \/ /\ IF HasPayload(j) /\ j \in Unstorable THEN UNCHANGED failures ELSE Failing
        /\ Goto(j, AfterFailedWrite(j))
        /\ unsaved' = IF InMemory(j) THEN unsaved ELSE unsaved \union {j}
        /\ UNCHANGED row
  /\ UNCHANGED <<up, memory, translated, stored, busy, crashes, unreconciled>>

\* The same document, without the characters jsonb rejects.
WriteClean(j) ==
  /\ job[j].pc = "writeClean"
  /\ \/ /\ row' = Finish(j, "done", TRUE)
        /\ Goto(j, "leaving")
        /\ UNCHANGED failures
     \/ /\ Failing
        /\ Goto(j, "writeError")
        /\ UNCHANGED row
  /\ UNCHANGED <<up, memory, translated, stored, busy, crashes, unsaved, unreconciled>>

\* The last resort: an error without a document.
WriteError(j) ==
  /\ job[j].pc = "writeError"
  /\ Goto(j, "leaving")
  /\ unsaved' = unsaved \union {j}
  /\ \/ row' = Finish(j, "error", FALSE) /\ UNCHANGED failures
     \/ Failing /\ UNCHANGED row
  /\ UNCHANGED <<up, memory, translated, stored, busy, crashes, unreconciled>>

\* The deferred receive from the semaphore.
ReleaseSlot(j) ==
  /\ job[j].pc = "leaving"
  /\ busy' = [busy EXCEPT ![job[j].at] = @ - 1]
  /\ Goto(j, "ended")
  /\ UNCHANGED <<up, memory, row, translated, stored, crashes, failures, unsaved, unreconciled>>

-----------------------------------------------------------------------------
(* Instances *)

\* The process dies, or is told to stop: Run waits for requests, not for jobs.
Crash(i) ==
  /\ i \in up /\ crashes < MaxCrashes
  /\ crashes' = crashes + 1
  /\ up' = up \ {i}
  /\ busy' = [busy EXCEPT ![i] = 0]
  /\ memory' = [j \in Jobs |-> IF job[j].at = i THEN "none" ELSE memory[j]]
  /\ job' = [j \in Jobs |-> IF job[j].at = i THEN [Unborn EXCEPT !.pc = "ended"] ELSE job[j]]
  /\ UNCHANGED <<row, translated, stored, failures, unsaved, unreconciled>>

\* Run calls FailOrphanedJobs before it listens; its failure is only logged.
Restart(i) ==
  /\ i \notin up
  /\ up' = up \union {i}
  /\ \/ /\ row' = FailOrphaned(row)
        /\ UNCHANGED <<failures, unreconciled>>
     \/ Failing /\ unreconciled' = TRUE /\ UNCHANGED row
  /\ UNCHANGED <<job, memory, translated, stored, busy, crashes, unsaved>>

Work(j) == Produce(j) \/ Break(j)

Goroutine(j) ==
  \/ Record(j)
  \/ AcquireSlot(j)
  \/ Work(j)
  \/ FinishMemory(j)
  \/ Write(j)
  \/ WriteClean(j)
  \/ WriteError(j)
  \/ ReleaseSlot(j)

Next ==
  \/ \E j \in Jobs :
       \/ CheckCanonical(j)
       \/ Start(j)
       \/ Goroutine(j)
  \/ \E i \in Instances : Crash(i) \/ Restart(i)

\* Every model call is bounded by the client's timeout, waiting senders of a
\* channel are served in order, and an instance that stops is started again by
\* its supervisor.  Nothing obliges a user to start a job, or a process to die.
Fairness ==
  /\ \A j \in Jobs : WF_vars(Goroutine(j))
  /\ \A i \in Instances : WF_vars(Restart(i))

Spec == Init /\ [][Next]_vars /\ Fairness

-----------------------------------------------------------------------------
(* Properties *)

\* Every variable has its type, and no instance runs more jobs at once than it
\* has slots.
TypeOK ==
  /\ up \subseteq Instances
  /\ job \in [Jobs -> [at : Instances \union {NoInstance}, pc : Phases, outcome : Outcomes]]
  /\ memory \in [Jobs -> {"none", "running"} \union Outcomes]
  /\ row \in [Jobs -> [status : {"none", "running"} \union Outcomes, result : BOOLEAN]]
  /\ translated \subseteq Frameworks /\ stored \subseteq Jobs
  /\ busy \in [Instances -> 0 .. Slots]
  /\ crashes \in 0 .. MaxCrashes /\ failures \in 0 .. MaxFailures
  /\ unsaved \subseteq Jobs /\ unreconciled \in BOOLEAN

HasEffect(j) ==
  CASE KindOf[j] = "translate" -> FrameworkOf[j] \in translated
    [] KindOf[j] \in {"automap", "qa_template"} -> j \in stored
    [] OTHER -> row[j].result

\* A job whose row says done has left what it was started for: the document a
\* reviewer comes back to, the overlay, the proposals or the template.
DoneHasEffect == \A j \in Jobs : row[j].status = "done" => HasEffect(j)

\* Once its goroutine has ended, a job's row tells its outcome, also when another
\* instance that started meanwhile had declared the job dead.  Only an outcome
\* that could not be written is lost.
OutcomeKept ==
  \A j \in Jobs :
    job[j].pc = "ended" /\ job[j].at # NoInstance /\ row[j].status # "none" /\ j \notin unsaved
      => row[j].status = job[j].outcome

\* The row of a finished job is never touched again: neither an instance that
\* starts later nor another job takes away the document kept for review.
DoneIsFinal == [][\A j \in Jobs : row[j].status = "done" => row'[j] = row[j]]_vars

\* Some instance answers a poll with "running".
ShownRunning(j) == \E i \in up : IngestJobStatus(i, j) = "running"

\* A job is not shown as running for ever, by whichever instance is polled, across
\* a write that fails, a document jsonb rejects, memory dropped early and an
\* instance that dies.  Out of reach of the code: a database that was down when
\* the instance that could have reconciled the row started.  Audit template jobs
\* are left out: see AuditJobsEnd.
JobsEnd ==
  \A j \in {k \in Jobs : InMemory(k)} :
    ShownRunning(j) ~> (~ ShownRunning(j) \/ unreconciled)

\* The same of audit template jobs: a claim of job_store.go that finishQAJob,
\* which writes once, does not keep.
AuditJobsEnd ==
  \A j \in Jobs : ShownRunning(j) ~> (~ ShownRunning(j) \/ unreconciled)

\* At most one translation of a framework is under way among those started
\* automatically: a claim of needsCanonicalTranslation that nothing enforces.
TranslatedOnce ==
  \A j, k \in Ensured :
    /\ FrameworkOf[j] = FrameworkOf[k]
    /\ job[j].pc \in {"waiting", "working"} /\ job[k].pc \in {"waiting", "working"}
    => j = k

\* A job whose goroutine is alive is not shown as failed by another instance: a
\* claim of FailOrphanedJobs that holds of one instance only.
LiveJobNotFailed ==
  \A j \in Jobs : job[j].pc \in {"waiting", "working"} => row[j].status # "error"
=============================================================================
