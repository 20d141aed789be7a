---------------------------- MODULE RegistrySync ----------------------------
(***************************************************************************)
(* A consumer that keeps a directory in step with the registry             *)
(* (distclient.Sync): the first run walks the catalog and adopts the feed  *)
(* head as its cursor, every later run drains the change feed page by page *)
(* and saves the cursor after each page.                                   *)
(*                                                                         *)
(* The registry is ReleaseRegister and moves at any time between two steps *)
(* of the consumer.  A step of the consumer is one request or one file     *)
(* written.  It may be killed before any step and in the middle of writing *)
(* a file, a request or a write may fail, and whatever a run had in memory *)
(* is lost at its end.  After a saved page memory and disk agree, so a run *)
(* that goes on with the next page is modelled as the start of another.    *)
(* Mapping sets travel through the same feed to files of their own and are *)
(* left out.                                                               *)
(***************************************************************************)
EXTENDS Naturals, Sequences, FiniteSets, SequencesExt

CONSTANTS
  Frameworks, Versions, FrameworkOf,
  TextOf,       \* what a version requires, as far as a delta compares it
  NoVersion,    \* no file, or nothing held
  Torn,         \* a file whose writer was killed in the middle
  PageSize,     \* events in one page of the feed
  MaxFaults,    \* bound: requests and writes that fail
  MaxCrashes    \* bound: runs killed

ASSUME SyncAssumption ==
  /\ IsFiniteSet(Versions) /\ FrameworkOf \in [Versions -> Frameworks]
  /\ NoVersion \notin Versions /\ Torn \notin Versions \union {NoVersion}
  /\ PageSize \in Nat \ {0} /\ MaxFaults \in Nat /\ MaxCrashes \in Nat

VARIABLES
  phase, hash, log,     \* the registry
  disk,                 \* the state file: cursor and held versions
  seed, bundle, delta,  \* the files of each framework
  run,                  \* what the run under way has in memory
  faults, crashes,
  handled,              \* history: feed positions whose handler ran to its end
  failed,               \* history: versions the consumer failed to pull
  stuck,                \* history: versions whose files could not be removed
  walk                  \* history: the feed when the catalog was read and when
                        \* the head was adopted

registry == <<phase, hash, log>>
files == <<seed, bundle, delta>>
history == <<handled, failed, stuck, walk>>
vars == <<registry, disk, files, run, faults, crashes, history>>

\* A content hash covers the version and its time of publication, so it names it.
Registry == INSTANCE ReleaseRegister WITH Hashes <- Versions, NoHash <- NoVersion

Nothing == [f \in Frameworks |-> NoVersion]
NoDelta == <<NoVersion, NoVersion>>
TornDelta == <<Torn, Torn>>
NewDisk == [cursor |-> 0, held |-> Nothing, torn |-> FALSE]
TornDisk == [cursor |-> 0, held |-> Nothing, torn |-> TRUE]

\* Memory of a run: the entries or events still to handle, the version held of
\* each framework, the cursor to save at the end of the page, and, while a
\* bundle is being written, the version found on disk before.
IdleRun ==
  [step |-> "idle", cold |-> FALSE, todo |-> <<>>, held |-> Nothing, next |-> 0,
   baseline |-> NoVersion]

Init ==
  /\ Registry!Init
  /\ disk = NewDisk
  /\ seed = Nothing /\ bundle = Nothing
  /\ delta = [f \in Frameworks |-> NoDelta]
  /\ run = IdleRun
  /\ faults = 0 /\ crashes = 0
  /\ handled = {} /\ failed = {} /\ stuck = {}
  /\ walk = [seen |-> 0, head |-> 0]

-----------------------------------------------------------------------------
(* What the registry answers *)

\* Positions of the events that released what is still published.
Live(f) == {i \in DOMAIN log : /\ log[i].kind = "published"
                               /\ FrameworkOf[log[i].version] = f
                               /\ phase[log[i].version] = "released"}
LatestPublished(f) == log[CHOOSE i \in Live(f) : \A j \in Live(f) : j <= i].version

Catalog == {LatestPublished(f) : f \in {g \in Frameworks : Live(g) # {}}}
Fetchable(v) == phase[v] = "released"

\* The events after a cursor, with their positions.
Page(cursor) ==
  LET last == IF cursor + PageSize < Len(log) THEN cursor + PageSize ELSE Len(log)
  IN  [i \in 1..(last - cursor) |->
         [kind |-> log[cursor + i].kind, version |-> log[cursor + i].version, seq |-> cursor + i]]

-----------------------------------------------------------------------------
(* The consumer *)

Item == Head(run.todo)
Framework == FrameworkOf[Item.version]

\* The item at hand is done with: the run goes on to the next one.
Done(held) ==
  /\ run' = [run EXCEPT !.step = "work", !.todo = Tail(@), !.held = held, !.baseline = NoVersion]
  /\ handled' = IF run.cold THEN handled ELSE handled \union {Item.seq}

\* Requests and writes that fail do so without a trace but the reported failure.
Fault == /\ faults < MaxFaults /\ faults' = faults + 1
Fail ==
  /\ Fault
  /\ Done(run.held)
  /\ failed' = failed \union {Item.version}

AtItem(step) == run.step = step /\ run.todo # <<>>

ColdStart ==
  /\ run.step = "idle" /\ ~disk.torn /\ disk.cursor = 0
  /\ run' = [IdleRun EXCEPT
       !.step = "work", !.cold = TRUE, !.held = disk.held,
       !.todo = SetToSeq({[kind |-> "published", version |-> v, seq |-> 0] : v \in Catalog})]
  /\ walk' = [walk EXCEPT !.seen = Len(log)]
  /\ failed' = {}
  /\ UNCHANGED <<registry, disk, files, faults, crashes, handled, stuck>>

\* Mutant of FetchPage: the cursor moves by a full page, however few events came.
FetchPageOvershooting ==
  /\ run.step = "idle" /\ ~disk.torn /\ disk.cursor # 0
  /\ Page(disk.cursor) # <<>>
  /\ run' = [IdleRun EXCEPT
       !.step = "work", !.held = disk.held, !.todo = Page(disk.cursor),
       !.next = disk.cursor + PageSize]
  /\ UNCHANGED <<registry, disk, files, faults, crashes, history>>

FetchPage ==
  /\ run.step = "idle" /\ ~disk.torn /\ disk.cursor # 0
  /\ Page(disk.cursor) # <<>>
  /\ run' = [IdleRun EXCEPT
       !.step = "work", !.held = disk.held, !.todo = Page(disk.cursor),
       !.next = disk.cursor + Len(Page(disk.cursor))]
  /\ UNCHANGED <<registry, disk, files, faults, crashes, history>>

Pulling == AtItem("work") /\ Item.kind = "published"

\* Mutant of Skip: a framework that is held at all is not fetched.
SkipHeld ==
  /\ Pulling
  /\ run.held[Framework] # NoVersion
  /\ Done(run.held)
  /\ UNCHANGED <<registry, disk, files, faults, crashes, failed, stuck, walk>>

\* The hash of the entry or event is the one already held: nothing is fetched.
Skip ==
  /\ Pulling
  /\ run.held[Framework] = Item.version
  /\ Done(run.held)
  /\ UNCHANGED <<registry, disk, files, faults, crashes, failed, stuck, walk>>

\* Mutant of Fetch: the bundle on disk is not read before it is overwritten.
FetchBlindly ==
  /\ Pulling
  /\ run.held[Framework] # Item.version
  /\ Fetchable(Item.version)
  /\ run' = [run EXCEPT !.step = "fetched"]
  /\ UNCHANGED <<registry, disk, files, faults, crashes, history>>

\* Fetched and verified; the bundle on disk, if it can be read, is the baseline
\* of a delta.
Fetch ==
  /\ Pulling
  /\ run.held[Framework] # Item.version
  /\ Fetchable(Item.version)
  /\ run' = [run EXCEPT !.step = "fetched",
                        !.baseline = IF run.held[Framework] = NoVersion \/ bundle[Framework] = Torn
                                     THEN NoVersion ELSE bundle[Framework]]
  /\ UNCHANGED <<registry, disk, files, faults, crashes, history>>

\* The registry refuses: the version was withdrawn or erased in the meantime.
Refused ==
  /\ Pulling
  /\ run.held[Framework] # Item.version
  /\ ~Fetchable(Item.version)
  /\ Done(run.held)
  /\ UNCHANGED <<registry, disk, files, faults, crashes, failed, stuck, walk>>

FetchFails ==
  /\ Pulling
  /\ run.held[Framework] # Item.version
  /\ Fail
  /\ UNCHANGED <<registry, disk, files, crashes, stuck, walk>>

WriteSeed ==
  /\ AtItem("fetched")
  /\ seed' = [seed EXCEPT ![Framework] = Item.version]
  /\ run' = [run EXCEPT !.step = "seeded"]
  /\ UNCHANGED <<registry, disk, bundle, delta, faults, crashes, history>>

WriteBundle ==
  /\ AtItem("seeded")
  /\ bundle' = [bundle EXCEPT ![Framework] = Item.version]
  /\ run' = [run EXCEPT !.step = "bundled"]
  /\ UNCHANGED <<registry, disk, seed, delta, faults, crashes, history>>

HasDelta ==
  /\ run.baseline \notin {NoVersion, Item.version}
  /\ TextOf[run.baseline] # TextOf[Item.version]

\* What a write leaves behind that does not come to its end: os.WriteFile
\* empties the file first.
TornWrite ==
  \/ AtItem("fetched") /\ seed' = [seed EXCEPT ![Framework] = Torn] /\ UNCHANGED <<bundle, delta>>
  \/ AtItem("seeded") /\ bundle' = [bundle EXCEPT ![Framework] = Torn] /\ UNCHANGED <<seed, delta>>
  \/ /\ AtItem("bundled") /\ HasDelta
     /\ delta' = [delta EXCEPT ![Framework] = TornDelta] /\ UNCHANGED <<seed, bundle>>

\* A file that cannot be written ends the pull, what was written before it stays.
WriteFails ==
  /\ AtItem("fetched") \/ AtItem("seeded")
  /\ Fail
  /\ TornWrite \/ UNCHANGED files
  /\ UNCHANGED <<registry, disk, crashes, stuck, walk>>

\* The delta, whose failure to be written is ignored, and the version now held.
FinishPull ==
  /\ AtItem("bundled")
  /\ \/ /\ delta' = IF HasDelta THEN [delta EXCEPT ![Framework] = <<run.baseline, Item.version>>]
                    ELSE delta
        /\ UNCHANGED faults
     \/ HasDelta /\ Fault /\ delta' \in {delta, [delta EXCEPT ![Framework] = TornDelta]}
  /\ Done([run.held EXCEPT ![Framework] = Item.version])
  /\ UNCHANGED <<registry, disk, seed, bundle, crashes, failed, stuck, walk>>

\* Mutant of Retire: only the files of the version that is held are removed.
RetireHeld ==
  LET match == run.held[Framework] = Item.version IN
  /\ AtItem("work") /\ Item.kind = "deprecated"
  /\ seed' = IF match THEN [seed EXCEPT ![Framework] = NoVersion] ELSE seed
  /\ bundle' = IF match THEN [bundle EXCEPT ![Framework] = NoVersion] ELSE bundle
  /\ Done(IF match THEN [run.held EXCEPT ![Framework] = NoVersion] ELSE run.held)
  /\ UNCHANGED <<registry, disk, delta, faults, crashes, failed, stuck, walk>>

\* By framework, whatever version is held.  The framework is forgotten and the
\* event is handled whether the files could be removed or not.
Retire ==
  LET noSeed == [seed EXCEPT ![Framework] = NoVersion]
      noBundle == [bundle EXCEPT ![Framework] = NoVersion]
  IN  /\ AtItem("work") /\ Item.kind = "deprecated"
      /\ \/ seed' = noSeed /\ bundle' = noBundle /\ UNCHANGED <<faults, stuck>>
         \/ /\ Fault
            /\ seed' \in {seed, noSeed} /\ bundle' \in {bundle, noBundle}
            /\ stuck' = stuck \union ({seed'[Framework], bundle'[Framework]} \intersect Versions)
      /\ Done([run.held EXCEPT ![Framework] = NoVersion])
      /\ UNCHANGED <<registry, disk, delta, crashes, failed, walk>>

AllHandled == run.step = "work" /\ run.todo = <<>>

Save(cursor) == disk' = [cursor |-> cursor, held |-> run.held, torn |-> FALSE]

\* The head is asked for after the catalog was walked, and saved with the rest.
AdoptHead ==
  /\ AllHandled /\ run.cold
  /\ \/ Save(Len(log)) /\ UNCHANGED faults
     \/ Fault /\ Save(0)
  /\ walk' = [walk EXCEPT !.head = disk'.cursor]
  /\ run' = IdleRun
  /\ UNCHANGED <<registry, files, crashes, handled, failed, stuck>>

\* Mutants of SavePage: the head is adopted, or the cursor never advances.
SaveHead ==
  /\ AllHandled /\ ~run.cold
  /\ Save(Len(log))
  /\ run' = IdleRun
  /\ UNCHANGED <<registry, files, faults, crashes, history>>

SaveOldCursor ==
  /\ AllHandled /\ ~run.cold
  /\ Save(disk.cursor)
  /\ run' = IdleRun
  /\ UNCHANGED <<registry, files, faults, crashes, history>>

SavePage ==
  /\ AllHandled /\ ~run.cold
  /\ Save(run.next)
  /\ run' = IdleRun
  /\ UNCHANGED <<registry, files, faults, crashes, history>>

\* The state file cannot be written: the run ends with an error.
SaveFails ==
  /\ AllHandled
  /\ Fault
  /\ run' = IdleRun
  /\ disk' \in {disk, TornDisk}
  /\ UNCHANGED <<registry, files, crashes, history>>

\* Killed: between two steps, in the middle of the write it was at, or with the
\* first of the two files of a retired framework removed.
Crash ==
  /\ run.step # "idle"
  /\ crashes < MaxCrashes
  /\ crashes' = crashes + 1
  /\ run' = IdleRun
  /\ \/ UNCHANGED <<disk, files>>
     \/ TornWrite /\ UNCHANGED disk
     \/ /\ AtItem("work") /\ Item.kind = "deprecated"
        /\ seed' = [seed EXCEPT ![Framework] = NoVersion]
        /\ UNCHANGED <<disk, bundle, delta>>
     \/ AllHandled /\ disk' = TornDisk /\ UNCHANGED files
  /\ UNCHANGED <<registry, faults, history>>

\* A run that finds the state file unreadable stops and says which file the
\* operator has to delete.
DeleteState ==
  /\ disk.torn
  /\ disk' = NewDisk
  /\ UNCHANGED <<registry, files, run, faults, crashes, history>>

-----------------------------------------------------------------------------

RegistryStep ==
  /\ \/ \E v \in Versions : Registry!Release(v, v) \/ Registry!Withdraw(v)
     \/ \E f \in Frameworks, gone \in SUBSET Versions : Registry!Erase(f, gone)
  /\ UNCHANGED <<disk, files, run, faults, crashes, history>>

\* What a run does when it is let.
Proceed ==
  \/ ColdStart \/ FetchPage \/ Skip \/ Fetch \/ Refused \/ WriteSeed \/ WriteBundle
  \/ FinishPull \/ Retire \/ AdoptHead \/ SavePage

Next == RegistryStep \/ Proceed \/ FetchFails \/ WriteFails \/ SaveFails \/ Crash \/ DeleteState

Spec == Init /\ [][Next]_vars

\* The consumer runs Sync again and again, a run goes on until it ends, and
\* somebody reads the error that names the file to delete.
FairSpec == Spec /\ WF_vars(Proceed) /\ WF_vars(DeleteState)

-----------------------------------------------------------------------------
(* Properties *)

Files == Versions \union {NoVersion, Torn}
Held == [Frameworks -> Versions \union {NoVersion}]
Items == [kind : {"published", "deprecated"}, version : Versions, seq : Nat]

\* Every variable has the type of the file or memory it stands for.
TypeOK ==
  /\ Registry!TypeOK
  /\ disk \in [cursor : 0..Len(log), held : Held, torn : BOOLEAN]
  /\ seed \in [Frameworks -> Files] /\ bundle \in [Frameworks -> Files]
  /\ delta \in [Frameworks -> Files \X Files]
  /\ run \in [step : {"idle", "work", "fetched", "seeded", "bundled"}, cold : BOOLEAN,
              todo : Seq(Items), held : Held, next : 0..Len(log),
              baseline : Versions \union {NoVersion}]
  /\ faults \in 0..MaxFaults /\ crashes \in 0..MaxCrashes
  /\ handled \subseteq 1..Len(log) /\ failed \subseteq Versions /\ stuck \subseteq Versions
  /\ walk \in [seen : 0..Len(log), head : 0..Len(log)]

\* The cursor advances over handled events only (Sync): whatever failed or was
\* killed, every event from the adopted head to the saved cursor was handled.
NothingSkipped == ~disk.torn => (walk.head + 1)..disk.cursor \subseteq handled

CaughtUp == run.step = "idle" /\ ~disk.torn /\ log # <<>> /\ disk.cursor = Len(log)

\* Positions of what the feed says of a framework.
About(f) == {i \in DOMAIN log : FrameworkOf[log[i].version] = f}
LastAbout(f) == CHOOSE i \in About(f) : \A j \in About(f) : j <= i

\* Not told to anybody: announced after the catalog was read, before the head
\* was adopted.
InGap(i) == walk.seen < i /\ i <= walk.head

Keeps(f, v) == disk.held[f] = v /\ seed[f] = v /\ bundle[f] = v

\* The newest thing the feed says of f is the release of v, still published.
Newest(f, v) ==
  /\ About(f) # {}
  /\ log[LastAbout(f)] = [kind |-> "published", version |-> v, hash |-> v]
  /\ phase[v] = "released"

\* A consumer that has caught up holds what was released last of a framework,
\* in its files and in its state, also when runs were killed on the way; two
\* exceptions, a pull that failed and a release in the gap of a cold start.
NewestIsHeld ==
  CaughtUp => \A f \in Frameworks, v \in Versions :
    Newest(f, v) /\ v \notin failed /\ ~InGap(LastAbout(f)) => Keeps(f, v)

\* A consumer that has caught up does not hold a version whose withdrawal the
\* feed carried, and has none of its files but those that could not be removed,
\* whatever failed or was killed on the way (retire).
WithdrawnIsDropped ==
  CaughtUp => \A f \in Frameworks : \A i \in About(f) :
    i > walk.head /\ log[i].kind = "deprecated" =>
      /\ log[i].version # disk.held[f]
      /\ log[i].version \notin {seed[f], bundle[f]} \ stuck

\* A consumer that upgrades a framework it held is left with the difference
\* between the two versions, when there is any (SyncedFramework.Delta), as long
\* as nothing failed and no run was killed.
UpgradeHasDelta ==
  [][\A f \in Frameworks :
       LET old == run.held[f]  new == run'.held[f] IN
       /\ run.step = "bundled" /\ run'.step = "work"
       /\ faults' = 0 /\ crashes = 0
       /\ NoVersion \notin {old, new}
       /\ TextOf[old] # TextOf[new]
       => delta'[f] = <<old, new>>]_vars

\* What the consumer may build on: the feed is complete and never repeats itself.
FeedTellsAll == Registry!FeedTellsAll
AnnouncedOnce == Registry!AnnouncedOnce

\* The consumer catches up, at the latest when the registry comes to rest.
CatchesUp == <>[](~disk.torn /\ disk.cursor = Len(log))

\* "Anything published during the walk is re-covered by the next changes poll
\* rather than missed" (syncFromCatalog).
WalkMissesNothing ==
  CaughtUp => \A f \in Frameworks, v \in Versions :
    Newest(f, v) /\ v \notin failed => disk.held[f] = v

\* A consumer that persists the cursor after successful imports, as Sync is
\* said to, "can never skip one" (ChangeFeed.NextSeq).
FailedPullIsRetried ==
  CaughtUp => \A f \in Frameworks, v \in Versions :
    Newest(f, v) /\ ~InGap(LastAbout(f)) => disk.held[f] = v

\* "A correction ships as a new version plus a deprecated event for the old
\* one" (API-SYNC.md): a consumer that was told both has the correction.
CorrectionIsHeld ==
  CaughtUp /\ failed = {} /\ walk.seen = walk.head =>
    \A f \in Frameworks : Live(f) # {} => disk.held[f] = LatestPublished(f)

\* retire "drops a deprecated framework's local files": what was withdrawn after
\* the cold start has no file left.
RetiredFilesAreGone ==
  CaughtUp => \A f \in Frameworks : \A i \in About(f) :
    i > walk.head /\ log[i].kind = "deprecated" => log[i].version \notin {seed[f], bundle[f]}
=============================================================================
