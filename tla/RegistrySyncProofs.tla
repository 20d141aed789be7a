------------------------- MODULE RegistrySyncProofs -------------------------
(***************************************************************************)
(* What a consumer may rely on, for any number of frameworks, versions,    *)
(* failures and crashes.  The inductive invariant, Inv, is made of TypeOK  *)
(* and                                                                     *)
(*                                                                         *)
(*   Told     what the registry promises.  It moves as ReleaseRegister     *)
(*            does, which is proved about first, for any hashes; that a    *)
(*            withdrawal comes after its release is added here;            *)
(*   Shape    what a run has in memory is a part of the catalog or the     *)
(*            stretch of the feed after the event handled last;            *)
(*   Passed   every event from the adopted head to that one was handled;   *)
(*   Dropped  what a handled event withdrew is not held, in memory or on   *)
(*            disk, and has no file but one that could not be removed;     *)
(*   Known    what is held was announced, before the cursor;               *)
(*   Kept     the newest version of a framework has its files whenever it  *)
(*            is held, is held once its event was handled, and is on the   *)
(*            list of a cold start until then;                             *)
(*   Calm     while nothing failed, the bundle on disk is the version      *)
(*            held, which is the baseline of a pull.                       *)
(***************************************************************************)
EXTENDS RegistrySync, FiniteSetTheorems, TLAPS

Feed(H, N) == INSTANCE ReleaseRegister WITH Hashes <- H, NoHash <- N

-----------------------------------------------------------------------------
(* ReleaseRegister, for any hashes: what the feed says of a version is     *)
(* complete and is said once.  The parts of Truthful are inductive         *)
(* together: a release is announced once because nothing was said of an    *)
(* open version, and a withdrawal because only releases were said of a     *)
(* released one.                                                           *)

Truthful(H, N) == Feed(H, N)!TypeOK /\ Feed(H, N)!FeedTellsAll /\ Feed(H, N)!AnnouncedOnce

LEMMA InitTruthful ==
  ASSUME NEW CONSTANT H, NEW CONSTANT N, Feed(H, N)!Init PROVE Truthful(H, N)
  BY DEF Feed!Init, Truthful, Feed!TypeOK, Feed!Phases, Feed!FeedTellsAll, Feed!AnnouncedOnce

\* What appending one event does to the feed.
LEMMA Announced ==
  ASSUME NEW CONSTANT H, NEW CONSTANT N, Feed(H, N)!TypeOK,
         NEW kind \in {"published", "deprecated"}, NEW v \in Versions, NEW h \in H,
         Feed(H, N)!Announce(kind, v, h)
  PROVE  /\ log' \in Seq(Feed(H, N)!Event)
         /\ Len(log) \in Nat /\ DOMAIN log = 1..Len(log) /\ DOMAIN log' = 1..(Len(log) + 1)
         /\ \A i \in DOMAIN log : log'[i] = log[i]
         /\ log'[Len(log) + 1] = [kind |-> kind, version |-> v, hash |-> h]
<1> DEFINE e == [kind |-> kind, version |-> v, hash |-> h]
<1>1. e \in Feed(H, N)!Event BY DEF Feed!Event
<1>2. log \in Seq(Feed(H, N)!Event) /\ log' = Append(log, e) BY DEF Feed!TypeOK, Feed!Announce
<1> HIDE DEF e
<1>3. /\ log' \in Seq(Feed(H, N)!Event)
      /\ Len(log) \in Nat /\ DOMAIN log = 1..Len(log) /\ DOMAIN log' = 1..(Len(log) + 1)
      /\ \A i \in DOMAIN log : log'[i] = log[i]
      /\ log'[Len(log) + 1] = e
  BY <1>1, <1>2
<1> QED BY <1>3 DEF e

LEMMA ReleaseTruthful ==
  ASSUME NEW CONSTANT H, NEW CONSTANT N, Truthful(H, N),
         NEW v \in Versions, NEW h \in H, Feed(H, N)!Release(v, h)
  PROVE  Truthful(H, N)'
<1> PICK n : n = Len(log) + 1 OBVIOUS
<1>1. /\ log' \in Seq(Feed(H, N)!Event)
      /\ Len(log) \in Nat /\ DOMAIN log = 1..Len(log) /\ DOMAIN log' = 1..n
      /\ \A i \in DOMAIN log : log'[i] = log[i]
      /\ log'[n] = [kind |-> "published", version |-> v, hash |-> h]
  BY Announced DEF Feed!Release, Truthful
<1>2. /\ phase[v] = "open" /\ phase' = [phase EXCEPT ![v] = "released"]
      /\ hash' = [hash EXCEPT ![v] = h]
  BY DEF Feed!Release
<1>3. /\ phase \in [Versions -> Feed(H, N)!Phases] /\ hash \in [Versions -> H \union {N}]
      /\ \A i \in DOMAIN log : log[i].version # v
  BY <1>2 DEF Truthful, Feed!TypeOK, Feed!FeedTellsAll
<1>4. Feed(H, N)!TypeOK' BY <1>1, <1>2, <1>3 DEF Feed!TypeOK, Feed!Phases
<1>5. Feed(H, N)!AnnouncedOnce'
  BY <1>1, <1>3 DEF Feed!AnnouncedOnce, Truthful
<1>6. Feed(H, N)!FeedTellsAll'
  <2> SUFFICES ASSUME NEW w \in Versions
               PROVE  /\ phase'[w] = "open" => \A i \in DOMAIN log' : log'[i].version # w
                      /\ phase'[w] = "released" =>
                           /\ \E i \in DOMAIN log' : Feed(H, N)!Tells(i, "published", w, hash[w])'
                           /\ \A i \in DOMAIN log' : log'[i].version = w => log'[i].kind = "published"
                      /\ phase'[w] = "withdrawn" =>
                           \E i, j \in DOMAIN log' : /\ i < j
                                                     /\ Feed(H, N)!Tells(i, "published", w, hash[w])'
                                                     /\ Feed(H, N)!Tells(j, "deprecated", w, hash[w])'
    BY DEF Feed!FeedTellsAll
  <2>1. CASE w = v
    <3>1. phase'[w] = "released" /\ hash'[w] = h BY <1>2, <1>3, <2>1
    <3>2. n \in DOMAIN log' /\ Feed(H, N)!Tells(n, "published", w, hash[w])'
      BY <1>1, <2>1, <3>1 DEF Feed!Tells
    <3> QED BY <1>1, <1>3, <2>1, <3>1, <3>2
  <2>2. CASE w # v
    <3>1. phase'[w] = phase[w] /\ hash'[w] = hash[w] BY <1>2, <1>3, <2>2
    <3> QED BY <1>1, <2>2, <3>1 DEF Truthful, Feed!FeedTellsAll, Feed!Tells
  <2> QED BY <2>1, <2>2
<1> QED BY <1>4, <1>5, <1>6 DEF Truthful

LEMMA WithdrawTruthful ==
  ASSUME NEW CONSTANT H, NEW CONSTANT N, Truthful(H, N),
         NEW v \in Versions, Feed(H, N)!Withdraw(v)
  PROVE  Truthful(H, N)'
<1> PICK n : n = Len(log) + 1 OBVIOUS
<1>1. /\ phase[v] = "released" /\ phase' = [phase EXCEPT ![v] = "withdrawn"] /\ hash' = hash
      /\ Feed(H, N)!Announce("deprecated", v, hash[v])
  BY DEF Feed!Withdraw
<1>2. /\ phase \in [Versions -> Feed(H, N)!Phases] /\ hash \in [Versions -> H \union {N}]
      /\ \A i \in DOMAIN log : log[i].version = v => log[i].kind = "published"
  BY <1>1 DEF Truthful, Feed!TypeOK, Feed!FeedTellsAll
<1>3. PICK p \in DOMAIN log : Feed(H, N)!Tells(p, "published", v, hash[v])
  BY <1>1 DEF Truthful, Feed!FeedTellsAll
<1>4. hash[v] \in H
  <2>1. log[p] \in Feed(H, N)!Event BY <1>3 DEF Truthful, Feed!TypeOK
  <2> QED BY <1>3, <2>1 DEF Feed!Tells, Feed!Event
<1>5. /\ log' \in Seq(Feed(H, N)!Event)
      /\ Len(log) \in Nat /\ DOMAIN log = 1..Len(log) /\ DOMAIN log' = 1..n
      /\ \A i \in DOMAIN log : log'[i] = log[i]
      /\ log'[n] = [kind |-> "deprecated", version |-> v, hash |-> hash[v]]
  BY <1>1, <1>4, Announced DEF Truthful
<1>6. Feed(H, N)!TypeOK' BY <1>1, <1>2, <1>5 DEF Feed!TypeOK, Feed!Phases
<1>7. Feed(H, N)!AnnouncedOnce' BY <1>2, <1>5 DEF Feed!AnnouncedOnce, Truthful
<1>8. Feed(H, N)!FeedTellsAll'
  <2> SUFFICES ASSUME NEW w \in Versions
               PROVE  /\ phase'[w] = "open" => \A i \in DOMAIN log' : log'[i].version # w
                      /\ phase'[w] = "released" =>
                           /\ \E i \in DOMAIN log' : Feed(H, N)!Tells(i, "published", w, hash[w])'
                           /\ \A i \in DOMAIN log' : log'[i].version = w => log'[i].kind = "published"
                      /\ phase'[w] = "withdrawn" =>
                           \E i, j \in DOMAIN log' : /\ i < j
                                                     /\ Feed(H, N)!Tells(i, "published", w, hash[w])'
                                                     /\ Feed(H, N)!Tells(j, "deprecated", w, hash[w])'
    BY DEF Feed!FeedTellsAll
  <2>1. CASE w = v
    <3>1. phase'[w] = "withdrawn" BY <1>1, <1>2, <2>1
    <3>2. p \in DOMAIN log' /\ p < n /\ Feed(H, N)!Tells(p, "published", w, hash[w])'
      BY <1>1, <1>3, <1>5, <2>1 DEF Feed!Tells
    <3>3. n \in DOMAIN log' /\ Feed(H, N)!Tells(n, "deprecated", w, hash[w])'
      BY <1>1, <1>5, <2>1 DEF Feed!Tells
    <3> QED BY <3>1, <3>2, <3>3
  <2>2. CASE w # v
    <3>1. phase'[w] = phase[w] /\ hash'[w] = hash[w] BY <1>1, <1>2, <2>2
    <3>2. log'[n].version # w BY <1>5, <2>2
    <3>3. \A i \in DOMAIN log' : i # n => i \in DOMAIN log /\ log'[i] = log[i] BY <1>5
    <3>4. \A i \in DOMAIN log : i \in DOMAIN log' BY <1>5
    <3>5. CASE phase[w] = "open" BY <3>1, <3>2, <3>3, <3>5 DEF Truthful, Feed!FeedTellsAll
    <3>6. CASE phase[w] = "released"
      <4>1. PICK i \in DOMAIN log : Feed(H, N)!Tells(i, "published", w, hash[w])
        BY <3>6 DEF Truthful, Feed!FeedTellsAll
      <4>2. i \in DOMAIN log' /\ Feed(H, N)!Tells(i, "published", w, hash[w])'
        BY <1>5, <3>1, <4>1 DEF Feed!Tells
      <4>3. \A j \in DOMAIN log' : log'[j].version = w => log'[j].kind = "published"
        BY <3>2, <3>3, <3>6 DEF Truthful, Feed!FeedTellsAll
      <4> QED BY <3>1, <3>6, <4>2, <4>3
    <3>7. CASE phase[w] = "withdrawn"
      BY <1>5, <3>1, <3>4, <3>7 DEF Truthful, Feed!FeedTellsAll, Feed!Tells
    <3>8. CASE phase[w] \notin {"open", "released", "withdrawn"} BY <3>1, <3>8
    <3> QED BY <3>5, <3>6, <3>7, <3>8
  <2> QED BY <2>1, <2>2
<1> QED BY <1>6, <1>7, <1>8 DEF Truthful

LEMMA EraseTruthful ==
  ASSUME NEW CONSTANT H, NEW CONSTANT N, Truthful(H, N),
         NEW f \in Frameworks, NEW gone \in SUBSET Versions, Feed(H, N)!Erase(f, gone)
  PROVE  Truthful(H, N)'
<1>1. /\ phase' = [v \in Versions |-> IF v \in gone THEN "erased" ELSE phase[v]]
      /\ UNCHANGED <<hash, log>>
  BY DEF Feed!Erase
<1>2. Feed(H, N)!TypeOK' BY <1>1 DEF Truthful, Feed!TypeOK, Feed!Phases
<1>3. Feed(H, N)!AnnouncedOnce' BY <1>1 DEF Truthful, Feed!AnnouncedOnce
<1>4. \A v \in Versions : phase'[v] # "erased" => phase'[v] = phase[v] BY <1>1
<1>5. Feed(H, N)!FeedTellsAll' BY <1>1, <1>4 DEF Truthful, Feed!FeedTellsAll, Feed!Tells
<1> QED BY <1>2, <1>3, <1>5 DEF Truthful

LEMMA StepTruthful ==
  ASSUME NEW CONSTANT H, NEW CONSTANT N, Truthful(H, N), [Feed(H, N)!Next]_(Feed(H, N)!vars)
  PROVE  Truthful(H, N)'
<1>1. CASE UNCHANGED Feed(H, N)!vars
  BY <1>1 DEF Feed!vars, Truthful, Feed!TypeOK, Feed!FeedTellsAll, Feed!AnnouncedOnce, Feed!Tells
<1> QED BY <1>1, ReleaseTruthful, WithdrawTruthful, EraseTruthful DEF Feed!Next

\* What the feed says of a version is complete: a consumer that replays it knows
\* what is released, with which hash, and what was withdrawn.
THEOREM FeedIsComplete ==
  ASSUME NEW CONSTANT H, NEW CONSTANT N
  PROVE  Feed(H, N)!Spec => []Feed(H, N)!FeedTellsAll
<1>1. Feed(H, N)!Init => Truthful(H, N) BY InitTruthful
<1>2. Truthful(H, N) /\ [Feed(H, N)!Next]_(Feed(H, N)!vars) => Truthful(H, N)' BY StepTruthful
<1>3. Truthful(H, N) => Feed(H, N)!FeedTellsAll BY DEF Truthful
<1> QED BY <1>1, <1>2, <1>3, PTL DEF Feed!Spec

\* Nothing is announced twice.
THEOREM EventsAreUnique ==
  ASSUME NEW CONSTANT H, NEW CONSTANT N
  PROVE  Feed(H, N)!Spec => []Feed(H, N)!AnnouncedOnce
<1>1. Feed(H, N)!Init => Truthful(H, N) BY InitTruthful
<1>2. Truthful(H, N) /\ [Feed(H, N)!Next]_(Feed(H, N)!vars) => Truthful(H, N)' BY StepTruthful
<1>3. Truthful(H, N) => Feed(H, N)!AnnouncedOnce BY DEF Truthful
<1> QED BY <1>1, <1>2, <1>3, PTL DEF Feed!Spec

-----------------------------------------------------------------------------
(* The registry that a consumer follows *)

Says(i, kind, u) == i \in DOMAIN log /\ log[i].kind = kind /\ log[i].version = u

\* A withdrawal is announced after the release it takes back.
PublishedFirst ==
  \A i \in DOMAIN log : log[i].kind = "deprecated" =>
    \E j \in DOMAIN log : j < i /\ Says(j, "published", log[i].version)

Told == Registry!TypeOK /\ FeedTellsAll /\ AnnouncedOnce /\ PublishedFirst

LEMMA ToldIsTruthful == Registry!TypeOK /\ FeedTellsAll /\ AnnouncedOnce
                       <=> Truthful(Versions, NoVersion)
  BY DEF FeedTellsAll, AnnouncedOnce, Truthful, Feed!TypeOK, Feed!FeedTellsAll,
         Feed!AnnouncedOnce, Registry!TypeOK, Registry!FeedTellsAll, Registry!AnnouncedOnce,
         Feed!Phases, Registry!Phases, Feed!Event, Registry!Event, Feed!Tells, Registry!Tells

LEMMA InitTold == Registry!Init => Told
<1> SUFFICES ASSUME Registry!Init PROVE Told OBVIOUS
<1>1. Truthful(Versions, NoVersion)
  <2>1. Feed(Versions, NoVersion)!Init BY DEF Registry!Init, Feed!Init
  <2> QED BY <2>1, InitTruthful
<1>2. PublishedFirst BY DEF PublishedFirst, Registry!Init
<1> QED BY <1>1, <1>2, ToldIsTruthful DEF Told

LEMMA StepTruth == Registry!TypeOK /\ FeedTellsAll /\ AnnouncedOnce /\ RegistryStep
                   => (Registry!TypeOK /\ FeedTellsAll /\ AnnouncedOnce)'
<1> SUFFICES ASSUME Registry!TypeOK, FeedTellsAll, AnnouncedOnce, RegistryStep
             PROVE  (Registry!TypeOK /\ FeedTellsAll /\ AnnouncedOnce)'
  OBVIOUS
<1>1. Truthful(Versions, NoVersion) BY ToldIsTruthful
<1>2. Feed(Versions, NoVersion)!Next
  BY DEF RegistryStep, Feed!Next, Feed!Release, Feed!Withdraw, Feed!Erase, Feed!Announce,
         Registry!Release, Registry!Withdraw, Registry!Erase, Registry!Announce
<1>3. Truthful(Versions, NoVersion)' BY <1>1, <1>2, StepTruthful
<1> QED
  BY <1>3 DEF FeedTellsAll, AnnouncedOnce, Truthful, Feed!TypeOK, Feed!FeedTellsAll,
         Feed!AnnouncedOnce, Registry!TypeOK, Registry!FeedTellsAll, Registry!AnnouncedOnce,
         Feed!Phases, Registry!Phases, Feed!Event, Registry!Event, Feed!Tells, Registry!Tells

\* What a step of the registry does to the feed and to a version that was told of.
LEMMA RegistryMoves ==
  ASSUME Told, RegistryStep
  PROVE  /\ Told'
         /\ Len(log) \in Nat /\ Len(log') \in Nat /\ Len(log) <= Len(log')
         /\ DOMAIN log = 1..Len(log) /\ DOMAIN log' = 1..Len(log')
         /\ \A i \in DOMAIN log : log'[i] = log[i]
         /\ \A i \in DOMAIN log' \ DOMAIN log : log'[i].kind = "published" =>
              \A j \in DOMAIN log : log[j].version # log'[i].version
         /\ \A j \in DOMAIN log : phase'[log[j].version] = "released" => phase[log[j].version] = "released"
<1>1. /\ log \in Seq(Registry!Event) /\ Len(log) \in Nat /\ DOMAIN log = 1..Len(log)
      /\ hash \in [Versions -> Versions \union {NoVersion}]
      /\ phase \in [Versions -> Registry!Phases]
      /\ \A j \in DOMAIN log : log[j].version \in Versions
  <2>1. /\ log \in Seq(Registry!Event) /\ Len(log) \in Nat /\ DOMAIN log = 1..Len(log)
        /\ hash \in [Versions -> Versions \union {NoVersion}]
        /\ phase \in [Versions -> Registry!Phases]
    BY DEF Told, Registry!TypeOK
  <2>2. \A j \in DOMAIN log : log[j] \in Registry!Event BY <2>1
  <2> QED BY <2>1, <2>2 DEF Registry!Event
<1> USE DEF Registry!Event
<1>2. (Registry!TypeOK /\ FeedTellsAll /\ AnnouncedOnce)' BY StepTruth DEF Told
<1>3. /\ log' \in Seq(Registry!Event) /\ Len(log') \in Nat /\ DOMAIN log' = 1..Len(log')
  BY <1>2 DEF Registry!TypeOK
<1> SUFFICES /\ PublishedFirst'
             /\ Len(log) <= Len(log')
             /\ \A i \in DOMAIN log : log'[i] = log[i]
             /\ \A i \in DOMAIN log' \ DOMAIN log : log'[i].kind = "published" =>
                  \A j \in DOMAIN log : log[j].version # log'[i].version
             /\ \A j \in DOMAIN log : phase'[log[j].version] = "released" => phase[log[j].version] = "released"
  BY <1>1, <1>2, <1>3 DEF Told
<1>4. CASE \E v \in Versions : Registry!Release(v, v)
  <2>1. PICK v \in Versions : Registry!Release(v, v) BY <1>4
  <2>2. /\ phase[v] = "open" /\ phase' = [phase EXCEPT ![v] = "released"]
        /\ log' = Append(log, [kind |-> "published", version |-> v, hash |-> v])
    BY <2>1 DEF Registry!Release, Registry!Announce
  <2>3. \A i \in DOMAIN log : log[i].version # v BY <2>2 DEF Told, FeedTellsAll, Registry!FeedTellsAll
  <2>4. /\ Len(log') = Len(log) + 1 /\ \A i \in DOMAIN log : log'[i] = log[i]
        /\ log'[Len(log) + 1] = [kind |-> "published", version |-> v, hash |-> v]
    BY <1>1, <2>2
  <2>5. PublishedFirst'
    <3>1. ASSUME NEW i \in DOMAIN log', log'[i].kind = "deprecated"
          PROVE  \E j \in DOMAIN log' : j < i /\ Says(j, "published", log[i].version)'
      <4>1. i \in DOMAIN log /\ log'[i] = log[i] BY <1>1, <1>3, <2>4, <3>1
      <4>2. PICK j \in DOMAIN log : j < i /\ Says(j, "published", log[i].version)
        BY <3>1, <4>1 DEF Told, PublishedFirst
      <4> QED BY <1>1, <1>3, <2>4, <4>1, <4>2 DEF Says
    <3> QED BY <3>1 DEF PublishedFirst
  <2>6. \A j \in DOMAIN log : phase'[log[j].version] = phase[log[j].version] BY <1>1, <2>2, <2>3
  <2> QED BY <1>1, <1>3, <2>3, <2>4, <2>5, <2>6
<1>5. CASE \E v \in Versions : Registry!Withdraw(v)
  <2>1. PICK v \in Versions : Registry!Withdraw(v) BY <1>5
  <2>2. /\ phase[v] = "released" /\ phase' = [phase EXCEPT ![v] = "withdrawn"]
        /\ log' = Append(log, [kind |-> "deprecated", version |-> v, hash |-> hash[v]])
    BY <2>1 DEF Registry!Withdraw, Registry!Announce
  <2>3. PICK p \in DOMAIN log : log[p] = [kind |-> "published", version |-> v, hash |-> hash[v]]
    BY <2>2 DEF Told, FeedTellsAll, Registry!FeedTellsAll, Registry!Tells
  <2>4. /\ Len(log') = Len(log) + 1 /\ \A i \in DOMAIN log : log'[i] = log[i]
        /\ log'[Len(log) + 1] = [kind |-> "deprecated", version |-> v, hash |-> hash[v]]
    <3>1. hash[v] \in Versions BY <1>1, <2>3
    <3> QED BY <1>1, <2>2, <3>1
  <2>5. PublishedFirst'
    BY <1>1, <1>3, <2>3, <2>4, SMTT(30) DEF Told, PublishedFirst, Says
  <2>6. \A w \in Versions : phase'[w] = "released" => phase[w] = "released" BY <1>1, <2>2
  <2> QED BY <1>1, <1>3, <2>4, <2>5, <2>6
<1>6. CASE \E f \in Frameworks, gone \in SUBSET Versions : Registry!Erase(f, gone)
  <2>1. log' = log /\ \A w \in Versions : phase'[w] = "released" => phase[w] = "released"
    BY <1>1, <1>6 DEF Registry!Erase
  <2>2. PublishedFirst' BY <2>1 DEF Told, PublishedFirst, Says
  <2> QED BY <1>1, <2>1, <2>2
<1> QED BY <1>4, <1>5, <1>6 DEF RegistryStep

\* A released version was announced at one place, and never as withdrawn.
LEMMA ToldFacts ==
  ASSUME Told
  PROVE  /\ log \in Seq(Registry!Event) /\ Len(log) \in Nat /\ DOMAIN log = 1..Len(log)
         /\ \A j \in DOMAIN log : /\ log[j].version \in Versions
                                   /\ log[j].kind \in {"published", "deprecated"}
         /\ \A j, k \in DOMAIN log :
              log[j].version = log[k].version /\ log[j].kind = log[k].kind => j = k
         /\ phase \in [Versions -> Registry!Phases]
         /\ \A j \in DOMAIN log : log[j].kind = "deprecated" =>
              /\ phase[log[j].version] # "released"
              /\ \A k \in DOMAIN log : Says(k, "published", log[j].version) => k < j
<1>1. /\ log \in Seq(Registry!Event) /\ Len(log) \in Nat /\ DOMAIN log = 1..Len(log)
      /\ phase \in [Versions -> Registry!Phases]
      /\ \A j \in DOMAIN log : /\ log[j].version \in Versions
                                /\ log[j].kind \in {"published", "deprecated"}
  <2>1. /\ log \in Seq(Registry!Event) /\ Len(log) \in Nat /\ DOMAIN log = 1..Len(log)
        /\ phase \in [Versions -> Registry!Phases]
    BY DEF Told, Registry!TypeOK
  <2>2. \A j \in DOMAIN log : log[j] \in Registry!Event BY <2>1
  <2> QED BY <2>1, <2>2 DEF Registry!Event
<1>2. \A j, k \in DOMAIN log :
        log[j].version = log[k].version /\ log[j].kind = log[k].kind => j = k
  BY DEF Told, AnnouncedOnce, Registry!AnnouncedOnce
<1>3. \A j \in DOMAIN log : log[j].kind = "deprecated" => phase[log[j].version] # "released"
  BY <1>1 DEF Told, FeedTellsAll, Registry!FeedTellsAll
<1>4. \A j \in DOMAIN log : log[j].kind = "deprecated" =>
        \A k \in DOMAIN log : Says(k, "published", log[j].version) => k < j
  BY <1>2 DEF Told, PublishedFirst, Says
<1> QED BY <1>1, <1>2, <1>3, <1>4

-----------------------------------------------------------------------------
(* The consumer *)

Steps == {"idle", "work", "fetched", "seeded", "bundled"}
Memory == [step : Steps, cold : BOOLEAN, todo : Seq(Items), held : Held, next : Nat,
           baseline : Versions \union {NoVersion}]

Working == run.step # "idle"
Hot == Working /\ ~run.cold
Cold == Working /\ run.cold
Mid == run.step \in {"fetched", "seeded", "bundled"}

\* The feed position of the event handled last by a run that drains the feed.
Pos == run.next - Len(run.todo)

\* The entries of the catalog and the events of the feed still to handle.
Entries ==
  \A k \in 1..Len(run.todo) :
    /\ run.todo[k].kind = "published"
    /\ \E j \in 1..walk.seen : Says(j, "published", run.todo[k].version)
Events ==
  \A k \in 1..Len(run.todo) :
    run.todo[k] = [kind |-> log[Pos + k].kind, version |-> log[Pos + k].version, seq |-> Pos + k]

\* What a run has in memory is a part of the catalog or of the feed, and a pull
\* under way is of a version that is not held.
Shape ==
  /\ run.step = "idle" => run.todo = <<>>
  /\ Working => ~disk.torn
  /\ disk.torn => disk.cursor = 0 /\ disk.held = Nothing
  /\ Mid => run.todo # <<>> /\ Item.kind = "published" /\ run.held[Framework] # Item.version
  /\ run.step \in {"seeded", "bundled"} => seed[Framework] = Item.version
  /\ run.step = "bundled" => bundle[Framework] = Item.version
  /\ Cold => disk.cursor = 0 /\ Entries
  /\ Hot => disk.cursor # 0 /\ disk.cursor <= Pos /\ Events

\* Every event between the adopted head and the one at hand was handled.
Passed ==
  /\ (walk.head + 1)..disk.cursor \subseteq handled
  /\ Hot => (walk.head + 1)..Pos \subseteq handled

\* What a handled event withdrew is not held, in memory or on disk, and has no
\* file but one that could not be removed.
Gone(i) ==
  LET u == log[i].version  f == FrameworkOf[u] IN
  log[i].kind = "deprecated" /\ walk.head < i =>
    /\ i <= disk.cursor => u # disk.held[f] /\ u \notin {seed[f], bundle[f]} \ stuck
    /\ Hot /\ i <= Pos => u # run.held[f] /\ u \notin {seed[f], bundle[f]} \ stuck
Dropped == \A i \in DOMAIN log : Gone(i)

\* What is held was announced as a version of its framework, at most at m.
KnownAt(held, m) ==
  \A f \in Frameworks : held[f] # NoVersion =>
    FrameworkOf[held[f]] = f /\ \E j \in 1..m : Says(j, "published", held[f])
Known ==
  /\ KnownAt(disk.held, IF disk.cursor = 0 THEN Len(log) ELSE disk.cursor)
  /\ Hot => KnownAt(run.held, Pos)
  /\ Cold => KnownAt(run.held, walk.seen)

\* Event i is the newest of framework f, and releases v, which is published.
NewestAt(f, v, i) ==
  /\ log[i] = [kind |-> "published", version |-> v, hash |-> v]
  /\ FrameworkOf[v] = f /\ phase[v] = "released"
  /\ \A j \in DOMAIN log : FrameworkOf[log[j].version] = f => j <= i

\* The newest version of a framework: its files are whole whenever it is held,
\* it is held once its event was handled, and the walk has it on its list.
KeptAt(f, v, i) ==
  /\ disk.held[f] = v => seed[f] = v /\ bundle[f] = v
  /\ disk.held[f] = v /\ Working => run.held[f] = v
  /\ Working /\ run.held[f] = v => seed[f] = v /\ bundle[f] = v
  /\ v \notin failed /\ ~InGap(i) /\ i <= disk.cursor => disk.held[f] = v
  /\ v \notin failed /\ ~InGap(i) /\ Hot /\ i <= Pos => run.held[f] = v
  /\ Cold /\ i <= walk.seen =>
       /\ v \notin failed =>
            run.held[f] = v \/ \E k \in 1..Len(run.todo) : run.todo[k].version = v
       /\ \A k \in 1..Len(run.todo) :
            FrameworkOf[run.todo[k].version] = f => run.todo[k].version = v
Kept ==
  \A f \in Frameworks, v \in Versions, i \in DOMAIN log :
    NewestAt(f, v, i) => KeptAt(f, v, i)

\* As long as nothing failed and no run was killed, the bundle on disk is the
\* version held, and a pull has found it there.
Calm ==
  faults = 0 /\ crashes = 0 =>
    \A f \in Frameworks :
      /\ ~Working /\ disk.held[f] # NoVersion => bundle[f] = disk.held[f]
      /\ Working /\ run.held[f] # NoVersion /\ ~(run.step = "bundled" /\ Framework = f)
           => bundle[f] = run.held[f]
      /\ Mid /\ Framework = f => run.baseline = run.held[f]

Inv == /\ TypeOK /\ Told /\ Shape /\ Passed /\ Dropped /\ Known /\ Kept /\ Calm

LEMMA TypeFacts ==
  ASSUME TypeOK
  PROVE  /\ disk \in [cursor : 0..Len(log), held : Held, torn : BOOLEAN]
         /\ disk.cursor \in 0..Len(log) /\ disk.held \in Held
         /\ seed \in [Frameworks -> Files] /\ bundle \in [Frameworks -> Files]
         /\ delta \in [Frameworks -> Files \X Files]
         /\ run \in Memory /\ run.next <= Len(log)
         /\ run.todo \in Seq(Items) /\ Len(run.todo) \in Nat /\ run.held \in Held /\ run.next \in Nat
         /\ faults \in 0..MaxFaults /\ crashes \in 0..MaxCrashes
         /\ handled \subseteq 1..Len(log) /\ failed \subseteq Versions /\ stuck \subseteq Versions
         /\ walk \in [seen : 0..Len(log), head : 0..Len(log)]
         /\ walk.seen \in 0..Len(log) /\ walk.head \in 0..Len(log)
         /\ Len(log) \in Nat /\ DOMAIN log = 1..Len(log)
<1>1. /\ run \in [step : Steps, cold : BOOLEAN,
              todo : Seq(Items), held : Held, next : 0..Len(log),
              baseline : Versions \union {NoVersion}]
      /\ disk \in [cursor : 0..Len(log), held : Held, torn : BOOLEAN]
      /\ walk \in [seen : 0..Len(log), head : 0..Len(log)]
      /\ log \in Seq(Registry!Event)
  BY DEF TypeOK, Steps, Registry!TypeOK
<1>2. Len(log) \in Nat /\ DOMAIN log = 1..Len(log) BY <1>1
<1>3. run.next \in 0..Len(log) /\ run.todo \in Seq(Items) /\ run.held \in Held BY <1>1
<1>4. run.next \in Nat /\ run.next <= Len(log) BY <1>2, <1>3
<1>5. run \in Memory BY <1>1, <1>4 DEF Memory
<1>6. Len(run.todo) \in Nat BY <1>3
<1>7. disk.cursor \in 0..Len(log) /\ disk.held \in Held /\ walk.seen \in 0..Len(log) /\ walk.head \in 0..Len(log)
  BY <1>1
<1> QED BY <1>1, <1>2, <1>3, <1>4, <1>5, <1>6, <1>7 DEF TypeOK

\* The event or catalog entry at hand.
LEMMA ItemFacts ==
  ASSUME TypeOK, Told, Shape, Working, run.todo # <<>>
  PROVE  /\ Len(run.todo) > 0 /\ Item = run.todo[1] /\ Item \in Items
         /\ Item.version \in Versions /\ Framework \in Frameworks /\ Framework = FrameworkOf[Item.version]
         /\ Item.kind \in {"published", "deprecated"}
         /\ Hot => /\ Pos \in Nat /\ Pos + 1 \in DOMAIN log /\ Item.seq = Pos + 1
                   /\ Item.kind = log[Pos + 1].kind /\ Item.version = log[Pos + 1].version
         /\ Cold => /\ Item.kind = "published"
                    /\ \E j \in 1..walk.seen : Says(j, "published", Item.version)
<1>1. Len(run.todo) > 0 /\ Item = run.todo[1] /\ Item \in Items
  <2>1. run.todo \in Seq(Items) BY TypeFacts
  <2> QED BY <2>1 DEF Item
<1>2. Item.version \in Versions /\ Item.kind \in {"published", "deprecated"} BY <1>1 DEF Items
<1>3. Framework \in Frameworks /\ Framework = FrameworkOf[Item.version]
  BY <1>2, SyncAssumption DEF Framework
<1>4. ASSUME Hot
      PROVE  /\ Pos \in Nat /\ Pos + 1 \in DOMAIN log /\ Item.seq = Pos + 1
             /\ Item.kind = log[Pos + 1].kind /\ Item.version = log[Pos + 1].version
  <2>1. /\ disk.cursor \in Nat /\ disk.cursor <= Pos /\ run.next \in Nat /\ run.next <= Len(log)
        /\ Len(log) \in Nat /\ DOMAIN log = 1..Len(log) /\ Len(run.todo) \in Nat
    BY <1>4, TypeFacts DEF Shape
  <2>2. Pos \in Nat /\ Pos + 1 \in DOMAIN log BY <1>1, <2>1 DEF Pos
  <2>3. run.todo[1] = [kind |-> log[Pos + 1].kind, version |-> log[Pos + 1].version, seq |-> Pos + 1]
    BY <1>1, <1>4, <2>1 DEF Shape, Events, Events
  <2> QED BY <1>1, <2>2, <2>3
<1>5. ASSUME Cold
      PROVE  /\ Item.kind = "published"
             /\ \E j \in 1..walk.seen : Says(j, "published", Item.version)
  <2>1. 1 \in 1..Len(run.todo) BY <1>1, TypeFacts
  <2> QED BY <1>1, <1>5, <2>1 DEF Shape, Entries
<1> QED BY <1>1, <1>2, <1>3, <1>4, <1>5

-----------------------------------------------------------------------------
(* An item handled *)

LEMMA DoneEffect ==
  ASSUME TypeOK, Told, Shape, Passed, Working, run.todo # <<>>, NEW h \in Held, Done(h),
         UNCHANGED <<registry, disk, walk>>
  PROVE  /\ run' \in Memory /\ run'.next = run.next /\ run'.cold = run.cold /\ run'.step = "work"
         /\ run'.held = h /\ Len(run'.todo) = Len(run.todo) - 1
         /\ \A k \in 1..Len(run'.todo) : k + 1 \in 1..Len(run.todo) /\ run'.todo[k] = run.todo[k + 1]
         /\ Working' /\ ~Mid' /\ (Hot' <=> Hot) /\ (Cold' <=> Cold) /\ Pos' = Pos + 1
         /\ Shape' /\ Passed' /\ handled' \subseteq 1..Len(log)
<1>1. /\ run' = [run EXCEPT !.step = "work", !.todo = Tail(run.todo), !.held = h, !.baseline = NoVersion]
      /\ handled' = IF run.cold THEN handled ELSE handled \union {Item.seq}
  BY DEF Done
<1>2. /\ run \in Memory /\ run.todo \in Seq(Items) /\ run.todo # <<>>
      /\ Len(run.todo) \in Nat /\ run.next \in Nat
  BY TypeFacts
<1>3. /\ Tail(run.todo) \in Seq(Items) /\ Len(Tail(run.todo)) = Len(run.todo) - 1
      /\ \A k \in 1..Len(Tail(run.todo)) :
           k + 1 \in 1..Len(run.todo) /\ Tail(run.todo)[k] = run.todo[k + 1]
  BY <1>2
<1>4. /\ run' \in Memory /\ run'.next = run.next /\ run'.cold = run.cold /\ run'.step = "work"
      /\ run'.held = h /\ run'.todo = Tail(run.todo)
  BY <1>1, <1>2, <1>3 DEF Memory, Steps
<1>5. /\ Len(run'.todo) = Len(run.todo) - 1
      /\ \A k \in 1..Len(run'.todo) : k + 1 \in 1..Len(run.todo) /\ run'.todo[k] = run.todo[k + 1]
  BY <1>3, <1>4
<1>6. /\ Working' /\ ~Mid' /\ (Hot' <=> Hot) /\ (Cold' <=> Cold)
  BY <1>4 DEF Working, Mid, Hot, Cold
<1>7. Pos' = Pos + 1 BY <1>2, <1>4, <1>5 DEF Pos
<1>8. disk' = disk /\ walk' = walk /\ log' = log BY DEF registry
<1>9. Shape'
  <2>1. Working' => ~disk'.torn BY <1>8 DEF Shape
  <2>2. disk'.torn => disk'.cursor = 0 /\ disk'.held = Nothing BY <1>8 DEF Shape
  <2>3. ASSUME Cold PROVE disk'.cursor = 0 /\ Entries'
    <3>1. disk.cursor = 0 /\ Entries BY <2>3 DEF Shape
    <3>2. ASSUME NEW k \in 1..Len(run'.todo)
          PROVE  /\ run'.todo[k].kind = "published"
                 /\ \E j \in 1..walk'.seen : Says(j, "published", run.todo[k].version)'
      <4>1. k + 1 \in 1..Len(run.todo) /\ run'.todo[k] = run.todo[k + 1] BY <1>5
      <4>2. /\ run.todo[k + 1].kind = "published"
            /\ \E j \in 1..walk.seen : Says(j, "published", run.todo[k + 1].version)
        BY <3>1, <4>1 DEF Entries
      <4> QED BY <1>8, <4>1, <4>2 DEF Says
    <3> QED BY <1>8, <3>1, <3>2 DEF Entries
  <2>4. ASSUME Hot PROVE disk'.cursor # 0 /\ disk'.cursor <= Pos' /\ Events'
    <3>1. /\ disk.cursor # 0 /\ disk.cursor <= Pos /\ disk.cursor \in Nat /\ Events
      BY <2>4, TypeFacts DEF Shape
    <3>2. Pos \in Int BY <1>2 DEF Pos
    <3>3. disk'.cursor # 0 /\ disk'.cursor <= Pos' BY <1>7, <1>8, <3>1, <3>2
    <3>4. ASSUME NEW k \in 1..Len(run'.todo)
          PROVE  run'.todo[k] = [kind |-> log'[Pos' + k].kind, version |-> log'[Pos' + k].version,
                                 seq |-> Pos' + k]
      <4>1. k \in Int /\ Pos' + k = Pos + (k + 1) BY <1>7, <3>2
      <4> QED BY <1>5, <1>8, <3>1, <4>1 DEF Events
    <3> QED BY <3>3, <3>4 DEF Events
  <2> QED BY <1>4, <1>6, <2>1, <2>2, <2>3, <2>4 DEF Shape, Mid
<1>10. ASSUME Hot PROVE Pos \in Nat /\ Pos + 1 \in 1..Len(log) /\ handled' = handled \union {Pos + 1}
  <2>1. Pos \in Nat /\ Pos + 1 \in DOMAIN log /\ Item.seq = Pos + 1 BY <1>10, ItemFacts
  <2> QED BY <1>1, <1>10, <2>1, TypeFacts DEF Hot
<1>11. ASSUME Cold PROVE handled' = handled BY <1>1, <1>11 DEF Cold
<1>12. Hot \/ Cold BY DEF Hot, Cold
<1>13. Passed'
  <2>1. (walk.head + 1)..disk.cursor \subseteq handled' BY <1>10, <1>11, <1>12 DEF Passed
  <2>2. ASSUME Hot PROVE (walk.head + 1)..(Pos + 1) \subseteq handled'
    <3>1. (walk.head + 1)..Pos \subseteq handled /\ walk.head \in Nat BY <2>2, TypeFacts DEF Passed
    <3> QED BY <1>10, <2>2, <3>1
  <2> QED BY <1>6, <1>7, <1>8, <2>1, <2>2 DEF Passed
<1>14. handled' \subseteq 1..Len(log) BY <1>10, <1>11, <1>12, TypeFacts
<1> QED BY <1>4, <1>5, <1>6, <1>7, <1>9, <1>13, <1>14

\* The newest version of a framework is not held while something else of that
\* framework is at hand.
LEMMA Untouched ==
  ASSUME Inv, Working, run.todo # <<>>,
         Item.kind = "deprecated" \/ run.held[Framework] # Item.version,
         NEW v \in Versions, NEW i \in DOMAIN log, NewestAt(Framework, v, i)
  PROVE  run.held[Framework] # v /\ disk.held[Framework] # v
<1>1. /\ TypeOK /\ Told /\ Shape /\ Known /\ Kept BY DEF Inv
<1>2. /\ Framework \in Frameworks /\ Framework = FrameworkOf[Item.version] /\ Item = run.todo[1]
      /\ Len(run.todo) > 0 /\ Len(run.todo) \in Nat
  BY <1>1, ItemFacts, TypeFacts
<1>3. KeptAt(Framework, v, i) BY <1>1, <1>2 DEF Kept
<1>4. ASSUME run.held[Framework] = v PROVE FALSE
  <2>1. v # NoVersion BY SyncAssumption
  <2>2. \A j \in DOMAIN log : Says(j, "published", v) => i = j
    BY <1>1, ToldFacts DEF Says, NewestAt
  <2>3. CASE Hot
    <3>1. PICK j \in 1..Pos : Says(j, "published", v)
      BY <1>1, <1>2, <1>4, <2>1, <2>3 DEF Known, KnownAt
    <3>2. i = j BY <2>2, <3>1 DEF Says
    <3>3. Pos \in Nat /\ Pos + 1 \in DOMAIN log /\ Item.version = log[Pos + 1].version
      BY <1>1, <2>3, ItemFacts
    <3>4. Pos + 1 <= i BY <1>2, <3>3 DEF NewestAt
    <3> QED BY <3>1, <3>2, <3>3, <3>4
  <2>4. CASE Cold
    <3>1. PICK j \in 1..walk.seen : Says(j, "published", v)
      BY <1>1, <1>2, <1>4, <2>1, <2>4 DEF Known, KnownAt
    <3>2. i = j BY <2>2, <3>1 DEF Says
    <3>3. i <= walk.seen BY <1>1, <3>1, <3>2, TypeFacts
    <3>4. 1 \in 1..Len(run.todo) BY <1>2
    <3>5. Item.version = v BY <1>2, <1>3, <2>4, <3>3, <3>4 DEF KeptAt
    <3>6. Item.kind = "published" BY <1>1, <2>4, ItemFacts
    <3> QED BY <1>4, <3>5, <3>6
  <2> QED BY <2>3, <2>4 DEF Hot, Cold
<1> QED BY <1>3, <1>4 DEF KeptAt

\* What is held after an item: what was held before, or the item, or nothing.
LEMMA DoneKnown ==
  ASSUME Inv, Working, run.todo # <<>>, NEW h \in Held, Done(h), UNCHANGED <<registry, disk, walk>>,
         \A g \in Frameworks \ {Framework} : h[g] = run.held[g],
         \/ h[Framework] \in {run.held[Framework], NoVersion}
         \/ h[Framework] = Item.version /\ Item.kind = "published"
  PROVE  Known'
<1>1. TypeOK /\ Told /\ Shape /\ Passed /\ Known BY DEF Inv
<1>2. /\ run'.held = h /\ (Hot' <=> Hot) /\ (Cold' <=> Cold) /\ Pos' = Pos + 1
      /\ disk' = disk /\ log' = log /\ walk' = walk
  BY <1>1, DoneEffect DEF registry
<1>3. KnownAt(disk.held, IF disk.cursor = 0 THEN Len(log) ELSE disk.cursor)'
  BY <1>1, <1>2 DEF Known, KnownAt, Says
<1>4. ASSUME NEW m \in Nat, NEW n \in Nat, m <= n, KnownAt(run.held, m),
             Item.kind = "published" => \E j \in 1..n : Says(j, "published", Item.version)
      PROVE  KnownAt(h, n)
  <2> SUFFICES ASSUME NEW f \in Frameworks, h[f] # NoVersion
               PROVE  FrameworkOf[h[f]] = f /\ \E j \in 1..n : Says(j, "published", h[f])
    BY DEF KnownAt
  <2>1. CASE h[f] = run.held[f] BY <1>4, <2>1 DEF KnownAt
  <2>2. CASE f = Framework /\ h[Framework] = Item.version /\ Item.kind = "published"
    BY <1>1, <1>4, <2>2, ItemFacts
  <2> QED BY <2>1, <2>2
<1>5. ASSUME Hot PROVE KnownAt(run.held, Pos)'
  <2>1. Pos \in Nat /\ Pos + 1 \in DOMAIN log /\ KnownAt(run.held, Pos)
    BY <1>1, <1>5, ItemFacts DEF Known
  <2>2. Item.kind = "published" => \E j \in 1..(Pos + 1) : Says(j, "published", Item.version)
    BY <1>1, <1>5, <2>1, ItemFacts DEF Says
  <2>3. KnownAt(h, Pos + 1) BY <1>4, <2>1, <2>2
  <2> QED BY <1>2, <2>3 DEF KnownAt, Says
<1>6. ASSUME Cold PROVE KnownAt(run.held, walk.seen)'
  <2>1. walk.seen \in Nat /\ KnownAt(run.held, walk.seen)
    BY <1>1, <1>6, TypeFacts DEF Known
  <2>2. KnownAt(h, walk.seen) BY <1>1, <1>4, <1>6, <2>1, ItemFacts
  <2> QED BY <1>2, <2>2 DEF KnownAt, Says
<1> QED BY <1>2, <1>3, <1>5, <1>6 DEF Known

\* An item done with: nothing pulled, the item held, or its framework retired.
Passes(h) ==
  /\ h = run.held /\ Item.kind = "published"
  /\ run.held[Framework] = Item.version \/ phase[Item.version] # "released"
     \/ Item.version \in failed'
  /\ \/ seed' = seed /\ bundle' = bundle
     \/ /\ run.held[Framework] # Item.version
        /\ seed'[Framework] \in {seed[Framework], Torn}
        /\ bundle'[Framework] \in {bundle[Framework], Torn}
Pulls(h) ==
  /\ Item.kind = "published" /\ run.held[Framework] # Item.version
  /\ h[Framework] = Item.version /\ seed'[Framework] = Item.version /\ bundle'[Framework] = Item.version
Retires(h) ==
  /\ Item.kind = "deprecated"
  /\ h[Framework] = NoVersion
  /\ seed'[Framework] \in {seed[Framework], NoVersion}
  /\ bundle'[Framework] \in {bundle[Framework], NoVersion}
  /\ \A x \in {seed'[Framework], bundle'[Framework]} : x \in {NoVersion, Torn} \union stuck'
Elsewhere(h) ==
  \A g \in Frameworks \ {Framework} :
    h[g] = run.held[g] /\ seed'[g] = seed[g] /\ bundle'[g] = bundle[g]

LEMMA DoneKept ==
  ASSUME Inv, Working, run.todo # <<>>, NEW h \in Held, Done(h), UNCHANGED <<registry, disk, walk>>,
         failed \subseteq failed', Elsewhere(h), Passes(h) \/ Pulls(h) \/ Retires(h)
  PROVE  Kept'
<1>1. TypeOK /\ Told /\ Shape /\ Passed /\ Known /\ Kept BY DEF Inv
<1>2. /\ run'.held = h /\ (Hot' <=> Hot) /\ (Cold' <=> Cold) /\ Pos' = Pos + 1 /\ Working'
      /\ disk' = disk /\ log' = log /\ walk' = walk /\ phase' = phase
      /\ Len(run'.todo) = Len(run.todo) - 1
      /\ \A k \in 1..Len(run'.todo) : k + 1 \in 1..Len(run.todo) /\ run'.todo[k] = run.todo[k + 1]
  BY <1>1, DoneEffect DEF registry
<1> SUFFICES ASSUME NEW f \in Frameworks, NEW v \in Versions, NEW i \in DOMAIN log', NewestAt(f, v, i)'
             PROVE  KeptAt(f, v, i)'
  BY DEF Kept
<1>3. i \in DOMAIN log /\ NewestAt(f, v, i) BY <1>2 DEF NewestAt
<1>4. KeptAt(f, v, i) BY <1>1, <1>3 DEF Kept
<1>5. /\ log[i].kind = "published" /\ log[i].version = v /\ FrameworkOf[v] = f /\ v # NoVersion
      /\ phase[v] = "released"
  BY <1>3, SyncAssumption DEF NewestAt
<1>6. /\ Framework \in Frameworks /\ Framework = FrameworkOf[Item.version] /\ Item = run.todo[1]
      /\ Item.version \in Versions /\ i \in Nat
      /\ Len(run.todo) > 0 /\ Len(run.todo) \in Nat
  BY <1>1, <1>3, ItemFacts, TypeFacts
<1>7. ASSUME f = Framework, Item.kind = "deprecated" \/ run.held[Framework] # Item.version
      PROVE  run.held[f] # v /\ disk.held[f] # v
  BY <1>3, <1>7, Untouched
\* The newest of another framework, or the same files and held version.
<1>8. ASSUME NEW g \in {f}, f # Framework \/ (Passes(h) /\ seed' = seed /\ bundle' = bundle)
      PROVE  h[f] = run.held[f] /\ seed'[f] = seed[f] /\ bundle'[f] = bundle[f]
  BY <1>8 DEF Elsewhere, Passes
<1>9. disk.held[f] = v => seed'[f] = v /\ bundle'[f] = v /\ h[f] = v
  BY <1>2, <1>4, <1>7, <1>8 DEF KeptAt, Passes, Pulls, Retires
<1>10. h[f] = v => seed'[f] = v /\ bundle'[f] = v
  BY <1>2, <1>4, <1>5, <1>7, <1>8 DEF KeptAt, Passes, Pulls, Retires
<1>11. run.held[f] = v => h[f] = v
  BY <1>7, <1>8 DEF Passes, Pulls, Retires
<1>12. ASSUME v \notin failed', v = Item.version, Item.kind = "published" PROVE h[f] = v
  BY <1>5, <1>6, <1>12 DEF Passes, Pulls, Retires
<1>13. v \notin failed' /\ ~InGap(i)' /\ i <= disk'.cursor => disk'.held[f] = v
  BY <1>2, <1>4 DEF KeptAt, InGap
<1>14. ASSUME v \notin failed', ~InGap(i)', Hot, i <= Pos + 1 PROVE h[f] = v
  <2>1. /\ Pos \in Nat /\ Item.version = log[Pos + 1].version /\ Item.kind = log[Pos + 1].kind
    BY <1>1, <1>14, ItemFacts
  <2>2. CASE i <= Pos BY <1>2, <1>4, <1>11, <1>14, <2>2 DEF KeptAt, InGap
  <2>3. CASE i = Pos + 1 BY <1>5, <1>12, <1>14, <2>1, <2>3
  <2> QED BY <1>6, <1>14, <2>1, <2>2, <2>3
<1>15. ASSUME Cold, i <= walk.seen
       PROVE  /\ v \notin failed' =>
                   h[f] = v \/ \E k \in 1..Len(run'.todo) : run'.todo[k].version = v
              /\ \A k \in 1..Len(run'.todo) :
                   FrameworkOf[run'.todo[k].version] = f => run'.todo[k].version = v
  <2>1. \A k \in 1..Len(run'.todo) :
          FrameworkOf[run'.todo[k].version] = f => run'.todo[k].version = v
    BY <1>2, <1>4, <1>15 DEF KeptAt
  <2>2. ASSUME v \notin failed'
        PROVE  h[f] = v \/ \E k \in 1..Len(run'.todo) : run'.todo[k].version = v
    <3>1. CASE run.held[f] = v BY <1>11, <3>1
    <3>2. CASE \E k \in 1..Len(run.todo) : run.todo[k].version = v
      <4>1. PICK k \in 1..Len(run.todo) : run.todo[k].version = v BY <3>2
      <4>2. CASE k = 1
        <5>1. Item.kind = "published" BY <1>1, <1>15, ItemFacts
        <5> QED BY <1>6, <1>12, <2>2, <4>1, <4>2, <5>1
      <4>3. CASE k # 1
        <5>1. k - 1 \in 1..Len(run'.todo) /\ (k - 1) + 1 = k BY <1>2, <1>6, <4>3
        <5>2. run'.todo[k - 1] = run.todo[k] BY <1>2, <5>1
        <5> QED BY <4>1, <5>1, <5>2
      <4> QED BY <4>2, <4>3
    <3> QED BY <1>4, <1>15, <2>2, <3>1, <3>2 DEF KeptAt
  <2> QED BY <2>1, <2>2
<1>16. /\ disk'.held[f] = v => seed'[f] = v /\ bundle'[f] = v
       /\ disk'.held[f] = v /\ Working' => run'.held[f] = v
       /\ Working' /\ run'.held[f] = v => seed'[f] = v /\ bundle'[f] = v
  BY <1>2, <1>9, <1>10
<1>17. v \notin failed' /\ ~InGap(i)' /\ Hot' /\ i <= Pos' => run'.held[f] = v
  BY <1>2, <1>14
<1>18. Cold' /\ i <= walk'.seen =>
         /\ v \notin failed' =>
              run'.held[f] = v \/ \E k \in 1..Len(run'.todo) : run'.todo[k].version = v
         /\ \A k \in 1..Len(run'.todo) :
              FrameworkOf[run'.todo[k].version] = f => run'.todo[k].version = v
  BY <1>2, <1>15
<1> QED BY <1>13, <1>16, <1>17, <1>18 DEF KeptAt

LEMMA DoneDropped ==
  ASSUME Inv, Working, run.todo # <<>>, NEW h \in Held, Done(h), UNCHANGED <<registry, disk, walk>>,
         \A g \in Frameworks \ {Framework} :
           h[g] = run.held[g] /\ seed'[g] = seed[g] /\ bundle'[g] = bundle[g],
         stuck \subseteq stuck',
         \/ h[Framework] = NoVersion
         \/ Item.kind = "published" /\ h[Framework] \in {run.held[Framework], Item.version},
         \A x \in {seed'[Framework], bundle'[Framework]} :
           \/ x \in {NoVersion, Torn} \union stuck'
           \/ Item.kind = "published" /\ x \in {seed[Framework], bundle[Framework], Item.version}
  PROVE  Dropped'
<1>1. TypeOK /\ Told /\ Shape /\ Passed /\ Dropped BY DEF Inv
<1>2. /\ run'.held = h /\ (Hot' <=> Hot) /\ Pos' = Pos + 1
      /\ disk' = disk /\ log' = log /\ walk' = walk
  BY <1>1, DoneEffect DEF registry
<1>3. /\ Framework \in Frameworks /\ Framework = FrameworkOf[Item.version] /\ Item.version \in Versions
      /\ Len(log) \in Nat /\ DOMAIN log = 1..Len(log) /\ disk.cursor \in Nat /\ walk.head \in Nat
      /\ Item.kind \in {"published", "deprecated"}
  BY <1>1, ItemFacts, TypeFacts
<1> SUFFICES ASSUME NEW i \in DOMAIN log, NEW u \in Versions, NEW f \in Frameworks, u = log[i].version,
                    f = FrameworkOf[u], log[i].kind = "deprecated", walk.head < i
             PROVE  /\ i <= disk.cursor => u # disk.held[f] /\ u \notin {seed'[f], bundle'[f]} \ stuck'
                    /\ Hot /\ i <= Pos + 1 => u # h[f] /\ u \notin {seed'[f], bundle'[f]} \ stuck'
  <2>1. \A i \in DOMAIN log : log[i].version \in Versions /\ FrameworkOf[log[i].version] \in Frameworks
    BY <1>1, ToldFacts, SyncAssumption
  <2> QED BY <1>2, <2>1 DEF Dropped, Gone
<1>4. /\ i <= disk.cursor => u # disk.held[f] /\ u \notin {seed[f], bundle[f]} \ stuck
      /\ Hot /\ i <= Pos => u # run.held[f] /\ u \notin {seed[f], bundle[f]} \ stuck
  BY <1>1 DEF Dropped, Gone
<1>5. i <= disk.cursor => Hot /\ i <= Pos
  <2>1. Hot \/ Cold BY DEF Hot, Cold
  <2>2. Cold => disk.cursor = 0 BY <1>1 DEF Shape
  <2>3. Hot => disk.cursor <= Pos /\ Pos \in Nat BY <1>1, ItemFacts DEF Shape
  <2> QED BY <1>3, <2>1, <2>2, <2>3
<1>6. ASSUME Hot
      PROVE  /\ Pos \in Nat /\ Pos + 1 \in DOMAIN log
             /\ Item.version = log[Pos + 1].version /\ Item.kind = log[Pos + 1].kind
  BY <1>1, <1>6, ItemFacts
<1>7. u \notin {NoVersion, Torn} BY SyncAssumption
<1>8. CASE f # Framework
  <2>1. h[f] = run.held[f] /\ seed'[f] = seed[f] /\ bundle'[f] = bundle[f] BY <1>8
  <2>2. Hot => i # Pos + 1 BY <1>3, <1>6, <1>8
  <2>3. Hot /\ i <= Pos + 1 => i <= Pos BY <1>3, <1>6, <2>2
  <2> QED BY <1>4, <2>1, <2>3
<1>9. CASE f = Framework /\ Item.kind = "published"
  <2>1. Hot => i # Pos + 1 BY <1>6, <1>9
  <2>2. Hot /\ i <= Pos + 1 => i <= Pos BY <1>3, <1>6, <2>1
  <2>3. ASSUME Hot, i <= Pos PROVE u # Item.version
    <3>1. Pos \in Nat BY <1>6, <2>3
    <3>2. u = Item.version => Says(Pos + 1, "published", u) BY <1>6, <1>9, <2>3 DEF Says
    <3>3. u = Item.version => Pos + 1 < i BY <1>1, <1>6, <2>3, <3>2, ToldFacts
    <3> QED BY <1>3, <2>3, <3>1, <3>3
  <2> QED BY <1>4, <1>5, <1>7, <1>9, <2>2, <2>3
<1>10. CASE f = Framework /\ Item.kind = "deprecated"
  BY <1>4, <1>5, <1>7, <1>10
<1> QED BY <1>3, <1>8, <1>9, <1>10

\* Everything of the invariant that does not depend on there having been no fault.
LEMMA DoneInv ==
  ASSUME Inv, Working, run.todo # <<>>, NEW h \in Held, Done(h), UNCHANGED <<registry, disk, walk>>,
         seed' \in [Frameworks -> Files], bundle' \in [Frameworks -> Files],
         delta' \in [Frameworks -> Files \X Files], faults' \in 0..MaxFaults, crashes' = crashes,
         failed \subseteq failed', failed' \subseteq Versions,
         stuck \subseteq stuck', stuck' \subseteq Versions,
         Elsewhere(h), Passes(h) \/ Pulls(h) \/ Retires(h)
  PROVE  TypeOK' /\ Told' /\ Shape' /\ Passed' /\ Dropped' /\ Known' /\ Kept'
<1>1. TypeOK /\ Told /\ Shape /\ Passed BY DEF Inv
<1>2. /\ run' \in Memory /\ run'.next = run.next /\ Shape' /\ Passed' /\ handled' \subseteq 1..Len(log)
      /\ run'.held = h
  BY <1>1, DoneEffect
<1>3. log' = log /\ phase' = phase /\ hash' = hash BY DEF registry
<1>4. Told'
  BY <1>1, <1>3 DEF Told, PublishedFirst, Says, FeedTellsAll, AnnouncedOnce, Registry!TypeOK,
                    Registry!FeedTellsAll, Registry!AnnouncedOnce, Registry!Tells
<1>5. TypeOK'
  <2>1. run.next \in 0..Len(log) /\ crashes' \in 0..MaxCrashes
        /\ disk' \in [cursor : 0..Len(log'), held : Held, torn : BOOLEAN]
        /\ walk' \in [seen : 0..Len(log'), head : 0..Len(log')]
    BY <1>1, <1>3, TypeFacts
  <2>2. run' \in [step : Steps, cold : BOOLEAN, todo : Seq(Items), held : Held, next : 0..Len(log'),
                  baseline : Versions \union {NoVersion}]
    BY <1>2, <1>3, <2>1 DEF Memory
  <2>3. Registry!TypeOK' BY <1>4 DEF Told
  <2> QED BY <1>2, <1>3, <2>1, <2>2, <2>3 DEF TypeOK, Steps
<1>6. Known' BY DoneKnown DEF Elsewhere, Passes, Pulls, Retires
<1>7. Kept' BY DoneKept
<1>8. Dropped'
  <2>1. \A g \in Frameworks \ {Framework} :
          h[g] = run.held[g] /\ seed'[g] = seed[g] /\ bundle'[g] = bundle[g]
    BY DEF Elsewhere
  <2>2. /\ \/ h[Framework] = NoVersion
           \/ Item.kind = "published" /\ h[Framework] \in {run.held[Framework], Item.version}
        /\ \A x \in {seed'[Framework], bundle'[Framework]} :
             \/ x \in {NoVersion, Torn} \union stuck'
             \/ Item.kind = "published" /\ x \in {seed[Framework], bundle[Framework], Item.version}
    BY DEF Passes, Pulls, Retires
  <2> QED BY <2>1, <2>2, DoneDropped
<1> QED BY <1>2, <1>4, <1>5, <1>6, <1>7, <1>8

\* No fault now, no fault before.
LEMMA DoneCalm ==
  ASSUME Inv, Working, run.todo # <<>>, NEW h \in Held, Done(h), UNCHANGED <<registry, disk, walk>>,
         crashes' = crashes, faults' \in {faults, faults + 1},
         faults' = faults =>
           \A f \in Frameworks : h[f] # NoVersion =>
             \/ h[f] = bundle'[f]
             \/ /\ h[f] = run.held[f] /\ bundle'[f] = bundle[f]
                /\ ~(run.step = "bundled" /\ Framework = f)
  PROVE  Calm'
<1>1. TypeOK /\ Told /\ Shape /\ Passed /\ Calm BY DEF Inv
<1>2. run'.held = h /\ run'.step = "work" /\ Working' /\ ~Mid' BY <1>1, DoneEffect
<1>3. faults \in Nat BY <1>1, TypeFacts, SyncAssumption
<1> SUFFICES ASSUME faults' = 0, crashes' = 0, NEW f \in Frameworks, h[f] # NoVersion
             PROVE  bundle'[f] = h[f]
  BY <1>2 DEF Calm
<1>4. faults = 0 /\ crashes = 0 /\ faults' = faults BY <1>3
<1>5. \/ h[f] = bundle'[f]
      \/ /\ h[f] = run.held[f] /\ bundle'[f] = bundle[f]
         /\ ~(run.step = "bundled" /\ Framework = f)
  BY <1>4
<1> QED BY <1>1, <1>4, <1>5 DEF Calm

LEMMA SkipInv == ASSUME Inv, Skip PROVE Inv'
<1>1. TypeOK /\ Told /\ Shape BY DEF Inv
<1>2. /\ Working /\ run.todo # <<>> /\ run.step = "work" /\ Item.kind = "published"
      /\ run.held[Framework] = Item.version /\ Done(run.held)
      /\ UNCHANGED <<registry, disk, files, faults, crashes, failed, stuck, walk>>
  BY DEF Skip, Pulling, AtItem, Working
<1>3. Elsewhere(run.held) /\ Passes(run.held) BY <1>2 DEF Elsewhere, Passes, files
<1>4. TypeOK' /\ Told' /\ Shape' /\ Passed' /\ Dropped' /\ Known' /\ Kept'
  BY <1>1, <1>2, <1>3, DoneInv, TypeFacts DEF files
<1>5. Calm' BY <1>1, <1>2, DoneCalm, TypeFacts DEF files
<1> QED BY <1>4, <1>5 DEF Inv

LEMMA RefusedInv == ASSUME Inv, Refused PROVE Inv'
<1>1. TypeOK /\ Told /\ Shape BY DEF Inv
<1>2. /\ Working /\ run.todo # <<>> /\ run.step = "work" /\ Item.kind = "published"
      /\ phase[Item.version] # "released" /\ Done(run.held)
      /\ UNCHANGED <<registry, disk, files, faults, crashes, failed, stuck, walk>>
  BY DEF Refused, Pulling, AtItem, Working, Fetchable
<1>3. Elsewhere(run.held) /\ Passes(run.held) BY <1>2 DEF Elsewhere, Passes, files
<1>4. TypeOK' /\ Told' /\ Shape' /\ Passed' /\ Dropped' /\ Known' /\ Kept'
  BY <1>1, <1>2, <1>3, DoneInv, TypeFacts DEF files
<1>5. Calm' BY <1>1, <1>2, DoneCalm, TypeFacts DEF files
<1> QED BY <1>4, <1>5 DEF Inv

LEMMA FetchFailsInv == ASSUME Inv, FetchFails PROVE Inv'
<1>1. TypeOK /\ Told /\ Shape BY DEF Inv
<1>2. /\ Working /\ run.todo # <<>> /\ run.step = "work" /\ Item.kind = "published"
      /\ faults < MaxFaults /\ faults' = faults + 1 /\ Done(run.held)
      /\ failed' = failed \union {Item.version}
      /\ UNCHANGED <<registry, disk, files, crashes, stuck, walk>>
  BY DEF FetchFails, Fail, Fault, Pulling, AtItem, Working
<1>3. Elsewhere(run.held) /\ Passes(run.held) BY <1>2 DEF Elsewhere, Passes, files
<1>4. faults \in 0..MaxFaults /\ faults' \in 0..MaxFaults BY <1>1, <1>2, TypeFacts, SyncAssumption
<1>5. failed \subseteq failed' /\ failed' \subseteq Versions BY <1>1, <1>2, TypeFacts, ItemFacts
<1>6. TypeOK' /\ Told' /\ Shape' /\ Passed' /\ Dropped' /\ Known' /\ Kept'
  BY <1>1, <1>2, <1>3, <1>4, <1>5, DoneInv, TypeFacts DEF files
<1>7. faults' # faults BY <1>2, <1>4
<1>8. Calm' BY <1>1, <1>2, <1>7, DoneCalm, TypeFacts
<1> QED BY <1>6, <1>8 DEF Inv

\* What a write that does not come to its end can do to the files.
LEMMA TornFiles ==
  ASSUME Inv, Working, TornWrite \/ UNCHANGED files
  PROVE  /\ seed' \in [Frameworks -> Files] /\ bundle' \in [Frameworks -> Files]
         /\ delta' \in [Frameworks -> Files \X Files]
         /\ \/ seed' = seed /\ bundle' = bundle
            \/ /\ Mid /\ run.todo # <<>>
               /\ \A g \in Frameworks \ {Framework} : seed'[g] = seed[g] /\ bundle'[g] = bundle[g]
               /\ seed'[Framework] \in {seed[Framework], Torn}
               /\ bundle'[Framework] \in {bundle[Framework], Torn}
<1>1. TypeOK /\ Told /\ Shape BY DEF Inv
<1>2. /\ seed \in [Frameworks -> Files] /\ bundle \in [Frameworks -> Files]
      /\ delta \in [Frameworks -> Files \X Files] /\ Torn \in Files
  BY <1>1, TypeFacts DEF Files
<1>3. TornDelta \in Files \X Files BY <1>2 DEF TornDelta
<1>4. CASE UNCHANGED files BY <1>2, <1>4 DEF files
<1>5. CASE AtItem("fetched") /\ seed' = [seed EXCEPT ![Framework] = Torn] /\ UNCHANGED <<bundle, delta>>
  BY <1>2, <1>5 DEF AtItem, Mid
<1>6. CASE AtItem("seeded") /\ bundle' = [bundle EXCEPT ![Framework] = Torn] /\ UNCHANGED <<seed, delta>>
  BY <1>2, <1>6 DEF AtItem, Mid
<1>7. CASE delta' = [delta EXCEPT ![Framework] = TornDelta] /\ UNCHANGED <<seed, bundle>>
  BY <1>2, <1>3, <1>7
<1> QED BY <1>4, <1>5, <1>6, <1>7 DEF TornWrite

LEMMA WriteFailsInv == ASSUME Inv, WriteFails PROVE Inv'
<1>1. TypeOK /\ Told /\ Shape BY DEF Inv
<1>2. /\ Working /\ run.todo # <<>> /\ Mid
      /\ faults < MaxFaults /\ faults' = faults + 1 /\ Done(run.held)
      /\ failed' = failed \union {Item.version}
      /\ TornWrite \/ UNCHANGED files
      /\ UNCHANGED <<registry, disk, crashes, stuck, walk>>
  BY DEF WriteFails, Fail, Fault, AtItem, Working, Mid
<1>3. Item.kind = "published" /\ run.held[Framework] # Item.version BY <1>1, <1>2 DEF Shape
<1>4. /\ seed' \in [Frameworks -> Files] /\ bundle' \in [Frameworks -> Files]
      /\ delta' \in [Frameworks -> Files \X Files]
      /\ Elsewhere(run.held) /\ Passes(run.held)
  BY <1>2, <1>3, TornFiles DEF Elsewhere, Passes
<1>5. faults \in 0..MaxFaults /\ faults' \in 0..MaxFaults BY <1>1, <1>2, TypeFacts, SyncAssumption
<1>6. failed \subseteq failed' /\ failed' \subseteq Versions BY <1>1, <1>2, TypeFacts, ItemFacts
<1>7. TypeOK' /\ Told' /\ Shape' /\ Passed' /\ Dropped' /\ Known' /\ Kept'
  BY <1>1, <1>2, <1>4, <1>5, <1>6, DoneInv, TypeFacts
<1>8. faults' # faults BY <1>2, <1>5
<1>9. Calm' BY <1>1, <1>2, <1>8, DoneCalm, TypeFacts
<1> QED BY <1>7, <1>9 DEF Inv

LEMMA FinishPullInv == ASSUME Inv, FinishPull PROVE Inv'
<1>1. TypeOK /\ Told /\ Shape BY DEF Inv
<1> PICK h : h = [run.held EXCEPT ![Framework] = Item.version] OBVIOUS
<1>2. /\ Working /\ Mid /\ run.todo # <<>> /\ run.step = "bundled" /\ Done(h)
      /\ UNCHANGED <<registry, disk, seed, bundle, crashes, failed, stuck, walk>>
  BY DEF FinishPull, AtItem, Working, Mid
<1>3. /\ Item.kind = "published" /\ run.held[Framework] # Item.version
      /\ seed[Framework] = Item.version /\ bundle[Framework] = Item.version
  BY <1>1, <1>2 DEF Shape
<1>4. /\ Framework \in Frameworks /\ Item.version \in Versions /\ run.held \in Held
      /\ delta \in [Frameworks -> Files \X Files] /\ run.baseline \in Versions \union {NoVersion}
  BY <1>1, <1>2, ItemFacts, TypeFacts DEF Memory
<1>5. h \in Held BY <1>4 DEF Held
<1>6. Elsewhere(h) /\ Pulls(h) BY <1>2, <1>3, <1>4 DEF Elsewhere, Pulls, Held
<1>7. faults \in 0..MaxFaults /\ faults' \in 0..MaxFaults /\ faults' \in {faults, faults + 1}
  BY <1>1, TypeFacts, SyncAssumption DEF FinishPull, Fault
<1>8. delta' \in [Frameworks -> Files \X Files]
  <2>1. TornDelta \in Files \X Files /\ <<run.baseline, Item.version>> \in Files \X Files
    BY <1>4 DEF TornDelta, Files
  <2>2. delta' \in {delta, [delta EXCEPT ![Framework] = TornDelta],
                    [delta EXCEPT ![Framework] = <<run.baseline, Item.version>>]}
    BY DEF FinishPull
  <2> QED BY <1>4, <2>1, <2>2
<1>9. TypeOK' /\ Told' /\ Shape' /\ Passed' /\ Dropped' /\ Known' /\ Kept'
  BY <1>1, <1>2, <1>5, <1>6, <1>7, <1>8, DoneInv, TypeFacts
<1>10. Calm'
  BY <1>1, <1>2, <1>3, <1>4, <1>5, <1>7, DoneCalm DEF Held
<1> QED BY <1>9, <1>10 DEF Inv

LEMMA RetireInv == ASSUME Inv, Retire PROVE Inv'
<1>1. TypeOK /\ Told /\ Shape BY DEF Inv
<1> PICK h : h = [run.held EXCEPT ![Framework] = NoVersion] OBVIOUS
<1>2. /\ Working /\ run.todo # <<>> /\ run.step = "work" /\ Item.kind = "deprecated" /\ Done(h)
      /\ UNCHANGED <<registry, disk, delta, crashes, failed, walk>>
  BY DEF Retire, AtItem, Working
<1>3. /\ Framework \in Frameworks /\ run.held \in Held /\ stuck \subseteq Versions
      /\ seed \in [Frameworks -> Files] /\ bundle \in [Frameworks -> Files] /\ NoVersion \in Files
      /\ faults \in 0..MaxFaults
  BY <1>1, <1>2, ItemFacts, TypeFacts DEF Files
<1>4. h \in Held BY <1>3 DEF Held
\* The files are gone, or nothing is sure but that what is left is known.
<1>5. /\ seed' \in {seed, [seed EXCEPT ![Framework] = NoVersion]}
      /\ bundle' \in {bundle, [bundle EXCEPT ![Framework] = NoVersion]}
      /\ \/ /\ seed' = [seed EXCEPT ![Framework] = NoVersion]
            /\ bundle' = [bundle EXCEPT ![Framework] = NoVersion]
            /\ UNCHANGED <<faults, stuck>>
         \/ /\ faults < MaxFaults /\ faults' = faults + 1
            /\ stuck' = stuck \union ({seed'[Framework], bundle'[Framework]} \intersect Versions)
  BY DEF Retire, Fault
<1>6. /\ seed' \in [Frameworks -> Files] /\ bundle' \in [Frameworks -> Files]
      /\ \A g \in Frameworks \ {Framework} : seed'[g] = seed[g] /\ bundle'[g] = bundle[g]
      /\ seed'[Framework] \in {seed[Framework], NoVersion}
      /\ bundle'[Framework] \in {bundle[Framework], NoVersion}
  BY <1>3, <1>5
<1>7. /\ stuck \subseteq stuck' /\ stuck' \subseteq Versions
      /\ \A x \in {seed'[Framework], bundle'[Framework]} : x \in {NoVersion, Torn} \union stuck'
  <2>1. CASE UNCHANGED <<faults, stuck>> BY <1>3, <1>5, <2>1
  <2>2. CASE stuck' = stuck \union ({seed'[Framework], bundle'[Framework]} \intersect Versions)
    <3>1. seed'[Framework] \in Files /\ bundle'[Framework] \in Files BY <1>3, <1>6
    <3> QED BY <1>3, <2>2, <3>1 DEF Files
  <2> QED BY <1>5, <2>1, <2>2
<1>8. Elsewhere(h) /\ Retires(h) BY <1>2, <1>3, <1>6, <1>7 DEF Elsewhere, Retires, Held
<1>9. faults' \in 0..MaxFaults /\ faults' \in {faults, faults + 1} BY <1>3, <1>5, SyncAssumption
<1>10. TypeOK' /\ Told' /\ Shape' /\ Passed' /\ Dropped' /\ Known' /\ Kept'
  BY <1>1, <1>2, <1>4, <1>6, <1>7, <1>8, <1>9, DoneInv, TypeFacts
<1>11. \A g \in Frameworks : h[g] # NoVersion => h[g] = run.held[g] /\ bundle'[g] = bundle[g]
  BY <1>3, <1>6 DEF Held
<1>12. Calm' BY <1>1, <1>2, <1>4, <1>9, <1>11, DoneCalm
<1> QED BY <1>10, <1>12 DEF Inv

-----------------------------------------------------------------------------
(* A pull under way *)

LEMMA PullInv ==
  ASSUME Inv, Working, run.step # "bundled", run.todo # <<>>,
         Item.kind = "published", run.held[Framework] # Item.version,
         NEW s \in {"fetched", "seeded", "bundled"}, NEW b \in Versions \union {NoVersion},
         run' = [run EXCEPT !.step = s, !.baseline = b],
         UNCHANGED <<registry, disk, delta, faults, crashes, history>>,
         seed' \in [Frameworks -> Files], bundle' \in [Frameworks -> Files],
         \A g \in Frameworks \ {Framework} : seed'[g] = seed[g] /\ bundle'[g] = bundle[g],
         seed'[Framework] \in {seed[Framework], Item.version},
         bundle'[Framework] \in {bundle[Framework], Item.version},
         s \in {"seeded", "bundled"} => seed'[Framework] = Item.version,
         IF s = "bundled" THEN bundle'[Framework] = Item.version ELSE bundle' = bundle,
         faults = 0 /\ crashes = 0 => b = run.held[Framework]
  PROVE  Inv'
<1>1. TypeOK /\ Told /\ Shape /\ Passed /\ Dropped /\ Known /\ Kept /\ Calm BY DEF Inv
<1>2. /\ run \in Memory /\ Framework \in Frameworks /\ Framework = FrameworkOf[Item.version]
      /\ Item.version \in Versions
  BY <1>1, ItemFacts, TypeFacts
<1>3. /\ run' \in Memory /\ run'.step = s /\ run'.cold = run.cold /\ run'.todo = run.todo
      /\ run'.held = run.held /\ run'.next = run.next /\ run'.baseline = b
  BY <1>2 DEF Memory, Steps
<1>4. /\ log' = log /\ phase' = phase /\ hash' = hash /\ disk' = disk /\ walk' = walk
      /\ handled' = handled /\ failed' = failed /\ stuck' = stuck
  BY DEF registry, history
<1>5. /\ Working' /\ (Hot' <=> Hot) /\ (Cold' <=> Cold) /\ Pos' = Pos /\ Item' = Item
      /\ Framework' = Framework /\ run'.step # "idle"
  BY <1>3 DEF Working, Hot, Cold, Pos, Item, Framework
<1>6. Told'
  BY <1>1, <1>4 DEF Told, PublishedFirst, Says, FeedTellsAll, AnnouncedOnce, Registry!TypeOK,
                    Registry!FeedTellsAll, Registry!AnnouncedOnce, Registry!Tells
<1>7. TypeOK'
  <2>1. run.next \in 0..Len(log') BY <1>1, <1>4, TypeFacts
  <2>2. run' \in [step : Steps, cold : BOOLEAN, todo : Seq(Items), held : Held, next : 0..Len(log'),
                  baseline : Versions \union {NoVersion}]
    BY <1>3, <2>1 DEF Memory
  <2>3. Registry!TypeOK' BY <1>6 DEF Told
  <2>4. /\ disk' \in [cursor : 0..Len(log'), held : Held, torn : BOOLEAN]
        /\ walk' \in [seen : 0..Len(log'), head : 0..Len(log')]
        /\ delta' \in [Frameworks -> Files \X Files]
        /\ faults' \in 0..MaxFaults /\ crashes' \in 0..MaxCrashes
        /\ handled' \subseteq 1..Len(log') /\ failed' \subseteq Versions /\ stuck' \subseteq Versions
    BY <1>1, <1>4, TypeFacts
  <2> QED BY <2>2, <2>3, <2>4 DEF TypeOK, Steps
<1>8. Shape'
  <2>1. Cold => Entries' BY <1>1, <1>3, <1>4 DEF Shape, Entries, Says
  <2>2. Hot => Events' BY <1>1, <1>3, <1>4, <1>5 DEF Shape, Events
  <2> QED BY <1>1, <1>3, <1>4, <1>5, <2>1, <2>2 DEF Shape, Mid
<1>9. Passed' BY <1>1, <1>4, <1>5 DEF Passed
<1>10. Known' BY <1>1, <1>3, <1>4, <1>5 DEF Known, KnownAt, Says
<1>11. Kept'
  <2> SUFFICES ASSUME NEW f \in Frameworks, NEW v \in Versions, NEW i \in DOMAIN log, NewestAt(f, v, i)
               PROVE  KeptAt(f, v, i)'
    BY <1>4 DEF Kept, NewestAt
  <2>1. KeptAt(f, v, i) BY <1>1 DEF Kept
  <2>2. f = Framework => run.held[f] # v /\ disk.held[f] # v BY Untouched
  <2>3. f # Framework => seed'[f] = seed[f] /\ bundle'[f] = bundle[f] OBVIOUS
  <2>4. /\ disk'.held[f] = v => seed'[f] = v /\ bundle'[f] = v
        /\ disk'.held[f] = v /\ Working' => run'.held[f] = v
        /\ Working' /\ run'.held[f] = v => seed'[f] = v /\ bundle'[f] = v
    BY <1>3, <1>4, <2>1, <2>2, <2>3 DEF KeptAt
  <2>5. /\ v \notin failed' /\ ~InGap(i)' /\ i <= disk'.cursor => disk'.held[f] = v
        /\ v \notin failed' /\ ~InGap(i)' /\ Hot' /\ i <= Pos' => run'.held[f] = v
    BY <1>3, <1>4, <1>5, <2>1 DEF KeptAt, InGap
  <2>6. Cold' /\ i <= walk'.seen =>
         /\ v \notin failed' =>
              run'.held[f] = v \/ \E k \in 1..Len(run'.todo) : run'.todo[k].version = v
         /\ \A k \in 1..Len(run'.todo) :
              FrameworkOf[run'.todo[k].version] = f => run'.todo[k].version = v
    BY <1>3, <1>4, <1>5, <2>1 DEF KeptAt
  <2> QED BY <2>4, <2>5, <2>6 DEF KeptAt
<1>12. Dropped'
  <2> SUFFICES ASSUME NEW i \in DOMAIN log, NEW u \in Versions, NEW f \in Frameworks, u = log[i].version,
                      f = FrameworkOf[u], log[i].kind = "deprecated", walk.head < i
               PROVE  /\ i <= disk.cursor => u # disk.held[f] /\ u \notin {seed'[f], bundle'[f]} \ stuck'
                      /\ Hot /\ i <= Pos => u # run.held[f] /\ u \notin {seed'[f], bundle'[f]} \ stuck'
    <3>1. \A i \in DOMAIN log : log[i].version \in Versions /\ FrameworkOf[log[i].version] \in Frameworks
      BY <1>1, ToldFacts, SyncAssumption
    <3> QED BY <1>3, <1>4, <1>5, <3>1 DEF Dropped, Gone
  <2>1. /\ i <= disk.cursor => u # disk.held[f] /\ u \notin {seed[f], bundle[f]} \ stuck
        /\ Hot /\ i <= Pos => u # run.held[f] /\ u \notin {seed[f], bundle[f]} \ stuck
    BY <1>1 DEF Dropped, Gone
  <2>2. i <= disk.cursor => Hot /\ i <= Pos
    <3>1. Hot \/ Cold BY DEF Hot, Cold
    <3>2. Cold => disk.cursor = 0 /\ walk.head \in Nat /\ i \in Nat BY <1>1, TypeFacts DEF Shape
    <3>3. Hot => disk.cursor <= Pos /\ Pos \in Nat /\ disk.cursor \in Nat /\ i \in Nat
      BY <1>1, ItemFacts, TypeFacts DEF Shape
    <3> QED BY <3>1, <3>2, <3>3
  <2>3. ASSUME Hot, i <= Pos PROVE u # Item.version
    <3>1. /\ Pos \in Nat /\ Pos + 1 \in DOMAIN log /\ i \in Nat
          /\ Item.version = log[Pos + 1].version /\ Item.kind = log[Pos + 1].kind
      BY <1>1, <2>3, ItemFacts, TypeFacts
    <3>2. u = Item.version => Says(Pos + 1, "published", u) BY <3>1 DEF Says
    <3>3. u = Item.version => Pos + 1 < i BY <1>1, <3>1, <3>2, ToldFacts
    <3> QED BY <2>3, <3>1, <3>3
  <2>4. /\ seed'[f] \in {seed[f], Item.version} /\ bundle'[f] \in {bundle[f], Item.version}
        /\ stuck' = stuck
    BY <1>4
  <2> QED BY <2>1, <2>2, <2>3, <2>4
<1>13. Calm'
  <2> SUFFICES ASSUME faults = 0, crashes = 0, NEW f \in Frameworks
               PROVE  /\ run.held[f] # NoVersion /\ ~(s = "bundled" /\ Framework = f)
                           => bundle'[f] = run.held[f]
                      /\ Framework = f => b = run.held[f]
    BY <1>3, <1>4, <1>5 DEF Calm
  <2>1. run.held[f] # NoVersion => bundle[f] = run.held[f] BY <1>1 DEF Calm
  <2>2. ~(s = "bundled" /\ Framework = f) => bundle'[f] = bundle[f] OBVIOUS
  <2> QED BY <2>1, <2>2
<1> QED BY <1>6, <1>7, <1>8, <1>9, <1>10, <1>11, <1>12, <1>13 DEF Inv

LEMMA FetchInv == ASSUME Inv, Fetch PROVE Inv'
<1> PICK b : b = IF run.held[Framework] = NoVersion \/ bundle[Framework] = Torn
                 THEN NoVersion ELSE bundle[Framework]
  OBVIOUS
<1>1. TypeOK /\ Told /\ Shape /\ Calm BY DEF Inv
<1>2. /\ Working /\ run.step = "work" /\ run.todo # <<>>
      /\ Item.kind = "published" /\ run.held[Framework] # Item.version
      /\ run' = [run EXCEPT !.step = "fetched", !.baseline = b]
      /\ UNCHANGED <<registry, disk, files, faults, crashes, history>>
  BY DEF Fetch, Pulling, AtItem, Working
<1>3. /\ Framework \in Frameworks /\ seed \in [Frameworks -> Files] /\ bundle \in [Frameworks -> Files]
      /\ run.held \in [Frameworks -> Versions \union {NoVersion}]
  BY <1>1, <1>2, ItemFacts, TypeFacts DEF Held
<1>4. b \in Versions \union {NoVersion} BY <1>3 DEF Files
<1>5. faults = 0 /\ crashes = 0 => b = run.held[Framework]
  <2>1. faults = 0 /\ crashes = 0 /\ run.held[Framework] # NoVersion =>
          bundle[Framework] = run.held[Framework]
    BY <1>1, <1>2, <1>3 DEF Calm
  <2> QED BY <1>3, <2>1, SyncAssumption
<1> QED BY <1>2, <1>3, <1>4, <1>5, PullInv DEF files

LEMMA WriteSeedInv == ASSUME Inv, WriteSeed PROVE Inv'
<1>1. TypeOK /\ Told /\ Shape /\ Calm BY DEF Inv
<1>2. /\ Working /\ Mid /\ run.step = "fetched" /\ run.todo # <<>>
      /\ seed' = [seed EXCEPT ![Framework] = Item.version]
      /\ run' = [run EXCEPT !.step = "seeded"]
      /\ UNCHANGED <<registry, disk, bundle, delta, faults, crashes, history>>
  BY DEF WriteSeed, AtItem, Working, Mid
<1>3. Item.kind = "published" /\ run.held[Framework] # Item.version BY <1>1, <1>2 DEF Shape
<1>4. /\ Framework \in Frameworks /\ seed \in [Frameworks -> Files] /\ bundle \in [Frameworks -> Files]
      /\ Item.version \in Files /\ run \in Memory /\ run.baseline \in Versions \union {NoVersion}
  BY <1>1, <1>2, ItemFacts, TypeFacts DEF Memory, Files
<1>5. run' = [run EXCEPT !.step = "seeded", !.baseline = run.baseline] BY <1>2, <1>4 DEF Memory
<1>6. seed' \in [Frameworks -> Files] /\ seed'[Framework] = Item.version
      /\ \A g \in Frameworks \ {Framework} : seed'[g] = seed[g]
  BY <1>2, <1>4
<1>7. faults = 0 /\ crashes = 0 => run.baseline = run.held[Framework] BY <1>1, <1>2, <1>4 DEF Calm
<1> QED BY <1>2, <1>3, <1>4, <1>5, <1>6, <1>7, PullInv

LEMMA WriteBundleInv == ASSUME Inv, WriteBundle PROVE Inv'
<1>1. TypeOK /\ Told /\ Shape /\ Calm BY DEF Inv
<1>2. /\ Working /\ Mid /\ run.step = "seeded" /\ run.todo # <<>>
      /\ bundle' = [bundle EXCEPT ![Framework] = Item.version]
      /\ run' = [run EXCEPT !.step = "bundled"]
      /\ UNCHANGED <<registry, disk, seed, delta, faults, crashes, history>>
  BY DEF WriteBundle, AtItem, Working, Mid
<1>3. /\ Item.kind = "published" /\ run.held[Framework] # Item.version
      /\ seed[Framework] = Item.version
  BY <1>1, <1>2 DEF Shape
<1>4. /\ Framework \in Frameworks /\ seed \in [Frameworks -> Files] /\ bundle \in [Frameworks -> Files]
      /\ Item.version \in Files /\ run \in Memory /\ run.baseline \in Versions \union {NoVersion}
  BY <1>1, <1>2, ItemFacts, TypeFacts DEF Memory, Files
<1>5. run' = [run EXCEPT !.step = "bundled", !.baseline = run.baseline] BY <1>2, <1>4 DEF Memory
<1>6. bundle' \in [Frameworks -> Files] /\ bundle'[Framework] = Item.version
      /\ \A g \in Frameworks \ {Framework} : bundle'[g] = bundle[g]
  BY <1>2, <1>4
<1>7. faults = 0 /\ crashes = 0 => run.baseline = run.held[Framework] BY <1>1, <1>2, <1>4 DEF Calm
<1> QED BY <1>2, <1>3, <1>4, <1>5, <1>6, <1>7, PullInv

-----------------------------------------------------------------------------
(* The end of a run *)

LEMMA EmptySeq == ASSUME NEW S PROVE <<>> \in Seq(S) /\ Len(<<>>) = 0
  OBVIOUS

LEMMA IdleFacts ==
  /\ IdleRun \in Memory /\ IdleRun.step = "idle" /\ IdleRun.todo = <<>> /\ IdleRun.next = 0
  /\ IdleRun.held = Nothing /\ Nothing \in Held
<1>1. Nothing \in Held BY DEF Nothing, Held
<1>2. IdleRun \in Memory BY <1>1, EmptySeq DEF IdleRun, Memory, Steps
<1> QED BY <1>1, <1>2 DEF IdleRun

LEMMA SameRegistry == ASSUME Told, UNCHANGED registry PROVE Told' /\ Registry!TypeOK'
  BY DEF registry, Told, PublishedFirst, Says, FeedTellsAll, AnnouncedOnce, Registry!TypeOK,
         Registry!FeedTellsAll, Registry!AnnouncedOnce, Registry!Tells

\* The types of a state without a run.
LEMMA IdleTypes ==
  ASSUME TypeOK, Told, UNCHANGED registry, run' = IdleRun,
         disk' \in [cursor : 0..Len(log), held : Held, torn : BOOLEAN],
         seed' \in [Frameworks -> Files], bundle' \in [Frameworks -> Files],
         delta' \in [Frameworks -> Files \X Files],
         faults' \in 0..MaxFaults, crashes' \in 0..MaxCrashes,
         handled' = handled, failed' = failed, stuck' = stuck,
         walk' \in [seen : 0..Len(log), head : 0..Len(log)]
  PROVE  TypeOK' /\ Told' /\ ~Working' /\ ~Hot' /\ ~Cold' /\ ~Mid' /\ run'.todo = <<>>
<1>1. log' = log /\ Told' /\ Registry!TypeOK' BY SameRegistry DEF registry
<1>2. /\ run' \in Memory /\ run'.step = "idle" /\ run'.todo = <<>> /\ run'.next = 0
  BY IdleFacts
<1>3. run'.next \in 0..Len(log') BY <1>1, <1>2, TypeFacts
<1>4. run' \in [step : Steps, cold : BOOLEAN, todo : Seq(Items), held : Held, next : 0..Len(log'),
                baseline : Versions \union {NoVersion}]
  BY <1>2, <1>3 DEF Memory
<1>5. disk' \in [cursor : 0..Len(log'), held : Held, torn : BOOLEAN] BY <1>1
<1>6. handled' \subseteq 1..Len(log') /\ failed' \subseteq Versions /\ stuck' \subseteq Versions
      /\ walk' \in [seen : 0..Len(log'), head : 0..Len(log')]
  BY <1>1, TypeFacts
<1>7. TypeOK' BY <1>1, <1>4, <1>5, <1>6 DEF TypeOK, Steps
<1> QED BY <1>1, <1>2, <1>7 DEF Working, Hot, Cold, Mid

LEMMA DiskFacts ==
  /\ NewDisk.cursor = 0 /\ NewDisk.held = Nothing /\ NewDisk.torn = FALSE
  /\ TornDisk.cursor = 0 /\ TornDisk.held = Nothing /\ TornDisk.torn = TRUE
  /\ \A f \in Frameworks : Nothing[f] = NoVersion
  /\ \A n \in Nat : TornDisk \in [cursor : 0..n, held : Held, torn : BOOLEAN]
<1>1. NewDisk = [cursor |-> 0, held |-> Nothing, torn |-> FALSE] BY DEF NewDisk
<1>2. TornDisk = [cursor |-> 0, held |-> Nothing, torn |-> TRUE] BY DEF TornDisk
<1>3. \A f \in Frameworks : Nothing[f] = NoVersion BY DEF Nothing
<1>4. ASSUME NEW n \in Nat PROVE TornDisk \in [cursor : 0..n, held : Held, torn : BOOLEAN]
  <2>1. 0 \in 0..n /\ Nothing \in Held /\ TRUE \in BOOLEAN BY IdleFacts
  <2> QED BY <1>2, <2>1, Zenon
<1> HIDE DEF TornDisk, NewDisk, Nothing
<1>5. NewDisk.cursor = 0 /\ NewDisk.held = Nothing /\ NewDisk.torn = FALSE BY <1>1
<1>6. TornDisk.cursor = 0 /\ TornDisk.held = Nothing /\ TornDisk.torn = TRUE BY <1>2
<1> QED BY <1>3, <1>4, <1>5, <1>6

\* A run that ends without saving, with at most the files of the framework at
\* hand torn or removed.
LEMMA StopInv ==
  ASSUME Inv, Working, run' = IdleRun, UNCHANGED <<registry, history>>,
         disk' \in {disk, TornDisk},
         faults' \in 0..MaxFaults, crashes' \in 0..MaxCrashes, ~(faults' = 0 /\ crashes' = 0),
         seed' \in [Frameworks -> Files], bundle' \in [Frameworks -> Files],
         delta' \in [Frameworks -> Files \X Files],
         \/ seed' = seed /\ bundle' = bundle
         \/ /\ run.todo # <<>>
            /\ Item.kind = "deprecated" \/ run.held[Framework] # Item.version
            /\ \A g \in Frameworks \ {Framework} : seed'[g] = seed[g] /\ bundle'[g] = bundle[g]
            /\ seed'[Framework] \in {seed[Framework], Torn, NoVersion}
            /\ bundle'[Framework] \in {bundle[Framework], Torn, NoVersion}
  PROVE  Inv'
<1>1. TypeOK /\ Told /\ Shape /\ Passed /\ Dropped /\ Known /\ Kept /\ Calm BY DEF Inv
<1>2. /\ log' = log /\ phase' = phase /\ walk' = walk /\ handled' = handled /\ failed' = failed /\ stuck' = stuck
  BY DEF registry, history
<1> DEFINE Record == [cursor : 0..Len(log), held : Held, torn : BOOLEAN]
<1>3. disk \in Record /\ TornDisk \in Record
  BY <1>1, TypeFacts, DiskFacts
<1> HIDE DEF Record
<1>4. disk' \in Record BY <1>3
<1>5. disk'.torn => disk'.cursor = 0 /\ disk'.held = Nothing
  <2>1. CASE disk' = disk
    <3>1. disk.torn => disk.cursor = 0 /\ disk.held = Nothing BY <1>1, Zenon DEF Shape
    <3> QED BY <2>1, <3>1, Zenon
  <2>2. CASE disk' = TornDisk BY <2>2, DiskFacts, Zenon
  <2> QED BY <2>1, <2>2
<1>6. disk' = disk \/ (disk'.cursor = 0 /\ disk'.held = Nothing)
  <2>1. CASE disk' = disk BY <2>1, Zenon
  <2>2. CASE disk' = TornDisk BY <2>2, DiskFacts
  <2> QED BY <2>1, <2>2
<1>7. /\ disk' \in [cursor : 0..Len(log), held : Held, torn : BOOLEAN]
      /\ disk'.cursor \in 0..Len(log) /\ disk'.held \in Held
  BY <1>4 DEF Record
<1>8. TypeOK' /\ Told' /\ ~Working' /\ ~Hot' /\ ~Cold' /\ ~Mid' /\ run'.todo = <<>>
  <2>1. walk' \in [seen : 0..Len(log), head : 0..Len(log)] BY <1>1, <1>2, TypeFacts
  <2> QED BY <1>1, <1>2, <1>7, <2>1, IdleTypes
<1>9. Shape' BY <1>5, <1>8, Zenon DEF Shape, Working, Mid
<1>10. disk'.cursor \in Nat /\ disk.cursor \in Nat /\ walk.head \in Nat BY <1>1, <1>7, TypeFacts
<1>11. Passed'
  BY <1>1, <1>2, <1>8, <1>10, <1>6 DEF Passed
<1>12. Known'
  <2>1. CASE disk' = disk BY <1>1, <1>2, <1>8, <2>1 DEF Known, KnownAt, Says
  <2>2. CASE disk'.held = Nothing BY <1>8, <2>2, DiskFacts DEF Known, KnownAt
  <2> QED BY <1>6, <2>1, <2>2
<1>13. Kept'
  <2> SUFFICES ASSUME NEW f \in Frameworks, NEW v \in Versions, NEW i \in DOMAIN log, NewestAt(f, v, i)
               PROVE  KeptAt(f, v, i)'
    BY <1>2 DEF Kept, NewestAt
  <2>1. KeptAt(f, v, i) BY <1>1 DEF Kept
  <2>2. v # NoVersion /\ i \in Nat /\ i # 0 BY <1>1, SyncAssumption, TypeFacts
  <2>3. CASE disk' = disk
    <3>1. \/ seed'[f] = seed[f] /\ bundle'[f] = bundle[f]
          \/ disk.held[f] # v
      BY Untouched
    <3>2. disk.held[f] = v => seed'[f] = v /\ bundle'[f] = v BY <2>1, <3>1 DEF KeptAt
    <3>3. v \notin failed' /\ ~InGap(i)' /\ i <= disk'.cursor => disk'.held[f] = v
      BY <1>2, <2>1, <2>3 DEF KeptAt, InGap
    <3> QED BY <1>8, <2>3, <3>2, <3>3 DEF KeptAt
  <2>4. CASE disk'.cursor = 0 /\ disk'.held = Nothing
    BY <1>8, <2>2, <2>4, DiskFacts DEF KeptAt
  <2> QED BY <1>6, <2>3, <2>4
<1>14. Dropped'
  <2> SUFFICES ASSUME NEW i \in DOMAIN log, NEW u \in Versions, NEW f \in Frameworks, u = log[i].version,
                      f = FrameworkOf[u], log[i].kind = "deprecated", walk.head < i, i <= disk'.cursor
               PROVE  u # disk'.held[f] /\ u \notin {seed'[f], bundle'[f]} \ stuck'
    <3>1. \A i \in DOMAIN log : log[i].version \in Versions /\ FrameworkOf[log[i].version] \in Frameworks
      BY <1>1, ToldFacts, SyncAssumption
    <3> QED BY <1>2, <1>8, <3>1 DEF Dropped, Gone
  <2>1. disk' = disk BY <1>1, <1>10, <1>6, TypeFacts
  <2>2. u # disk.held[f] /\ u \notin {seed[f], bundle[f]} \ stuck BY <1>1, <2>1 DEF Dropped, Gone
  <2>3. /\ seed'[f] \in {seed[f], Torn, NoVersion} /\ bundle'[f] \in {bundle[f], Torn, NoVersion}
    OBVIOUS
  <2>4. stuck' = stuck BY <1>2
  <2> QED BY <2>1, <2>2, <2>3, <2>4, SyncAssumption
<1>15. Calm' BY DEF Calm
<1> QED BY <1>8, <1>9, <1>11, <1>12, <1>13, <1>14, <1>15 DEF Inv

LEMMA SaveFailsInv == ASSUME Inv, SaveFails PROVE Inv'
<1>1. TypeOK BY DEF Inv
<1>2. /\ Working /\ faults < MaxFaults /\ faults' = faults + 1 /\ run' = IdleRun
      /\ disk' \in {disk, TornDisk} /\ UNCHANGED <<registry, files, crashes, history>>
  BY DEF SaveFails, AllHandled, Fault, Working
<1>3. faults \in 0..MaxFaults /\ faults' \in 0..MaxFaults /\ faults' # 0
  BY <1>1, <1>2, TypeFacts, SyncAssumption
<1>4. /\ seed' = seed /\ bundle' = bundle /\ delta' = delta /\ crashes' = crashes
  BY <1>2 DEF files
<1> QED BY <1>1, <1>2, <1>3, <1>4, StopInv, TypeFacts

LEMMA CrashInv == ASSUME Inv, Crash PROVE Inv'
<1>1. TypeOK /\ Told /\ Shape BY DEF Inv
<1>2. /\ Working /\ crashes < MaxCrashes /\ crashes' = crashes + 1 /\ run' = IdleRun
      /\ UNCHANGED <<registry, faults, history>>
  BY DEF Crash, Working
<1>3. crashes \in 0..MaxCrashes /\ crashes' \in 0..MaxCrashes /\ crashes' # 0
  BY <1>1, <1>2, TypeFacts, SyncAssumption
<1>4. CASE UNCHANGED files /\ disk' \in {disk, TornDisk}
  BY <1>1, <1>2, <1>3, <1>4, StopInv, TypeFacts DEF files
<1>5. CASE TornWrite /\ UNCHANGED disk
  <2>1. Mid => Item.kind = "published" /\ run.held[Framework] # Item.version BY <1>1 DEF Shape
  <2> QED BY <1>1, <1>2, <1>3, <1>5, <2>1, TornFiles, StopInv, TypeFacts
<1>6. CASE /\ AtItem("work") /\ Item.kind = "deprecated"
           /\ seed' = [seed EXCEPT ![Framework] = NoVersion]
           /\ UNCHANGED <<disk, bundle, delta>>
  <2>1. run.todo # <<>> BY <1>6 DEF AtItem
  <2>2. /\ Framework \in Frameworks /\ seed \in [Frameworks -> Files] /\ NoVersion \in Files
    BY <1>1, <1>2, <2>1, ItemFacts, TypeFacts DEF Files
  <2>3. /\ seed' \in [Frameworks -> Files] /\ seed'[Framework] = NoVersion
        /\ \A g \in Frameworks \ {Framework} : seed'[g] = seed[g]
    BY <1>6, <2>2
  <2> QED BY <1>1, <1>2, <1>3, <1>6, <2>1, <2>3, StopInv, TypeFacts
<1> QED BY <1>2, <1>4, <1>5, <1>6 DEF Crash

LEMMA DeleteStateInv == ASSUME Inv, DeleteState PROVE Inv'
<1>1. TypeOK /\ Told /\ Shape /\ Passed /\ Dropped /\ Known /\ Kept /\ Calm BY DEF Inv
<1>2. /\ disk.torn /\ disk' = NewDisk
      /\ log' = log /\ phase' = phase /\ walk' = walk /\ handled' = handled /\ failed' = failed /\ stuck' = stuck
      /\ seed' = seed /\ bundle' = bundle /\ delta' = delta /\ run' = run
      /\ faults' = faults /\ crashes' = crashes /\ UNCHANGED registry
  BY DEF DeleteState, registry, files, history
<1>3. ~Working /\ run.step = "idle" /\ run.todo = <<>> BY <1>1, <1>2 DEF Shape, Working
<1>4. ~Working' /\ ~Hot' /\ ~Cold' /\ ~Mid' BY <1>2, <1>3 DEF Working, Hot, Cold, Mid
<1>5. disk'.cursor = 0 /\ disk'.held = Nothing /\ disk'.torn = FALSE BY <1>2, DiskFacts
<1>6. Told' /\ Registry!TypeOK' BY <1>1, <1>2, SameRegistry
<1>7. TypeOK'
  <2>1. disk' \in [cursor : 0..Len(log), held : Held, torn : BOOLEAN]
    BY <1>1, <1>2, TypeFacts, IdleFacts DEF NewDisk
  <2> QED BY <1>1, <1>2, <1>6, <2>1 DEF TypeOK
<1>8. Shape' BY <1>2, <1>3, <1>4, <1>5 DEF Shape, Working, Mid
<1>9. Passed' BY <1>1, <1>2, <1>4, <1>5, TypeFacts DEF Passed
<1>10. Known' BY <1>4, <1>5, DiskFacts DEF Known, KnownAt
<1>11. Kept'
  <2> SUFFICES ASSUME NEW f \in Frameworks, NEW v \in Versions, NEW i \in DOMAIN log PROVE KeptAt(f, v, i)'
    BY <1>2 DEF Kept
  <2>1. v # NoVersion /\ i \in Nat /\ i # 0 BY <1>1, SyncAssumption, TypeFacts
  <2> QED BY <1>4, <1>5, <2>1, DiskFacts DEF KeptAt
<1>12. Dropped'
  <2>1. \A i \in DOMAIN log : ~(i <= 0) BY <1>1, TypeFacts
  <2> QED BY <1>2, <1>4, <1>5, <2>1 DEF Dropped, Gone
<1>13. Calm' BY <1>4, <1>5, DiskFacts DEF Calm
<1> QED BY <1>6, <1>7, <1>8, <1>9, <1>10, <1>11, <1>12, <1>13 DEF Inv

\* What a run saves when everything was handled.
LEMMA SavedFacts ==
  ASSUME TypeOK, Told, Shape, AllHandled, NEW c \in 0..Len(log), Save(c), run' = IdleRun,
         UNCHANGED <<registry, files, crashes, handled, failed, stuck>>,
         faults' \in 0..MaxFaults, walk' \in [seen : 0..Len(log), head : 0..Len(log)]
  PROVE  /\ TypeOK' /\ Told' /\ Shape' /\ ~Working' /\ ~Hot' /\ ~Cold' /\ ~Mid' /\ Working
         /\ disk'.cursor = c /\ disk'.held = run.held /\ Pos = run.next
         /\ log' = log /\ phase' = phase /\ handled' = handled /\ failed' = failed /\ stuck' = stuck
         /\ seed' = seed /\ bundle' = bundle /\ crashes' = crashes
<1>1. Working /\ run.todo = <<>> /\ run.step = "work" BY DEF AllHandled, Working
<1>2. Len(run.todo) = 0 /\ Pos = run.next BY <1>1, EmptySeq, TypeFacts DEF Pos
<1>3. disk' = [cursor |-> c, held |-> run.held, torn |-> FALSE] BY DEF Save
<1>4. run.held \in Held BY TypeFacts
<1>5. disk'.cursor = c /\ disk'.held = run.held /\ disk'.torn = FALSE BY <1>3
<1>6. disk' \in [cursor : 0..Len(log), held : Held, torn : BOOLEAN] BY <1>3, <1>4
<1>7. /\ log' = log /\ phase' = phase /\ handled' = handled /\ failed' = failed /\ stuck' = stuck
      /\ seed' = seed /\ bundle' = bundle /\ delta' = delta /\ crashes' = crashes
  BY DEF registry, files
<1>8. TypeOK' /\ Told' /\ ~Working' /\ ~Hot' /\ ~Cold' /\ ~Mid' /\ run'.todo = <<>>
  BY <1>6, <1>7, IdleTypes, TypeFacts
<1>9. Shape' BY <1>5, <1>8, Zenon DEF Shape, Working, Mid
<1> QED BY <1>1, <1>2, <1>5, <1>7, <1>8, <1>9

LEMMA SavePageInv == ASSUME Inv, SavePage PROVE Inv'
<1>1. TypeOK /\ Told /\ Shape /\ Passed /\ Dropped /\ Known /\ Kept /\ Calm BY DEF Inv
<1>2. /\ AllHandled /\ Save(run.next) /\ run' = IdleRun /\ walk' = walk /\ faults' = faults
      /\ UNCHANGED <<registry, files, crashes, handled, failed, stuck>>
  BY DEF SavePage, history
<1>3. run.next \in 0..Len(log) /\ faults' \in 0..MaxFaults
      /\ walk' \in [seen : 0..Len(log), head : 0..Len(log)]
  BY <1>1, <1>2, TypeFacts
<1>4. /\ TypeOK' /\ Told' /\ Shape' /\ ~Working' /\ ~Hot' /\ ~Cold' /\ ~Mid' /\ Working
      /\ disk'.cursor = Pos /\ disk'.held = run.held
      /\ log' = log /\ phase' = phase /\ handled' = handled /\ failed' = failed /\ stuck' = stuck
      /\ seed' = seed /\ bundle' = bundle /\ crashes' = crashes
  BY <1>1, <1>2, <1>3, SavedFacts
<1>5. Hot BY <1>2, <1>4 DEF SavePage, Hot
<1>6. disk.cursor # 0 /\ disk.cursor <= Pos /\ disk.cursor \in Nat BY <1>1, <1>5, TypeFacts DEF Shape
<1>7. Passed' BY <1>1, <1>2, <1>4, <1>5 DEF Passed
<1>8. Dropped' BY <1>1, <1>2, <1>4, <1>5 DEF Dropped, Gone
<1>9. Known'
  <2>1. Pos # 0 BY <1>3, <1>4, <1>6, TypeFacts
  <2>2. KnownAt(run.held, Pos) BY <1>1, <1>5 DEF Known
  <2> QED BY <1>4, <2>1, <2>2 DEF Known, KnownAt, Says
<1>10. Kept'
  <2> SUFFICES ASSUME NEW f \in Frameworks, NEW v \in Versions, NEW i \in DOMAIN log, NewestAt(f, v, i)
               PROVE  KeptAt(f, v, i)'
    BY <1>4 DEF Kept, NewestAt
  <2>1. KeptAt(f, v, i) BY <1>1 DEF Kept
  <2> QED BY <1>2, <1>4, <1>5, <2>1 DEF KeptAt, InGap
<1>11. Calm'
  <2>1. run.step = "work" BY <1>2 DEF AllHandled
  <2> QED BY <1>1, <1>2, <1>4, <2>1 DEF Calm
<1> QED BY <1>4, <1>7, <1>8, <1>9, <1>10, <1>11 DEF Inv

LEMMA AdoptHeadInv == ASSUME Inv, AdoptHead PROVE Inv'
<1>1. TypeOK /\ Told /\ Shape /\ Passed /\ Dropped /\ Known /\ Kept /\ Calm BY DEF Inv
<1>2. Len(log) \in Nat /\ faults \in 0..MaxFaults /\ DOMAIN log = 1..Len(log) BY <1>1, TypeFacts
<1>3. PICK c \in 0..Len(log) :
        /\ AllHandled /\ run.cold /\ Save(c) /\ c \in {0, Len(log)}
        /\ faults' \in {faults, faults + 1} /\ faults' \in 0..MaxFaults
        /\ run' = IdleRun
        /\ UNCHANGED <<registry, files, crashes, handled, failed, stuck>>
  BY <1>2, SyncAssumption DEF AdoptHead, Fault
<1>4. walk' = [walk EXCEPT !.head = c]
  BY <1>3 DEF AdoptHead, Save
<1>5. /\ walk' \in [seen : 0..Len(log), head : 0..Len(log)]
      /\ walk'.head = c /\ walk'.seen = walk.seen
  BY <1>1, <1>4, TypeFacts
<1>6. /\ TypeOK' /\ Told' /\ Shape' /\ ~Working' /\ ~Hot' /\ ~Cold' /\ ~Mid' /\ Working
      /\ disk'.cursor = c /\ disk'.held = run.held
      /\ log' = log /\ phase' = phase /\ handled' = handled /\ failed' = failed /\ stuck' = stuck
      /\ seed' = seed /\ bundle' = bundle /\ crashes' = crashes
  BY <1>1, <1>3, <1>5, SavedFacts
<1>7. Cold BY <1>3, <1>6 DEF Cold
<1>8. Passed' BY <1>5, <1>6 DEF Passed
<1>9. Dropped'
  <2>1. \A i \in DOMAIN log : ~(c < i /\ i <= c) BY <1>2
  <2> QED BY <1>5, <1>6, <2>1 DEF Dropped, Gone
<1>10. Known'
  <2>1. KnownAt(run.held, walk.seen) /\ walk.seen \in 0..Len(log) BY <1>1, <1>7, TypeFacts DEF Known
  <2>2. KnownAt(run.held, Len(log)) BY <1>2, <2>1 DEF KnownAt
  <2>3. (IF c = 0 THEN Len(log) ELSE c) = Len(log) BY <1>2, <1>3
  <2> QED BY <1>6, <2>2, <2>3 DEF Known, KnownAt, Says
<1>11. Kept'
  <2> SUFFICES ASSUME NEW f \in Frameworks, NEW v \in Versions, NEW i \in DOMAIN log, NewestAt(f, v, i)
               PROVE  KeptAt(f, v, i)'
    BY <1>6 DEF Kept, NewestAt
  <2>1. KeptAt(f, v, i) BY <1>1 DEF Kept
  <2>2. disk'.held[f] = v => seed'[f] = v /\ bundle'[f] = v BY <1>6, <2>1 DEF KeptAt
  <2>3. ASSUME v \notin failed', ~InGap(i)', i <= disk'.cursor PROVE disk'.held[f] = v
    <3>1. i \in Nat /\ i <= walk.seen /\ walk.seen \in Nat
      BY <1>1, <1>2, <1>5, <1>6, <2>3, TypeFacts DEF InGap
    <3>2. run.todo = <<>> /\ Len(run.todo) = 0 BY <1>3, EmptySeq DEF AllHandled
    <3>3. run.held[f] = v BY <1>6, <1>7, <2>1, <2>3, <3>1, <3>2 DEF KeptAt
    <3> QED BY <1>6, <3>3
  <2> QED BY <1>6, <2>2, <2>3 DEF KeptAt
<1>12. Calm'
  <2>1. run.step = "work" BY <1>3 DEF AllHandled
  <2>2. faults' \in {faults, faults + 1} BY <1>3, Zenon
  <2>3. faults' = 0 => faults = 0 BY <1>2, <2>2, SyncAssumption
  <2> QED BY <1>1, <1>6, <2>1, <2>3 DEF Calm
<1> QED BY <1>6, <1>8, <1>9, <1>10, <1>11, <1>12 DEF Inv

-----------------------------------------------------------------------------
(* The registry moves *)

LEMMA RegistryInv == ASSUME Inv, RegistryStep PROVE Inv'
<1>1. TypeOK /\ Told /\ Shape /\ Passed /\ Dropped /\ Known /\ Kept /\ Calm BY DEF Inv
<1>2. /\ disk' = disk /\ seed' = seed /\ bundle' = bundle /\ delta' = delta /\ run' = run
      /\ faults' = faults /\ crashes' = crashes /\ handled' = handled /\ failed' = failed /\ stuck' = stuck
      /\ walk' = walk
  BY DEF RegistryStep, files, history
<1>3. /\ Told'
      /\ Len(log) \in Nat /\ Len(log') \in Nat /\ Len(log) <= Len(log')
      /\ DOMAIN log = 1..Len(log) /\ DOMAIN log' = 1..Len(log')
      /\ \A i \in DOMAIN log : log'[i] = log[i]
      /\ \A i \in DOMAIN log' \ DOMAIN log : log'[i].kind = "published" =>
           \A j \in DOMAIN log : log[j].version # log'[i].version
      /\ \A j \in DOMAIN log : phase'[log[j].version] = "released" => phase[log[j].version] = "released"
  BY <1>1, RegistryMoves
<1>4. /\ (Working' <=> Working) /\ (Hot' <=> Hot) /\ (Cold' <=> Cold) /\ (Mid' <=> Mid)
      /\ Pos' = Pos /\ Item' = Item /\ Framework' = Framework
  BY <1>2 DEF Working, Hot, Cold, Mid, Pos, Item, Framework
<1>5. \A j, kind, u : Says(j, kind, u) => Says(j, kind, u)' BY <1>3 DEF Says
<1>6. TypeOK'
  <2>1. /\ disk' \in [cursor : 0..Len(log'), held : Held, torn : BOOLEAN]
        /\ walk' \in [seen : 0..Len(log'), head : 0..Len(log')]
        /\ handled' \subseteq 1..Len(log')
    <3>1. 0..Len(log) \subseteq 0..Len(log') /\ 1..Len(log) \subseteq 1..Len(log') BY <1>3
    <3>2. disk' \in [cursor : 0..Len(log'), held : Held, torn : BOOLEAN]
      <4>1. disk \in [cursor : 0..Len(log), held : Held, torn : BOOLEAN] BY <1>1, TypeFacts
      <4> QED BY <1>2, <3>1, <4>1, Zenon
    <3> QED BY <1>1, <1>2, <3>1, <3>2, TypeFacts
  <2>2. run' \in [step : Steps, cold : BOOLEAN, todo : Seq(Items), held : Held, next : 0..Len(log'),
                  baseline : Versions \union {NoVersion}]
    <3>1. run.next \in 0..Len(log') /\ run \in Memory BY <1>1, <1>3, TypeFacts
    <3> QED BY <1>2, <3>1 DEF Memory
  <2>3. Registry!TypeOK' BY <1>3 DEF Told
  <2>4. /\ seed' \in [Frameworks -> Files] /\ bundle' \in [Frameworks -> Files]
        /\ delta' \in [Frameworks -> Files \X Files]
        /\ failed' \subseteq Versions /\ stuck' \subseteq Versions
        /\ faults' \in 0..MaxFaults /\ crashes' \in 0..MaxCrashes
    BY <1>1, <1>2, TypeFacts
  <2> QED BY <2>1, <2>2, <2>3, <2>4 DEF TypeOK, Steps
<1>7. Shape'
  <2>1. Cold => Entries'
    BY <1>1, <1>2, <1>5 DEF Shape, Entries
  <2>2. ASSUME Hot PROVE Events'
    <3> SUFFICES ASSUME NEW k \in 1..Len(run.todo)
                 PROVE  run.todo[k] = [kind |-> log'[Pos + k].kind, version |-> log'[Pos + k].version,
                                       seq |-> Pos + k]
      BY <1>2, <1>4 DEF Events
    <3>1. /\ disk.cursor \in Nat /\ disk.cursor <= Pos /\ Events /\ Len(run.todo) \in Nat
          /\ run.next \in Nat /\ run.next <= Len(log)
      BY <1>1, <2>2, TypeFacts DEF Shape
    <3>2. Pos + k \in DOMAIN log BY <1>3, <3>1 DEF Pos
    <3> QED BY <1>3, <3>1, <3>2 DEF Events
  <2>3. (Cold' => disk'.cursor = 0 /\ Entries') /\ (Hot' => disk'.cursor # 0 /\ disk'.cursor <= Pos' /\ Events')
    BY <1>1, <1>2, <1>4, <2>1, <2>2 DEF Shape
  <2>4. /\ run'.step = "idle" => run'.todo = <<>>
        /\ Working' => ~disk'.torn
        /\ disk'.torn => disk'.cursor = 0 /\ disk'.held = Nothing
    BY <1>1, <1>2, <1>4, Zenon DEF Shape
  <2>5. /\ Mid' => run'.todo # <<>> /\ Item'.kind = "published" /\ run'.held[Framework'] # Item'.version
        /\ run'.step \in {"seeded", "bundled"} => seed'[Framework'] = Item'.version
        /\ run'.step = "bundled" => bundle'[Framework'] = Item'.version
    BY <1>1, <1>2, <1>4 DEF Shape
  <2> QED BY <2>3, <2>4, <2>5 DEF Shape
<1>8. Passed' BY <1>1, <1>2, <1>4 DEF Passed
\* A position reached is a position of the feed as it was.
<1>9. /\ disk.cursor \in 0..Len(log) /\ walk.seen \in 0..Len(log)
      /\ Hot => Pos \in Nat /\ Pos <= Len(log)
  BY <1>1, TypeFacts DEF Shape, Pos
<1>10. Dropped'
  <2> SUFFICES ASSUME NEW i \in DOMAIN log'
               PROVE  Gone(i)'
    BY DEF Dropped
  <2>1. CASE i \in DOMAIN log
    <3>1. Gone(i) /\ log'[i] = log[i] BY <1>1, <1>3, <2>1 DEF Dropped
    <3> QED BY <1>2, <1>4, <3>1 DEF Gone
  <2>2. CASE i \notin DOMAIN log
    <3>1. ~(i <= disk.cursor) /\ (Hot => ~(i <= Pos)) BY <1>3, <1>9, <2>2
    <3> QED BY <1>2, <1>4, <3>1 DEF Gone
  <2> QED BY <2>1, <2>2
<1>11. Known'
  <2>1. KnownAt(disk.held, IF disk.cursor = 0 THEN Len(log) ELSE disk.cursor)'
    <3>1. PICK m : m = IF disk.cursor = 0 THEN Len(log) ELSE disk.cursor OBVIOUS
    <3>2. PICK n : n = IF disk.cursor = 0 THEN Len(log') ELSE disk.cursor OBVIOUS
    <3>3. m \in Nat /\ n \in Nat /\ m <= n BY <1>3, <1>9, <3>1, <3>2
    <3>4. KnownAt(disk.held, m) BY <1>1, <3>1 DEF Known
    <3>5. KnownAt(disk.held, n)' BY <1>2, <1>5, <3>3, <3>4 DEF KnownAt
    <3> QED BY <1>2, <3>2, <3>5 DEF KnownAt
  <2>2. Hot => KnownAt(run.held, Pos)' BY <1>1, <1>2, <1>4, <1>5 DEF Known, KnownAt
  <2>3. Cold => KnownAt(run.held, walk.seen)' BY <1>1, <1>2, <1>4, <1>5 DEF Known, KnownAt
  <2> QED BY <1>4, <2>1, <2>2, <2>3 DEF Known
<1>12. Kept'
  <2> SUFFICES ASSUME NEW f \in Frameworks, NEW v \in Versions, NEW i \in DOMAIN log', NewestAt(f, v, i)'
               PROVE  KeptAt(f, v, i)'
    BY DEF Kept
  <2>1. CASE i \in DOMAIN log
    <3>1. NewestAt(f, v, i) BY <1>3, <2>1 DEF NewestAt
    <3>2. KeptAt(f, v, i) BY <1>1, <2>1, <3>1 DEF Kept
    <3> QED BY <1>2, <1>4, <3>2 DEF KeptAt, InGap
  <2>2. CASE i \notin DOMAIN log
    <3>1. \A j \in DOMAIN log : log[j].version # v BY <1>3, <2>2 DEF NewestAt
    <3>2. v # NoVersion BY SyncAssumption
    <3>3. \A held, m : KnownAt(held, m) => held[f] # v BY <3>1, <3>2 DEF KnownAt, Says
    <3>4. disk.held[f] # v /\ (Working => run.held[f] # v)
      BY <1>1, <3>3 DEF Known, Hot, Cold
    <3>5. ~(i <= disk.cursor) /\ (Hot => ~(i <= Pos)) /\ ~(i <= walk.seen) BY <1>3, <1>9, <2>2
    <3> QED BY <1>2, <1>4, <3>4, <3>5 DEF KeptAt
  <2> QED BY <2>1, <2>2
<1>13. Calm' BY <1>1, <1>2, <1>4 DEF Calm
<1> QED BY <1>3, <1>6, <1>7, <1>8, <1>10, <1>11, <1>12, <1>13 DEF Inv

-----------------------------------------------------------------------------
(* The start of a run *)

LEMMA FetchPageInv == ASSUME Inv, FetchPage PROVE Inv'
<1>1. TypeOK /\ Told /\ Shape /\ Passed /\ Dropped /\ Known /\ Kept /\ Calm BY DEF Inv
<1> PICK todo : todo = Page(disk.cursor) OBVIOUS
<1> PICK c : c = disk.cursor OBVIOUS
<1>2. /\ run.step = "idle" /\ ~disk.torn /\ c # 0 /\ todo # <<>>
      /\ run' = [IdleRun EXCEPT !.step = "work", !.held = disk.held, !.todo = todo, !.next = c + Len(todo)]
      /\ UNCHANGED <<registry, disk, files, faults, crashes, history>>
  BY DEF FetchPage
<1>3. /\ c \in Nat /\ c <= Len(log) /\ Len(log) \in Nat /\ DOMAIN log = 1..Len(log) /\ disk.held \in Held
  BY <1>1, TypeFacts
<1>4. PICK last : last = IF c + PageSize < Len(log) THEN c + PageSize ELSE Len(log) OBVIOUS
<1>5. last \in Nat /\ c <= last /\ last <= Len(log) /\ last - c \in Nat
  <2>1. PageSize \in Nat BY SyncAssumption
  <2>2. CASE c + PageSize < Len(log) BY <1>3, <1>4, <2>1, <2>2
  <2>3. CASE ~(c + PageSize < Len(log)) BY <1>3, <1>4, <2>1, <2>3
  <2> QED BY <2>2, <2>3
<1>6. todo = [i \in 1..(last - c) |->
                [kind |-> log[c + i].kind, version |-> log[c + i].version, seq |-> c + i]]
  BY <1>4 DEF Page
<1>7. todo \in Seq(Items) /\ Len(todo) = last - c
  <2>1. ASSUME NEW i \in 1..(last - c)
        PROVE  [kind |-> log[c + i].kind, version |-> log[c + i].version, seq |-> c + i] \in Items
    <3>1. c + i \in DOMAIN log /\ c + i \in Nat BY <1>3, <1>5
    <3>2. log[c + i].version \in Versions /\ log[c + i].kind \in {"published", "deprecated"}
      BY <1>1, <3>1, ToldFacts
    <3> QED BY <3>1, <3>2 DEF Items
  <2>2. todo \in [1..(last - c) -> Items] BY <1>6, <2>1
  <2> QED BY <1>5, <2>2
<1>8. /\ run' \in Memory /\ run'.step = "work" /\ run'.cold = FALSE /\ run'.todo = todo
      /\ run'.held = disk.held /\ run'.next = last
  <2>1. run' = [step |-> "work", cold |-> FALSE, todo |-> todo, held |-> disk.held, next |-> c + Len(todo),
                baseline |-> NoVersion]
    BY <1>2 DEF IdleRun
  <2>2. c + Len(todo) = last BY <1>3, <1>5, <1>7
  <2> QED BY <1>3, <1>5, <1>7, <2>1, <2>2 DEF Memory, Steps
<1>9. /\ log' = log /\ phase' = phase /\ disk' = disk /\ walk' = walk /\ handled' = handled
      /\ failed' = failed /\ stuck' = stuck /\ seed' = seed /\ bundle' = bundle /\ delta' = delta
      /\ faults' = faults /\ crashes' = crashes /\ UNCHANGED registry
  BY <1>2 DEF registry, files, history
<1>10. Working' /\ Hot' /\ ~Cold' /\ ~Mid' /\ Pos' = c /\ ~Working
  BY <1>2, <1>3, <1>5, <1>7, <1>8 DEF Working, Hot, Cold, Mid, Pos
<1>11. Told' /\ Registry!TypeOK' BY <1>1, <1>9, SameRegistry
<1>12. TypeOK'
  <2>1. run'.next \in 0..Len(log') BY <1>5, <1>8, <1>9
  <2>2. run' \in [step : Steps, cold : BOOLEAN, todo : Seq(Items), held : Held, next : 0..Len(log'),
                  baseline : Versions \union {NoVersion}]
    BY <1>8, <2>1 DEF Memory
  <2> QED BY <1>1, <1>9, <1>11, <2>2 DEF TypeOK, Steps
<1>13. Shape'
  <2>1. Events'
    <3> SUFFICES ASSUME NEW k \in 1..Len(todo)
                 PROVE  todo[k] = [kind |-> log[c + k].kind, version |-> log[c + k].version, seq |-> c + k]
      BY <1>8, <1>9, <1>10 DEF Events
    <3> QED BY <1>5, <1>6, <1>7
  <2>2. ~disk'.torn BY <1>2, <1>9, Zenon
  <2>3. disk'.cursor # 0 /\ disk'.cursor <= Pos' BY <1>2, <1>3, <1>9, <1>10
  <2> QED BY <1>8, <1>10, <2>1, <2>2, <2>3, Zenon DEF Shape, Mid
<1>14. Passed' BY <1>1, <1>9, <1>10 DEF Passed
<1>15. Dropped' BY <1>1, <1>8, <1>9, <1>10 DEF Dropped, Gone
<1>16. Known' BY <1>1, <1>2, <1>8, <1>9, <1>10 DEF Known, KnownAt, Says
<1>17. Kept'
  <2> SUFFICES ASSUME NEW f \in Frameworks, NEW v \in Versions, NEW i \in DOMAIN log, NewestAt(f, v, i)
               PROVE  KeptAt(f, v, i)'
    BY <1>9 DEF Kept, NewestAt
  <2>1. KeptAt(f, v, i) BY <1>1 DEF Kept
  <2> QED BY <1>8, <1>9, <1>10, <2>1 DEF KeptAt, InGap
<1>18. Calm' BY <1>1, <1>8, <1>9, <1>10 DEF Calm
<1> QED BY <1>11, <1>12, <1>13, <1>14, <1>15, <1>16, <1>17, <1>18 DEF Inv

\* A bounded set of positions has a last one.
LEMMA LastExists ==
  ASSUME NEW n \in Nat, NEW S \in SUBSET (0..n), S # {}
  PROVE  \E m \in S : \A j \in S : j <= m
<1> DEFINE After(i) == {j \in S : j > i}
<1> DEFINE T == {After(i) : i \in S}
<1>1. IsFiniteSet(S)
  <2>1. IsFiniteSet(0..n) BY FS_Interval
  <2> QED BY <2>1, FS_Subset
<1>2. T \subseteq FiniteSubsetsOf(S) /\ T # {}
  <2>1. FiniteSubsetsOf(S) = SUBSET S BY <1>1, FS_FiniteSubsetsOfFinite
  <2>2. \A i \in S : After(i) \in SUBSET S OBVIOUS
  <2>3. PICK i \in S : TRUE OBVIOUS
  <2>4. After(i) \in T OBVIOUS
  <2> HIDE DEF After
  <2> QED BY <2>1, <2>2, <2>4
<1>3. PICK x \in T : \A y \in T : ~(<<y, x>> \in StrictSubsetOrdering(S))
  <2> HIDE DEF T
  <2> QED BY <1>2, FS_StrictSubsetOrderingWellFounded, WFMin
<1>4. PICK m \in S : x = After(m) OBVIOUS
<1>5. ASSUME NEW j \in S, j > m PROVE FALSE
  <2>1. \A i \in S : i \in Int OBVIOUS
  <2>2. After(j) \in SUBSET S /\ After(m) \in SUBSET S /\ After(j) \subseteq After(m)
        /\ j \in After(m) /\ j \notin After(j)
    <3>1. j > m BY <1>5
    <3>2. \A k \in S : k > j => k > m BY <2>1, <3>1
    <3>3. \A k : k \in After(j) => k \in After(m) BY <3>2
    <3>4. j \in After(m) BY <3>1
    <3>5. j \notin After(j) BY <2>1
    <3>6. After(j) \in SUBSET S /\ After(m) \in SUBSET S OBVIOUS
    <3> QED BY <3>3, <3>4, <3>5, <3>6
  <2>3. After(j) \in T OBVIOUS
  <2> HIDE DEF After
  <2>4. <<After(j), x>> \in StrictSubsetOrdering(S) BY <1>4, <2>2 DEF StrictSubsetOrdering
  <2> QED BY <1>3, <2>3, <2>4
<1> QED BY <1>5

\* The entries of a sequence are elements of the set it is over.
LEMMA SeqEntries ==
  ASSUME NEW S, NEW q \in Seq(S)
  PROVE  Len(q) \in Nat /\ \A k \in 1..Len(q) : q[k] \in S
<1>1. Len(q) \in Nat OBVIOUS
<1>2. ASSUME NEW k \in 1..Len(q) PROVE q[k] \in S BY <1>2
<1> QED BY <1>1, <1>2

\* A finite set is listed without leaving anything out.
LEMMA ListsAll ==
  ASSUME NEW S, IsFiniteSet(S)
  PROVE  /\ SetToSeq(S) \in Seq(S)
         /\ \A x \in S : \E k \in 1..Len(SetToSeq(S)) : SetToSeq(S)[k] = x
<1> PICK n : n = Cardinality(S) OBVIOUS
<1>1. n \in Nat /\ ExistsBijection(1..n, S) BY FS_CardinalityType
<1>2. PICK g \in Bijection(1..n, S) : TRUE BY <1>1 DEF ExistsBijection
<1>3. \E q \in [1..n -> S] : IsInjective(q) BY <1>2 DEF Bijection, Injection
<1> PICK q : q = SetToSeq(S) OBVIOUS
<1>4. q \in [1..n -> S] /\ IsInjective(q) BY <1>3 DEF SetToSeq
<1>5. q \in Injection(1..n, S) BY <1>4 DEF Injection
<1>6. IsFiniteSet(1..n) /\ Cardinality(1..n) = n BY <1>1, FS_Interval
<1>7. q \in Surjection(1..n, S) BY <1>5, <1>6, FS_Injection
<1> QED BY <1>1, <1>4, <1>7 DEF Surjection

\* The catalog lists the released version announced last of every framework.
LEMMA LatestFacts ==
  ASSUME TypeOK, Told, NEW f \in Frameworks, Live(f) # {}
  PROVE  \E m \in Live(f) : LatestPublished(f) = log[m].version /\ \A j \in Live(f) : j <= m
<1>1. Len(log) \in Nat /\ DOMAIN log = 1..Len(log) BY TypeFacts
<1>2. Live(f) \in SUBSET (0..Len(log)) BY <1>1 DEF Live
<1>3. \E m \in Live(f) : \A j \in Live(f) : j <= m BY <1>1, <1>2, LastExists
<1> QED BY <1>3 DEF LatestPublished

LEMMA CatalogFacts ==
  ASSUME TypeOK, Told
  PROVE  /\ Catalog \subseteq Versions
         /\ \A v \in Catalog : \E j \in DOMAIN log : Says(j, "published", v)
         /\ \A f \in Frameworks, v \in Versions, i \in DOMAIN log : NewestAt(f, v, i) =>
              v \in Catalog /\ \A w \in Catalog : FrameworkOf[w] = f => w = v
<1>1. ASSUME NEW w \in Catalog
      PROVE  \E f \in Frameworks, m \in DOMAIN log :
               /\ w = log[m].version /\ m \in Live(f) /\ \A j \in Live(f) : j <= m
               /\ w = LatestPublished(f)
  <2>1. PICK f \in Frameworks : Live(f) # {} /\ w = LatestPublished(f) BY DEF Catalog
  <2>2. PICK m \in Live(f) : LatestPublished(f) = log[m].version /\ \A j \in Live(f) : j <= m
    BY <2>1, LatestFacts
  <2>3. m \in DOMAIN log BY DEF Live
  <2> QED BY <2>1, <2>2, <2>3
<1>2. ASSUME NEW v \in Catalog PROVE v \in Versions /\ \E j \in DOMAIN log : Says(j, "published", v)
  BY <1>1, <1>2, ToldFacts DEF Says, Live
<1>3. ASSUME NEW f \in Frameworks, NEW v \in Versions, NEW i \in DOMAIN log, NewestAt(f, v, i)
      PROVE  v \in Catalog /\ \A w \in Catalog : FrameworkOf[w] = f => w = v
  <2>1. i \in Live(f) /\ \A j \in Live(f) : j <= i BY <1>3 DEF NewestAt, Live
  <2>2. \A j \in DOMAIN log : j \in Nat BY TypeFacts
  <2>3. PICK m \in Live(f) : LatestPublished(f) = log[m].version /\ \A j \in Live(f) : j <= m
    BY <2>1, LatestFacts
  <2>4. m = i BY <2>1, <2>2, <2>3 DEF Live
  <2>5. LatestPublished(f) = v BY <1>3, <2>3, <2>4 DEF NewestAt
  <2>6. v \in Catalog BY <2>1, <2>5 DEF Catalog
  <2>7. ASSUME NEW w \in Catalog, FrameworkOf[w] = f PROVE w = v
    <3>1. PICK g \in Frameworks, k \in DOMAIN log :
            w = log[k].version /\ k \in Live(g) /\ w = LatestPublished(g)
      BY <1>1
    <3>2. g = f BY <2>7, <3>1 DEF Live
    <3> QED BY <2>5, <3>1, <3>2
  <2> QED BY <2>6, <2>7
<1> QED BY <1>2, <1>3

LEMMA ColdStartInv == ASSUME Inv, ColdStart PROVE Inv'
<1>1. TypeOK /\ Told /\ Shape /\ Passed /\ Dropped /\ Known /\ Kept /\ Calm BY DEF Inv
<1> DEFINE Entry(v) == [kind |-> "published", version |-> v, seq |-> 0]
<1> PICK S : S = {Entry(v) : v \in Catalog} OBVIOUS
<1> PICK todo : todo = SetToSeq(S) OBVIOUS
<1>2. /\ run.step = "idle" /\ ~disk.torn /\ disk.cursor = 0
      /\ run' = [IdleRun EXCEPT !.step = "work", !.cold = TRUE, !.held = disk.held, !.todo = todo]
      /\ walk' = [walk EXCEPT !.seen = Len(log)] /\ failed' = {}
      /\ UNCHANGED <<registry, disk, files, faults, crashes, handled, stuck>>
  BY DEF ColdStart
<1>3. /\ Catalog \subseteq Versions
      /\ \A v \in Catalog : \E j \in DOMAIN log : Says(j, "published", v)
      /\ \A f \in Frameworks, v \in Versions, i \in DOMAIN log : NewestAt(f, v, i) =>
              v \in Catalog /\ \A w \in Catalog : FrameworkOf[w] = f => w = v
  BY <1>1, CatalogFacts
<1>4. Len(log) \in Nat /\ DOMAIN log = 1..Len(log) /\ disk.held \in Held /\ walk.head \in 0..Len(log)
  BY <1>1, TypeFacts
<1>5. IsFiniteSet(S)
  <2>1. IsFiniteSet(Catalog) BY <1>3, FS_Subset, SyncAssumption
  <2> PICK g : g = [v \in Catalog |-> Entry(v)] OBVIOUS
  <2>2. g \in [Catalog -> S] /\ \A t \in S : \E v \in Catalog : g[v] = t OBVIOUS
  <2>3. g \in Surjection(Catalog, S) BY <2>2 DEF Surjection
  <2> QED BY <2>1, <2>3, FS_Surjection
<1>6. todo \in Seq(S) /\ \A x \in S : \E k \in 1..Len(todo) : todo[k] = x BY <1>5, ListsAll
<1>7. Len(todo) \in Nat /\ \A k \in 1..Len(todo) : todo[k] \in S
  BY <1>6, SeqEntries
<1>8. /\ \A k \in 1..Len(todo) : todo[k].kind = "published" /\ todo[k].version \in Catalog
      /\ \A v \in Catalog : \E k \in 1..Len(todo) : todo[k].version = v
  <2>1. \A x \in S : x.kind = "published" /\ x.version \in Catalog OBVIOUS
  <2>2. \A v \in Catalog : Entry(v) \in S /\ Entry(v).version = v OBVIOUS
  <2>3. ASSUME NEW k \in 1..Len(todo)
        PROVE  todo[k].kind = "published" /\ todo[k].version \in Catalog
    <3>1. todo[k] \in S BY <1>7
    <3> QED BY <2>1, <3>1, Zenon
  <2>4. ASSUME NEW v \in Catalog PROVE \E k \in 1..Len(todo) : todo[k].version = v
    <3>1. PICK k \in 1..Len(todo) : todo[k] = Entry(v) BY <1>6, <2>2
    <3> QED BY <2>2, <3>1, Zenon
  <2> QED BY <2>3, <2>4
<1>9. todo \in Seq(Items)
  <2>1. S \subseteq Items BY <1>3 DEF Items
  <2> QED BY <1>6, <2>1
<1>10. /\ run' \in Memory /\ run'.step = "work" /\ run'.cold = TRUE /\ run'.todo = todo
       /\ run'.held = disk.held /\ run'.next = 0
  <2>1. run' = [step |-> "work", cold |-> TRUE, todo |-> todo, held |-> disk.held, next |-> 0,
                baseline |-> NoVersion]
    BY <1>2 DEF IdleRun
  <2> QED BY <1>4, <1>9, <2>1 DEF Memory, Steps
<1>11. /\ log' = log /\ phase' = phase /\ disk' = disk /\ handled' = handled /\ stuck' = stuck
       /\ seed' = seed /\ bundle' = bundle /\ delta' = delta
       /\ faults' = faults /\ crashes' = crashes /\ UNCHANGED registry
  BY <1>2 DEF registry, files
<1>12. walk' \in [seen : 0..Len(log), head : 0..Len(log)] /\ walk'.seen = Len(log) /\ walk'.head = walk.head
  BY <1>1, <1>2, <1>4, TypeFacts
<1>13. Working' /\ ~Hot' /\ Cold' /\ ~Mid' /\ ~Working
  <2>1. Working' /\ ~Mid' /\ ~Working BY <1>2, <1>10 DEF Working, Mid
  <2>2. run'.cold = TRUE BY <1>10
  <2> QED BY <2>1, <2>2, Zenon DEF Hot, Cold
<1>14. Told' /\ Registry!TypeOK' BY <1>1, <1>11, SameRegistry
<1>15. TypeOK'
  <2>1. run'.next \in 0..Len(log') BY <1>4, <1>10, <1>11
  <2>2. run' \in [step : Steps, cold : BOOLEAN, todo : Seq(Items), held : Held, next : 0..Len(log'),
                  baseline : Versions \union {NoVersion}]
    BY <1>10, <2>1 DEF Memory
  <2>3. failed' \subseteq Versions /\ stuck' \subseteq Versions BY <1>1, <1>2, TypeFacts
  <2> QED BY <1>1, <1>11, <1>12, <1>14, <2>2, <2>3 DEF TypeOK, Steps
<1>16. Shape'
  <2>1. Entries'
    <3> SUFFICES ASSUME NEW k \in 1..Len(todo)
                 PROVE  /\ todo[k].kind = "published"
                        /\ \E j \in 1..Len(log) : Says(j, "published", todo[k].version)
      <4>1. run'.todo = todo /\ log' = log /\ walk'.seen = Len(log) BY <1>10, <1>11, <1>12
      <4> QED BY <4>1 DEF Entries, Says
    <3>1. todo[k].kind = "published" /\ todo[k].version \in Catalog BY <1>8, Zenon
    <3>2. \E j \in DOMAIN log : Says(j, "published", todo[k].version) BY <1>3, <3>1, Zenon
    <3> QED BY <1>4, <3>1, <3>2
  <2>2. ~disk'.torn BY <1>2, <1>11, Zenon
  <2>3. disk'.cursor = 0 BY <1>2, <1>11
  <2> QED BY <1>10, <1>13, <2>1, <2>2, <2>3, Zenon DEF Shape, Mid
<1>17. Passed' BY <1>1, <1>11, <1>12, <1>13 DEF Passed
<1>18. Dropped'
  <2>1. \A i \in DOMAIN log : ~(i <= 0) BY <1>4
  <2>2. disk'.cursor = 0 BY <1>2, <1>11
  <2> QED BY <1>11, <1>13, <2>1, <2>2 DEF Dropped, Gone
<1>19. Known'
  <2>1. KnownAt(disk.held, Len(log)) BY <1>1, <1>2 DEF Known
  <2>2. disk'.cursor = 0 BY <1>2, <1>11
  <2> QED BY <1>10, <1>11, <1>12, <1>13, <2>1, <2>2 DEF Known, KnownAt, Says
<1>20. Kept'
  <2> SUFFICES ASSUME NEW f \in Frameworks, NEW v \in Versions, NEW i \in DOMAIN log, NewestAt(f, v, i)
               PROVE  KeptAt(f, v, i)'
    BY <1>11 DEF Kept, NewestAt
  <2>1. KeptAt(f, v, i) BY <1>1 DEF Kept
  <2>2. /\ disk'.held[f] = v => seed'[f] = v /\ bundle'[f] = v
        /\ disk'.held[f] = v /\ Working' => run'.held[f] = v
        /\ Working' /\ run'.held[f] = v => seed'[f] = v /\ bundle'[f] = v
    BY <1>10, <1>11, <2>1 DEF KeptAt
  <2>3. ~(i <= disk'.cursor) BY <1>2, <1>4, <1>11
  <2>4. /\ \E k \in 1..Len(run'.todo) : run'.todo[k].version = v
        /\ \A k \in 1..Len(run'.todo) : FrameworkOf[run'.todo[k].version] = f => run'.todo[k].version = v
    BY <1>3, <1>8, <1>10
  <2> QED BY <1>13, <2>2, <2>3, <2>4 DEF KeptAt
<1>21. Calm' BY <1>1, <1>10, <1>11, <1>13 DEF Calm
<1> QED BY <1>14, <1>15, <1>16, <1>17, <1>18, <1>19, <1>20, <1>21 DEF Inv

-----------------------------------------------------------------------------
(* The theorems *)

LEMMA InitInv == Init => Inv
<1> SUFFICES ASSUME Init PROVE Inv OBVIOUS
<1>1. /\ disk = NewDisk /\ seed = Nothing /\ bundle = Nothing
      /\ delta = [f \in Frameworks |-> NoDelta] /\ run = IdleRun
      /\ faults = 0 /\ crashes = 0 /\ handled = {} /\ failed = {} /\ stuck = {}
      /\ walk = [seen |-> 0, head |-> 0] /\ log = <<>>
  BY DEF Init, Registry!Init
<1>2. Told /\ Registry!TypeOK
  <2>1. Told BY InitTold DEF Init
  <2> QED BY <2>1 DEF Told
<1>3. Len(log) = 0 /\ DOMAIN log = {} BY <1>1
<1>4. disk.cursor = 0 /\ disk.held = Nothing /\ disk.torn = FALSE /\ \A f \in Frameworks : Nothing[f] = NoVersion
  BY <1>1, DiskFacts
<1>5. run.step = "idle" /\ run.todo = <<>> BY <1>1, IdleFacts
<1>6. ~Working /\ ~Hot /\ ~Cold /\ ~Mid BY <1>5 DEF Working, Hot, Cold, Mid
<1>7. TypeOK
  <2>1. 0 \in 0..Len(log) /\ 0 \in 0..MaxFaults /\ 0 \in 0..MaxCrashes BY <1>3, SyncAssumption
  <2>2. disk \in [cursor : 0..Len(log), held : Held, torn : BOOLEAN] BY <1>1, <2>1, IdleFacts, Zenon DEF NewDisk
  <2>3. seed \in [Frameworks -> Files] /\ bundle \in [Frameworks -> Files]
        /\ delta \in [Frameworks -> Files \X Files]
    BY <1>1 DEF Nothing, NoDelta, Files
  <2>4. run \in [step : Steps, cold : BOOLEAN, todo : Seq(Items), held : Held, next : 0..Len(log),
                 baseline : Versions \union {NoVersion}]
    <3>1. run \in Memory /\ run.next \in 0..Len(log) BY <1>1, <2>1, IdleFacts
    <3> QED BY <3>1 DEF Memory
  <2>5. walk \in [seen : 0..Len(log), head : 0..Len(log)] BY <1>1, <2>1
  <2> QED BY <1>1, <1>2, <2>1, <2>2, <2>3, <2>4, <2>5 DEF TypeOK, Steps
<1>8. Shape BY <1>4, <1>5, <1>6, Zenon DEF Shape, Mid
<1>9. Passed BY <1>1, <1>4, <1>6 DEF Passed
<1>10. Dropped /\ Kept BY <1>3 DEF Dropped, Kept
<1>11. Known BY <1>4, <1>6 DEF Known, KnownAt
<1>12. Calm BY <1>4, <1>6 DEF Calm
<1> QED BY <1>2, <1>7, <1>8, <1>9, <1>10, <1>11, <1>12 DEF Inv

LEMMA StutterInv == ASSUME Inv, UNCHANGED vars PROVE Inv'
<1>1. TypeOK /\ Told /\ Shape /\ Passed /\ Dropped /\ Known /\ Kept /\ Calm BY DEF Inv
<1>2. /\ phase' = phase /\ hash' = hash /\ log' = log /\ disk' = disk /\ seed' = seed /\ bundle' = bundle
      /\ delta' = delta /\ run' = run /\ faults' = faults /\ crashes' = crashes
      /\ handled' = handled /\ failed' = failed /\ stuck' = stuck /\ walk' = walk /\ UNCHANGED registry
  BY DEF vars, registry, files, history
<1>3. (Working' <=> Working) /\ (Hot' <=> Hot) /\ (Cold' <=> Cold) /\ (Mid' <=> Mid)
      /\ Pos' = Pos /\ Item' = Item /\ Framework' = Framework
  BY <1>2 DEF Working, Hot, Cold, Mid, Pos, Item, Framework
<1>4. Told' /\ Registry!TypeOK' BY <1>1, <1>2, SameRegistry
<1>5. TypeOK' BY <1>1, <1>2, <1>4 DEF TypeOK
<1>6. Shape' BY <1>1, <1>2, <1>3, Zenon DEF Shape, Entries, Events, Says, Mid
<1>7. Passed' /\ Known' BY <1>1, <1>2, <1>3 DEF Passed, Known, KnownAt, Says
<1>8. Dropped' BY <1>1, <1>2, <1>3 DEF Dropped, Gone
<1>9. Kept' BY <1>1, <1>2, <1>3 DEF Kept, KeptAt, NewestAt, InGap
<1>10. Calm' BY <1>1, <1>2, <1>3 DEF Calm
<1> QED BY <1>4, <1>5, <1>6, <1>7, <1>8, <1>9, <1>10 DEF Inv

LEMMA StepInv == Inv /\ [Next]_vars => Inv'
<1> SUFFICES ASSUME Inv, [Next]_vars PROVE Inv' OBVIOUS
<1>1. CASE RegistryStep BY <1>1, RegistryInv
<1>2. CASE Proceed
  BY <1>2, ColdStartInv, FetchPageInv, SkipInv, FetchInv, RefusedInv, WriteSeedInv, WriteBundleInv,
     FinishPullInv, RetireInv, AdoptHeadInv, SavePageInv DEF Proceed
<1>3. CASE FetchFails BY <1>3, FetchFailsInv
<1>4. CASE WriteFails BY <1>4, WriteFailsInv
<1>5. CASE SaveFails BY <1>5, SaveFailsInv
<1>6. CASE Crash BY <1>6, CrashInv
<1>7. CASE DeleteState BY <1>7, DeleteStateInv
<1>8. CASE UNCHANGED vars BY <1>8, StutterInv
<1> QED BY <1>1, <1>2, <1>3, <1>4, <1>5, <1>6, <1>7, <1>8 DEF Next

LEMMA AlwaysInv == Spec => []Inv
<1> QED BY InitInv, StepInv, PTL DEF Spec

\* The state file, the files of the consumer and the memory of a run keep their
\* types: the cursor that Sync saves is never beyond the end of the feed.
THEOREM TypeCorrect == Spec => []TypeOK
<1>1. Inv => TypeOK BY DEF Inv
<1> QED BY <1>1, AlwaysInv, PTL

\* For any feed and any failures, the cursor that Sync saves moves over events
\* that were handled, and over no other.
THEOREM CursorSkipsNothing == Spec => []NothingSkipped
<1>1. Inv => NothingSkipped BY DEF Inv, Passed, NothingSkipped
<1> QED BY <1>1, AlwaysInv, PTL

\* For any feed and any failures, what retire took away does not come back: a
\* consumer that has caught up holds nothing the feed withdrew, and has no file
\* of it but one that could not be removed.
THEOREM WithdrawnAreDropped == Spec => []WithdrawnIsDropped
<1>1. Inv => WithdrawnIsDropped
  <2> SUFFICES ASSUME Inv, CaughtUp, NEW f \in Frameworks, NEW i \in About(f),
                      i > walk.head, log[i].kind = "deprecated"
               PROVE  /\ log[i].version # disk.held[f]
                      /\ log[i].version \notin {seed[f], bundle[f]} \ stuck
    BY DEF WithdrawnIsDropped
  <2>1. TypeOK /\ Dropped BY DEF Inv
  <2>2. i \in DOMAIN log /\ FrameworkOf[log[i].version] = f BY DEF About
  <2>3. disk.cursor = Len(log) /\ Len(log) \in Nat /\ DOMAIN log = 1..Len(log) /\ walk.head \in Nat
    BY <2>1, TypeFacts DEF CaughtUp
  <2>4. i <= disk.cursor /\ walk.head < i BY <2>2, <2>3
  <2> QED BY <2>1, <2>2, <2>4 DEF Dropped, Gone
<1> QED BY <1>1, AlwaysInv, PTL

\* A consumer whose pulls of a version did not fail, and that has caught up, has
\* the version if it is the newest of its framework: neither a run cut short nor
\* the retry of a page loses it.
THEOREM NewestAreHeld == Spec => []NewestIsHeld
<1>1. Inv => NewestIsHeld
  <2> SUFFICES ASSUME Inv, CaughtUp, NEW f \in Frameworks, NEW v \in Versions,
                      Newest(f, v), v \notin failed, ~InGap(LastAbout(f))
               PROVE  Keeps(f, v)
    BY DEF NewestIsHeld
  <2>1. TypeOK /\ Told /\ Kept BY DEF Inv
  <2>2. disk.cursor = Len(log) /\ Len(log) \in Nat /\ DOMAIN log = 1..Len(log)
    BY <2>1, TypeFacts DEF CaughtUp
  <2>3. About(f) \in SUBSET (0..Len(log)) /\ About(f) # {} BY <2>2 DEF About, Newest
  <2>4. \E i \in About(f) : \A j \in About(f) : j <= i BY <2>2, <2>3, LastExists
  <2> PICK i : i = LastAbout(f) OBVIOUS
  <2>5. i \in About(f) /\ \A j \in About(f) : j <= i BY <2>4 DEF LastAbout
  <2>6. i \in DOMAIN log /\ i <= disk.cursor BY <2>2, <2>5 DEF About
  <2>7. NewestAt(f, v, i) BY <2>5 DEF About, Newest, NewestAt
  <2>8. KeptAt(f, v, i) BY <2>1, <2>6, <2>7 DEF Kept
  <2> QED BY <2>6, <2>8 DEF KeptAt, Keeps
<1> QED BY <1>1, AlwaysInv, PTL

\* In a run in which nothing fails, pullFramework finds the bundle it compares
\* with, so each upgrade leaves the delta of the two versions.
THEOREM UpgradesHaveDelta == Spec => UpgradeHasDelta
<1>1. Inv /\ [Next]_vars =>
        [\A f \in Frameworks :
           LET old == run.held[f]  new == run'.held[f] IN
           /\ run.step = "bundled" /\ run'.step = "work"
           /\ faults' = 0 /\ crashes = 0
           /\ NoVersion \notin {old, new}
           /\ TextOf[old] # TextOf[new]
           => delta'[f] = <<old, new>>]_vars
  <2> SUFFICES ASSUME Inv, Next, NEW f \in Frameworks,
                      run.step = "bundled", run'.step = "work", faults' = 0, crashes = 0,
                      NoVersion \notin {run.held[f], run'.held[f]},
                      TextOf[run.held[f]] # TextOf[run'.held[f]]
               PROVE  delta'[f] = <<run.held[f], run'.held[f]>>
    OBVIOUS
  <2>1. TypeOK /\ Told /\ Shape /\ Passed /\ Calm BY DEF Inv
  <2>2. Working /\ Mid /\ run.todo # <<>> BY <2>1 DEF Working, Mid, Shape
  <2>3. faults \in Nat /\ run.held \in Held /\ delta \in [Frameworks -> Files \X Files]
        /\ Framework \in Frameworks
    BY <2>1, <2>2, TypeFacts, ItemFacts, SyncAssumption
  <2>4. run' # run /\ run'.step # "idle" BY Zenon
  <2>5. FinishPull
    <3>1. ~RegistryStep /\ ~DeleteState BY <2>4 DEF RegistryStep, DeleteState
    <3>2. ~ColdStart /\ ~FetchPage /\ ~Skip /\ ~Fetch /\ ~Refused /\ ~WriteSeed /\ ~WriteBundle
          /\ ~Retire /\ ~AdoptHead /\ ~SavePage /\ ~FetchFails /\ ~WriteFails /\ ~SaveFails
      BY DEF ColdStart, FetchPage, Skip, Fetch, Refused, WriteSeed, WriteBundle, Retire, AdoptHead,
             SavePage, FetchFails, WriteFails, SaveFails, Pulling, AtItem, AllHandled
    <3>3. ~Crash BY <2>4, IdleFacts DEF Crash
    <3> QED BY <3>1, <3>2, <3>3 DEF Next, Proceed
  <2> PICK h : h = [run.held EXCEPT ![Framework] = Item.version] OBVIOUS
  <2>6. Done(h) /\ UNCHANGED <<registry, disk, walk>> BY <2>5 DEF FinishPull
  <2>7. run'.held = h
    <3>1. Item.version \in Versions BY <2>1, <2>2, ItemFacts
    <3>2. h \in Held BY <2>3, <3>1 DEF Held
    <3> QED BY <2>1, <2>2, <2>6, <3>2, DoneEffect
  <2>8. f = Framework /\ run'.held[f] = Item.version BY <2>3, <2>7 DEF Held
  <2>9. faults = 0 /\ run.baseline = run.held[f]
    <3>1. faults' = faults \/ faults' = faults + 1 BY <2>5 DEF FinishPull, Fault
    <3> QED BY <2>1, <2>2, <2>3, <2>8, <3>1 DEF Calm
  <2>10. HasDelta BY <2>8, <2>9 DEF HasDelta
  <2>11. delta' = [delta EXCEPT ![Framework] = <<run.baseline, Item.version>>]
    BY <2>5, <2>9, <2>10 DEF FinishPull, Fault
  <2> QED BY <2>3, <2>8, <2>9, <2>11
<1> QED BY <1>1, AlwaysInv, PTL DEF Spec, UpgradeHasDelta
=============================================================================
