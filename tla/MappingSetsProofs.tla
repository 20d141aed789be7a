------------------------- MODULE MappingSetsProofs -------------------------
(***************************************************************************)
(* FollowerHoldsLast for any number of versions, targets, publishers and   *)
(* events.  The inductive invariant, Inv, is made of                       *)
(*                                                                         *)
(*   Stored     the types of what the registry stores, and that the newest *)
(*              version exists (Latest is a CHOOSE);                       *)
(*   Shape      the record the consumer is;                                *)
(*   Reading    what is left of a page is the end of the events up to the  *)
(*              one it reads to, and an idle consumer has nothing left;    *)
(*   Followed   when nothing is left of a page and the last pull           *)
(*              succeeded, the file is of the pair of the page's last      *)
(*              event, and, while that event is the last of the feed, the  *)
(*              document served for it; and the property itself.           *)
(*                                                                         *)
(* The queue of a cold start is a SelectSeq of the catalog, about which    *)
(* nothing can be proved; nothing has to be: a walk has no cursor yet.     *)
(***************************************************************************)
EXTENDS MappingSets, TLAPS, FiniteSetTheorems

LEMMA VersionNumbers ==
  Versions \subseteq Nat \ {0} /\ 1 \in Versions /\ 1 \in Targets
<1>1. Cardinality(Versions) \in Nat /\ Cardinality(Targets) \in Nat
  BY SetsAssumption, FS_CardinalityType DEF SetsAssumption
<1>2. PICK m \in Nat, n \in Nat : Versions = 1 .. m /\ Targets = 1 .. n
  BY <1>1, SetsAssumption DEF SetsAssumption
<1>3. Versions # {} /\ Targets # {}
  BY SetsAssumption DEF SetsAssumption
<1> QED BY <1>2, <1>3

-----------------------------------------------------------------------------
(* The inductive invariant *)

Created == \E k \in Versions : \A v \in Versions : status[v] # "absent" <=> v <= k

PublicationType == [pc : {"idle", "assembling"}, pair : Pair, rows : SUBSET Mapping]

Stored ==
  /\ status \in [Versions -> {"absent", "draft", "held", "published", "deprecated"}]
  /\ Created
  /\ mappings \in [Versions -> SUBSET Mapping]
  /\ publication \in [Publishers -> PublicationType]
  /\ DOMAIN sets = Pair
  /\ feed \in Seq(Pair)

\* The consumer is a record of these fields; what its queue holds is in Reading.
Shape ==
  /\ consumer = [pc |-> consumer.pc, queue |-> consumer.queue, cursor |-> consumer.cursor,
                 next |-> consumer.next, start |-> consumer.start, ok |-> consumer.ok]
  /\ consumer.pc \in {"idle", "walk", "page"}
  /\ consumer.cursor \in 0 .. Len(feed)
  /\ consumer.next \in Nat /\ consumer.start \in Nat

Reading ==
  /\ consumer.pc = "idle" => consumer.queue = <<>>
  /\ consumer.pc = "walk" => consumer.cursor = 0
  /\ consumer.pc = "page" =>
       /\ consumer.next \in consumer.cursor + 1 .. Len(feed)
       /\ consumer.queue \in Seq(Pair) /\ Len(consumer.queue) <= consumer.next
       /\ \A k \in 1 .. Len(consumer.queue) :
            consumer.queue[k] = feed[consumer.next - Len(consumer.queue) + k]

Followed ==
  consumer.pc = "page" /\ consumer.queue = <<>> /\ consumer.ok =>
    /\ file = [pair |-> feed[consumer.next], document |-> file.document]
    /\ consumer.next = Len(feed) => file.document = Served(feed[Len(feed)])

Inv == Stored /\ Shape /\ Reading /\ Followed /\ FollowerHoldsLast

LEMMA LatestIsNewest ==
  ASSUME Created
  PROVE  Latest \in Versions /\ \A v \in Versions : status[v] # "absent" <=> v <= Latest
<1>1. PICK k \in Versions : \A v \in Versions : status[v] # "absent" <=> v <= k
  BY DEF Created
<1>2. status[k] # "absent" /\ \A w \in Versions : status[w] # "absent" => w <= k
  BY <1>1, VersionNumbers
<1>3. ASSUME NEW v \in Versions, status[v] # "absent", \A w \in Versions : status[w] # "absent" => w <= v
      PROVE  v = k
  BY <1>1, <1>2, <1>3, VersionNumbers
<1>4. Latest = k
  BY <1>2, <1>3 DEF Latest
<1> QED BY <1>1, <1>4

LEMMA EmptySeq ==
  ASSUME NEW q, q = <<>>
  PROVE  Len(q) = 0
  OBVIOUS

LEMMA InitInv == Init => Inv
<1> SUFFICES ASSUME Init PROVE Inv OBVIOUS
<1>1. NoPublication \in PublicationType /\ NoPublication.pc = "idle"
  BY VersionNumbers DEF NoPublication, PublicationType, Pair
<1>2. Stored
  BY <1>1, VersionNumbers DEF Init, Stored, Created
<1>3. Len(feed) = 0 /\ consumer.pc = "idle" /\ consumer.cursor = 0 /\ consumer.queue = <<>>
  BY DEF Init
<1>4. Shape /\ Reading /\ Followed
  BY <1>3 DEF Init, Shape, Reading, Followed
<1>5. FollowerHoldsLast
  BY <1>3 DEF Init, FollowerHoldsLast
<1> QED BY <1>2, <1>4, <1>5 DEF Inv

-----------------------------------------------------------------------------
(* The registry's steps *)

\* Steps that leave the feed and the sets as they are do not concern the consumer.
LEMMA ConsumerUndisturbed ==
  ASSUME Inv, UNCHANGED <<sets, feed, consumer, file>>, Stored'
  PROVE  Inv'
  BY DEF Inv, Shape, Reading, Followed, FollowerHoldsLast, Served

LEMMA VersionSteps ==
  ASSUME Inv, NEW v \in Versions,
         \/ ChangeStatus(v)
         \/ \E ref \in Refs : DeleteNode(v, ref)
         \/ \E m \in Mapping : AddMapping(v, m)
  PROVE  Inv'
<1>1. CASE ChangeStatus(v)
  <2>1. PICK change \in {<<"draft", "held">>, <<"held", "draft">>, <<"held", "published">>,
                         <<"published", "deprecated">>} :
          status[v] = change[1] /\ status' = [status EXCEPT ![v] = change[2]]
    BY <1>1 DEF ChangeStatus
  <2>2. change[1] # "absent" /\ change[2] \in {"held", "draft", "published", "deprecated"}
    OBVIOUS
  <2>3. Created' /\ status' \in [Versions -> {"absent", "draft", "held", "published", "deprecated"}]
    BY <2>1, <2>2 DEF Inv, Stored, Created
  <2> QED BY <1>1, <2>3, ConsumerUndisturbed DEF ChangeStatus, Inv, Stored
<1>2. ASSUME NEW ref \in Refs, DeleteNode(v, ref) PROVE Inv'
  BY <1>2, ConsumerUndisturbed DEF DeleteNode, Inv, Stored, Created
<1>3. ASSUME NEW m \in Mapping, AddMapping(v, m) PROVE Inv'
  BY <1>3, ConsumerUndisturbed DEF AddMapping, Inv, Stored, Created
<1> QED BY <1>1, <1>2, <1>3

LEMMA OpenDraftInv ==
  ASSUME Inv, OpenDraft
  PROVE  Inv'
<1>1. Latest \in Versions /\ \A v \in Versions : status[v] # "absent" <=> v <= Latest
  BY LatestIsNewest DEF Inv, Stored
<1>2. PICK k \in Versions : k = Latest + 1 /\ status' = [status EXCEPT ![k] = "draft"]
  BY DEF OpenDraft
<1>3. \A v \in Versions : v <= k <=> v <= Latest \/ v = k
  BY <1>1, <1>2, VersionNumbers
<1>4. Created'
  BY <1>1, <1>2, <1>3 DEF Inv, Stored, Created
<1> QED BY <1>2, <1>4, ConsumerUndisturbed DEF OpenDraft, Inv, Stored

LEMMA BeginPublishInv ==
  ASSUME Inv, NEW p \in Publishers, NEW t \in Targets, BeginPublishSet(p, t)
  PROVE  Inv'
<1> DEFINE b == [pc |-> "assembling", pair |-> [version |-> Latest, target |-> t], rows |-> mappings[Latest]]
<1>1. b \in PublicationType
  BY LatestIsNewest DEF Inv, Stored, PublicationType, Pair
<1>2. publication' \in [Publishers -> PublicationType]
  BY <1>1 DEF BeginPublishSet, Inv, Stored
<1> QED BY <1>2, ConsumerUndisturbed DEF BeginPublishSet, Inv, Stored, Created

\* A set that is published lengthens the feed, so whoever was caught up is not any more.
LEMMA CommitInv ==
  ASSUME Inv, NEW p \in Publishers, CommitPublishSet(p)
  PROVE  Inv'
<1>1. publication' \in [Publishers -> PublicationType]
  <2>1. NoPublication \in PublicationType
    BY VersionNumbers DEF NoPublication, PublicationType, Pair
  <2> QED BY <2>1 DEF CommitPublishSet, Inv, Stored
<1>2. CASE UNCHANGED <<sets, feed>>
  BY <1>1, <1>2, ConsumerUndisturbed DEF CommitPublishSet, Inv, Stored, Created
<1>3. CASE /\ sets' = Upsert(publication[p].pair, Assembled(p))
           /\ feed' = Append(feed, publication[p].pair)
  <2>1. publication[p].pair \in Pair
    BY DEF Inv, Stored, PublicationType
  <2>2. /\ feed' \in Seq(Pair) /\ Len(feed') = Len(feed) + 1 /\ Len(feed) \in Nat
        /\ \A n \in 1 .. Len(feed) : feed'[n] = feed[n]
    BY <1>3, <2>1 DEF Inv, Stored
  <2>3. DOMAIN sets' = Pair
    BY <1>3 DEF Upsert, Inv, Stored
  <2>4. Stored'
    BY <1>1, <2>2, <2>3 DEF CommitPublishSet, Inv, Stored, Created
  <2>5. Shape' /\ consumer' = consumer /\ file' = file
    BY <2>2 DEF CommitPublishSet, Inv, Shape
  <2>6. Reading'
    <3>1. CASE consumer.pc = "page"
      <4>1. /\ consumer.next \in consumer.cursor + 1 .. Len(feed)
            /\ consumer.queue \in Seq(Pair) /\ Len(consumer.queue) <= consumer.next
            /\ \A k \in 1 .. Len(consumer.queue) :
                 consumer.queue[k] = feed[consumer.next - Len(consumer.queue) + k]
        BY <3>1 DEF Inv, Reading
      <4>2. Len(consumer.queue) \in Nat /\ consumer.cursor \in Nat
        BY <4>1, <2>2 DEF Inv, Shape
      <4>3. \A k \in 1 .. Len(consumer.queue) :
               consumer.next - Len(consumer.queue) + k \in 1 .. Len(feed)
        BY <4>1, <4>2, <2>2
      <4>4. \A k \in 1 .. Len(consumer.queue) :
                 consumer.queue[k] = feed'[consumer.next - Len(consumer.queue) + k]
        BY <4>1, <4>3, <2>2
      <4> QED BY <3>1, <4>1, <4>2, <4>4, <2>2, <2>5 DEF Reading
    <3>2. CASE consumer.pc # "page"
      BY <3>2, <2>5 DEF Inv, Reading
    <3> QED BY <3>1, <3>2
  <2>7. Followed'
    <3> SUFFICES ASSUME consumer.pc = "page", consumer.queue = <<>>, consumer.ok
                 PROVE  /\ file = [pair |-> feed'[consumer.next], document |-> file.document]
                        /\ consumer.next # Len(feed')
      BY <2>5 DEF Followed
    <3>1. consumer.next \in 1 .. Len(feed)
      BY <2>2 DEF Inv, Reading, Shape
    <3>2. file = [pair |-> feed[consumer.next], document |-> file.document]
      BY DEF Inv, Followed
    <3> QED BY <3>1, <3>2, <2>2
  <2>8. FollowerHoldsLast'
    BY <2>2, <2>5 DEF Inv, Shape, FollowerHoldsLast
  <2> QED BY <2>4, <2>5, <2>6, <2>7, <2>8 DEF Inv
<1> QED BY <1>2, <1>3 DEF CommitPublishSet

-----------------------------------------------------------------------------
(* The consumer's steps *)

\* None of them changes what the registry stores.
LEMMA RegistryUndisturbed ==
  ASSUME Inv, UNCHANGED <<status, content, mappings, publication, sets, feed>>
  PROVE  Stored' /\ Len(feed) \in Nat
  BY DEF Inv, Stored, Created

LEMMA BeginWalkInv ==
  ASSUME Inv, BeginWalk
  PROVE  Inv'
<1>1. Stored' BY RegistryUndisturbed DEF BeginWalk
<1>2. /\ consumer'.pc = "walk" /\ consumer'.cursor = consumer.cursor /\ consumer.cursor = 0
      /\ Shape'
  BY DEF BeginWalk, Inv, Shape
<1> QED BY <1>1, <1>2 DEF Inv, Reading, Followed, FollowerHoldsLast

\* A page is the part of the feed after the cursor.
LEMMA PageOf ==
  ASSUME NEW S, NEW q \in Seq(S), NEW a \in Nat, NEW n \in Nat, a + 1 <= n, n <= Len(q)
  PROVE  /\ SubSeq(q, a + 1, n) \in Seq(S) /\ Len(SubSeq(q, a + 1, n)) = n - a
         /\ \A k \in 1 .. Len(SubSeq(q, a + 1, n)) : SubSeq(q, a + 1, n)[k] = q[a + k]
<1>1. SubSeq(q, a + 1, n) \in Seq(S) BY Z3
<1>2. Len(SubSeq(q, a + 1, n)) = n - a OBVIOUS
<1>3. \A k \in 1 .. n - a : SubSeq(q, a + 1, n)[k] = q[a + k] OBVIOUS
<1> QED BY <1>1, <1>2, <1>3

LEMMA BeginPageInv ==
  ASSUME Inv, BeginPage
  PROVE  Inv'
<1>1. Stored' /\ Len(feed) \in Nat BY RegistryUndisturbed DEF BeginPage
<1>2. consumer.cursor \in 1 .. Len(feed) - 1
  BY DEF BeginPage
<1>3. PICK n \in consumer.cursor + 1 .. Len(feed) :
        consumer' = [consumer EXCEPT !.pc = "page", !.next = n,
                                     !.queue = SubSeq(feed, consumer.cursor + 1, n)]
  BY DEF BeginPage
<1>4. /\ n \in Nat /\ feed' = feed
      /\ consumer'.pc = "page" /\ consumer'.next = n /\ consumer'.cursor = consumer.cursor
      /\ consumer'.queue = SubSeq(feed, consumer.cursor + 1, n)
      /\ Shape'
  <2>1. consumer' = [pc |-> "page", queue |-> SubSeq(feed, consumer.cursor + 1, n),
                     cursor |-> consumer.cursor, next |-> n,
                     start |-> consumer.start, ok |-> consumer.ok]
    BY <1>3 DEF Inv, Shape
  <2>2. n \in Nat /\ feed' = feed /\ consumer.cursor \in 0 .. Len(feed) /\ consumer.start \in Nat
    BY <1>1, <1>2 DEF BeginPage, Inv, Shape
  <2> QED BY <2>1, <2>2 DEF Shape
<1>5. /\ consumer'.queue \in Seq(Pair) /\ Len(consumer'.queue) = n - consumer.cursor
      /\ \A k \in 1 .. Len(consumer'.queue) : consumer'.queue[k] = feed[consumer.cursor + k]
  <2> PICK c, q : c = consumer.cursor /\ q = SubSeq(feed, c + 1, n) OBVIOUS
  <2>1. feed \in Seq(Pair) BY DEF Inv, Stored
  <2>2. c \in Nat /\ n \in Nat /\ c + 1 <= n /\ n <= Len(feed)
    <3>1. c \in 1 .. Len(feed) - 1 /\ n \in c + 1 .. Len(feed) BY <1>2
    <3> QED BY <1>1, <3>1
  <2>3. q \in Seq(Pair) /\ Len(q) = n - c /\ \A k \in 1 .. Len(q) : q[k] = feed[c + k]
    BY <2>1, <2>2, PageOf
  <2>4. consumer'.queue = q BY <1>4
  <2> QED BY <2>3, <2>4
<1>6. Reading'
  <2>1. consumer.cursor \in Nat /\ Len(feed) \in Nat BY <1>1, <1>2
  <2>2. /\ consumer'.next \in consumer'.cursor + 1 .. Len(feed')
        /\ consumer'.queue \in Seq(Pair) /\ Len(consumer'.queue) <= consumer'.next
    BY <1>4, <1>5, <2>1
  <2>3. consumer'.next - Len(consumer'.queue) = consumer.cursor BY <1>4, <1>5, <2>1
  <2>4. \A k \in 1 .. Len(consumer'.queue) :
          consumer'.queue[k] = feed'[consumer'.next - Len(consumer'.queue) + k]
    BY <1>4, <1>5, <2>3
  <2> QED BY <1>4, <2>2, <2>4 DEF Reading
<1>7. Followed'
  <2>1. Len(consumer'.queue) # 0 BY <1>1, <1>2, <1>5
  <2>2. consumer'.queue # <<>> BY <2>1, EmptySeq
  <2> QED BY <2>2 DEF Followed
<1> QED BY <1>1, <1>4, <1>6, <1>7 DEF Inv, FollowerHoldsLast

\* The document is read when it is pulled, so the file is never older than the event.
LEMMA PullInv ==
  ASSUME Inv, PullMapping
  PROVE  Inv'
<1>1. Stored' /\ Len(feed) \in Nat BY RegistryUndisturbed DEF PullMapping
<1>2. PICK ok \in BOOLEAN :
        /\ consumer' = [consumer EXCEPT !.queue = Tail(consumer.queue), !.ok = ok]
        /\ file' = IF ok THEN [pair |-> Head(consumer.queue), document |-> Served(Head(consumer.queue))]
                   ELSE file
  BY DEF PullMapping
<1>3. /\ consumer'.pc = consumer.pc /\ consumer'.queue = Tail(consumer.queue) /\ consumer'.ok = ok
      /\ consumer'.cursor = consumer.cursor /\ consumer'.next = consumer.next
      /\ feed' = feed /\ sets' = sets /\ Shape'
  BY <1>2 DEF PullMapping, Inv, Shape
<1>4. consumer'.ok => file' = [pair |-> Head(consumer.queue), document |-> Served(Head(consumer.queue))]
  BY <1>2, <1>3, Zenon
<1>5. consumer.queue # <<>> /\ consumer.pc # "idle"
  BY DEF PullMapping, Inv, Reading
<1>6. CASE consumer.pc = "page"
  <2>1. /\ consumer.next \in consumer.cursor + 1 .. Len(feed) /\ consumer.cursor \in Nat
        /\ consumer.queue \in Seq(Pair) /\ Len(consumer.queue) <= consumer.next
        /\ \A k \in 1 .. Len(consumer.queue) :
             consumer.queue[k] = feed[consumer.next - Len(consumer.queue) + k]
    BY <1>1, <1>6 DEF Inv, Reading, Shape
  <2>2. /\ Len(consumer.queue) \in Nat \ {0} /\ Head(consumer.queue) = consumer.queue[1]
        /\ Tail(consumer.queue) \in Seq(Pair) /\ Len(Tail(consumer.queue)) = Len(consumer.queue) - 1
        /\ \A k \in 1 .. Len(consumer.queue) - 1 : Tail(consumer.queue)[k] = consumer.queue[k + 1]
    BY <1>5, <2>1
  <2>3. Reading'
    <3>1. consumer.cursor \in Nat /\ consumer.next \in Nat /\ Len(feed) \in Nat BY <1>1, <2>1
    <3>2. /\ consumer'.next \in consumer'.cursor + 1 .. Len(feed')
          /\ consumer'.queue \in Seq(Pair) /\ Len(consumer'.queue) <= consumer'.next
      BY <1>3, <2>1, <2>2, <3>1
    <3>3. \A k \in 1 .. Len(consumer'.queue) :
            consumer'.queue[k] = feed'[consumer'.next - Len(consumer'.queue) + k]
      <4> TAKE k \in 1 .. Len(consumer'.queue)
      <4>1. k \in 1 .. Len(consumer.queue) - 1 /\ k + 1 \in 1 .. Len(consumer.queue) BY <1>3, <2>2
      <4>2. consumer'.queue[k] = feed[consumer.next - Len(consumer.queue) + (k + 1)]
        BY <1>3, <2>1, <2>2, <4>1
      <4>3. consumer'.next = consumer.next /\ Len(consumer'.queue) = Len(consumer.queue) - 1
        BY <1>3, <2>2
      <4>4. \A n, len, i \in Int : n - len + (i + 1) = n - (len - 1) + i OBVIOUS
      <4>5. consumer.next - Len(consumer.queue) + (k + 1) = consumer.next - (Len(consumer.queue) - 1) + k
        BY <2>2, <3>1, <4>1, <4>4
      <4> QED BY <1>3, <4>2, <4>3, <4>5
    <3> QED BY <1>3, <1>6, <3>2, <3>3 DEF Reading
  <2>4. Followed'
    <3> SUFFICES ASSUME Tail(consumer.queue) = <<>>, consumer'.ok
                 PROVE  /\ file' = [pair |-> feed[consumer.next], document |-> file'.document]
                        /\ consumer.next = Len(feed) => file'.document = Served(feed[Len(feed)])
      BY <1>3, <1>6 DEF Followed, Served
    <3>1. Len(consumer.queue) = 1
      <4>1. Len(Tail(consumer.queue)) = 0
        BY EmptySeq
      <4> QED BY <2>2, <4>1
    <3>2. Head(consumer.queue) = feed[consumer.next]
      BY <2>1, <2>2, <3>1
    <3> QED BY <1>4, <3>2
  <2> QED BY <1>1, <1>3, <1>6, <2>3, <2>4 DEF Inv, FollowerHoldsLast
<1>7. CASE consumer.pc = "walk"
  BY <1>1, <1>3, <1>7 DEF Inv, Reading, Followed, FollowerHoldsLast
<1> QED BY <1>5, <1>6, <1>7 DEF Inv, Shape

LEMMA EndWalkInv ==
  ASSUME Inv, EndWalk
  PROVE  Inv'
<1>1. Stored' /\ Len(feed) \in Nat BY RegistryUndisturbed DEF EndWalk
<1>2. /\ consumer'.pc = "idle" /\ consumer'.cursor = Len(feed) /\ consumer'.start = Len(feed)
      /\ consumer'.queue = <<>> /\ feed' = feed /\ Shape'
  <2>1. consumer' = [pc |-> "idle", queue |-> consumer.queue, cursor |-> Len(feed),
                     next |-> consumer.next, start |-> Len(feed), ok |-> consumer.ok]
    BY DEF EndWalk, Inv, Shape
  <2>2. feed' = feed /\ consumer.queue = <<>> /\ consumer.next \in Nat
    BY DEF EndWalk, Inv, Shape
  <2> QED BY <1>1, <2>1, <2>2 DEF Shape
<1> QED BY <1>1, <1>2 DEF Inv, Reading, Followed, FollowerHoldsLast

LEMMA EndPageInv ==
  ASSUME Inv, EndPage
  PROVE  Inv'
<1>1. Stored' /\ Len(feed) \in Nat BY RegistryUndisturbed DEF EndPage
<1>2. consumer.next \in consumer.cursor + 1 .. Len(feed) /\ consumer.cursor \in Nat
  BY <1>1 DEF EndPage, Inv, Reading, Shape
<1>3. /\ consumer'.pc = "idle" /\ consumer'.cursor = consumer.next /\ consumer'.ok = consumer.ok
      /\ consumer'.queue = <<>> /\ consumer.queue = <<>> /\ consumer.pc = "page"
      /\ feed' = feed /\ file' = file /\ sets' = sets /\ Shape'
  <2>1. consumer' = [pc |-> "idle", queue |-> consumer.queue, cursor |-> consumer.next,
                     next |-> consumer.next, start |-> consumer.start, ok |-> consumer.ok]
    BY DEF EndPage, Inv, Shape
  <2>2. feed' = feed /\ file' = file /\ sets' = sets /\ consumer.queue = <<>> /\ consumer.pc = "page"
        /\ consumer.start \in Nat
    BY DEF EndPage, Inv, Shape
  <2> QED BY <1>1, <1>2, <2>1, <2>2 DEF Shape
<1>4. FollowerHoldsLast'
  BY <1>3 DEF Inv, Followed, FollowerHoldsLast, Served
<1> QED BY <1>1, <1>3, <1>4 DEF Inv, Reading, Followed

\* A killed consumer was not caught up: it still has its page to handle.
LEMMA KillInv ==
  ASSUME Inv, Kill
  PROVE  Inv'
<1>1. Stored' /\ Len(feed) \in Nat BY RegistryUndisturbed DEF Kill
<1>2. /\ consumer'.pc = "idle" /\ consumer'.cursor = consumer.cursor /\ consumer'.queue = <<>>
      /\ consumer'.start = consumer.start /\ feed' = feed /\ Shape'
  BY DEF Kill, Inv, Shape
<1>3. consumer.cursor = 0 \/ consumer.cursor < Len(feed)
  BY <1>1 DEF Kill, Inv, Reading, Shape
<1>4. FollowerHoldsLast'
  BY <1>1, <1>2, <1>3 DEF Inv, Shape, FollowerHoldsLast
<1> QED BY <1>1, <1>2, <1>4 DEF Inv, Reading, Followed

-----------------------------------------------------------------------------
LEMMA StepInv == Inv /\ [Next]_vars => Inv'
<1> SUFFICES ASSUME Inv, [Next]_vars PROVE Inv' OBVIOUS
<1>1. ASSUME NEW v \in Versions,
             \/ ChangeStatus(v)
             \/ \E ref \in Refs : DeleteNode(v, ref)
             \/ \E m \in Mapping : AddMapping(v, m)
      PROVE  Inv'
  BY <1>1, VersionSteps
<1>2. ASSUME NEW p \in Publishers, CommitPublishSet(p) \/ \E t \in Targets : BeginPublishSet(p, t)
      PROVE  Inv'
  BY <1>2, CommitInv, BeginPublishInv
<1>3. CASE UNCHANGED vars
  BY <1>3, ConsumerUndisturbed DEF vars, Inv, Stored, Created
<1> QED BY <1>1, <1>2, <1>3, OpenDraftInv, BeginWalkInv, BeginPageInv, PullInv, EndWalkInv,
           EndPageInv, KillInv DEF Next

\* A consumer that is caught up with the feed, having handled an event of it, and
\* whose last pull succeeded, holds the document the registry serves for the pair
\* announced last: neither a kill in the middle of a page nor a republication
\* during one leaves an older document behind.
THEOREM FollowerIsCurrent == Spec => []FollowerHoldsLast
<1>1. Inv => FollowerHoldsLast BY DEF Inv
<1> QED BY <1>1, InitInv, StepInv, PTL DEF Spec
=============================================================================
