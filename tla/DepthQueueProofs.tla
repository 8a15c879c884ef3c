-------------------------- MODULE DepthQueueProofs --------------------------
(***************************************************************************)
(* The items and the length of the list, for any marks, chunks and         *)
(* batches, any number of consumers, rows and books, and any number of     *)
(* processes that end.                                                     *)
(***************************************************************************)
EXTENDS DepthQueue, TLAPS, FiniteSetTheorems

-----------------------------------------------------------------------------
(***************************************************************************)
(* The list the distributor goes round                                     *)
(***************************************************************************)

LEMMA RowFacts ==
    /\ Rows = 1..Len(Differences) /\ Len(Differences) \in Nat \ {0}
    /\ IsFiniteSet(Rows)
    /\ \A d \in Rows : KeysOf(d) \subseteq Keys /\ KeysOf(d) # {}
<1>1. Rows = 1..Len(Differences) /\ Len(Differences) \in Nat \ {0}
  BY QueueAssumption DEF Rows
<1>2. IsFiniteSet(Rows)
  BY <1>1, FS_Interval
<1>3. QED
  BY <1>1, <1>2 DEF KeysOf, Keys

\* The set of items is finite, as the image of the rows.
LEMMA ItemSetFacts ==
    ASSUME NEW kd
    PROVE  /\ IsFiniteSet(ItemSet(kd)) /\ ItemSet(kd) # {}
           /\ kd = "key" => ItemSet(kd) \subseteq Keys
<1> DEFINE buys == [d \in Rows |-> Item(kd, d, Differences[d].buy)]
           sells == [d \in Rows |-> Item(kd, d, Differences[d].sell)]
           B == {buys[d] : d \in Rows}
           S == {sells[d] : d \in Rows}
<1>1. IsFiniteSet(B)
  <2>1. buys \in Surjection(Rows, B)
    BY DEF Surjection
  <2>2. QED
    <3> HIDE DEF buys
    <3>1. QED
      BY <2>1, RowFacts, FS_Surjection
<1>2. IsFiniteSet(S)
  <2>1. sells \in Surjection(Rows, S)
    BY DEF Surjection
  <2>2. QED
    <3> HIDE DEF sells
    <3>1. QED
      BY <2>1, RowFacts, FS_Surjection
<1>3. ItemSet(kd) = B \cup S
  BY DEF ItemSet, KeysOf
<1>4. IsFiniteSet(ItemSet(kd))
  <2> HIDE DEF B, S
  <2>1. QED
    BY <1>1, <1>2, <1>3, FS_Union
<1>5. ItemSet(kd) # {}
  <2>1. 1 \in Rows
    BY RowFacts
  <2>2. buys[1] \in B
    BY <2>1
  <2>3. QED
    BY <1>3, <2>2
<1>6. kd = "key" => ItemSet(kd) \subseteq Keys
  BY RowFacts DEF ItemSet, Item
<1>7. QED
  BY <1>4, <1>5, <1>6

\* The distributor's list has every item of its rows, once.
THEOREM ItemsOnceEach ==
    ASSUME NEW kd \in Kinds
    PROVE  /\ ItemLists[kd] \in Seq(ItemSet(kd)) \ {<<>>}
           /\ ToSet(ItemLists[kd]) = ItemSet(kd)
           /\ IsInjective(ItemLists[kd])
<1> DEFINE I == ItemSet(kd)
           n == Cardinality(I)
           s == SetToSeq(I)
<1>1. IsFiniteSet(I) /\ I # {}
  BY ItemSetFacts
<1>2. n \in Nat /\ ExistsBijection(1..n, I)
  BY <1>1, FS_CardinalityType
<1>3. \E f \in [1..n -> I] : IsInjective(f)
  BY <1>2 DEF ExistsBijection, Bijection, Injection
<1>4. s \in [1..n -> I] /\ IsInjective(s)
  BY <1>3 DEF SetToSeq
<1>5. n # 0
  BY <1>1, FS_EmptySet
<1>6. s \in Surjection(1..n, I)
  <2>1. s \in Injection(1..n, I)
    BY <1>4 DEF Injection
  <2>2. Cardinality(1..n) = n
    BY <1>2, FS_Interval
  <2>3. QED
    <3> HIDE DEF s
    <3>1. QED
      BY <1>1, <2>1, <2>2, FS_Injection
<1>7. ItemLists[kd] = s
  BY DEF ItemLists
<1>8. s \in Seq(I) /\ Len(s) = n
  <2> HIDE DEF s, n
  <2>1. QED
    BY <1>2, <1>4
<1>9. ToSet(s) = I
  <2> HIDE DEF s, n
  <2>1. QED
    BY <1>4, <1>6 DEF ToSet, Surjection
<1>10. QED
  <2> HIDE DEF s, n
  <2>1. QED
    BY <1>2, <1>4, <1>5, <1>7, <1>8, <1>9

LEMMA ItemsFacts ==
    ASSUME kind \in Kinds
    PROVE  /\ Items \in Seq(ToSet(Items))
           /\ Len(Items) \in Nat \ {0}
           /\ \A i \in 1..Len(Items) : Items[i] \in ToSet(Items)
           /\ kind = "key" => ToSet(Items) \subseteq Keys
<1>1. Items = ItemLists[kind]
  BY DEF Items
<1>2. /\ Items \in Seq(ItemSet(kind)) \ {<<>>}
      /\ ToSet(Items) = ItemSet(kind)
  BY <1>1, ItemsOnceEach
<1>3. kind = "key" => ItemSet(kind) \subseteq Keys
  BY ItemSetFacts
<1>4. QED
  BY <1>2, <1>3

-----------------------------------------------------------------------------
(***************************************************************************)
(* Type correctness                                                        *)
(***************************************************************************)

\* The room found is a number that still fits, at most a chunk.
LEMMA RoomFits ==
    ASSUME NEW len \in Nat
    PROVE  /\ Room(len) \in 0..Chunk
           /\ len <= High => len + Room(len) <= High
BY QueueAssumption DEF Room

\* The ends of a list, and its pieces, are from the list, and not longer.
LEMMA PieceFacts ==
    ASSUME NEW S, NEW q \in Seq(S), NEW m \in Nat \ {0}, NEW n \in Int, n <= Len(q)
    PROVE  /\ SubSeq(q, m, n) \in Seq(S)
           /\ Len(SubSeq(q, m, n)) <= Len(q)
           /\ ToSet(SubSeq(q, m, n)) \subseteq S
<1>1. SubSeq(q, m, n) \in Seq(S) /\ Len(SubSeq(q, m, n)) <= Len(q)
  OBVIOUS
<1>2. QED
  BY <1>1 DEF ToSet

LEMMA FrontFacts ==
    ASSUME NEW S, NEW q \in Seq(S), q # <<>>
    PROVE  /\ Front(q) \in Seq(S) /\ Len(Front(q)) <= Len(q)
           /\ Last(q) \in S
BY DEF Front, Last

\* What is read, asked for and written are keys and rows.
LEMMA BatchFacts ==
    ASSUME QueueTypeOK, NEW items, items \subseteq ToSet(Items)
    PROVE  /\ Wanted(items) \subseteq Keys
           /\ DirtyRows(items) \subseteq Rows
<1>1. DirtyRows(items) \subseteq Rows
  BY DEF DirtyRows
<1>2. Wanted(items) \subseteq Keys
  BY <1>1, ItemsFacts, RowFacts DEF Wanted, QueueTypeOK
<1>3. QED
  BY <1>1, <1>2

LEMMA IdleType == Idle \in Taker
<1>1. 0 \in 0..(Batch - 1)
  BY QueueAssumption
<1>2. [k \in Keys |-> 0] \in [Keys -> Version]
  BY QueueAssumption DEF Version
<1>3. QED
  BY <1>1, <1>2 DEF Idle, Taker, Steps

LEMMA WriteNextType ==
    ASSUME QueueTypeOK, NEW c \in Consumers, NEW rows \in SUBSET Rows
    PROVE  WriteNext(c, rows) \in Taker
<1>1. taker[c] \in Taker
  BY DEF QueueTypeOK
<1>2. [taker[c] EXCEPT !.step = "write", !.items = {}, !.poor = {}, !.dirty = rows] \in Taker
  BY <1>1 DEF Taker, Steps
<1>3. QED
  BY <1>2, IdleType DEF WriteNext

\* A consumer's step keeps the types, and does not lengthen the list.
LEMMA ConsumeType ==
    ASSUME QueueTypeOK, NEW c \in Consumers, Consume(c)
    PROVE  QueueTypeOK' /\ Len(queue') <= Len(queue) /\ count' = count
<1>1. kind' = kind /\ Items' = Items /\ Taker' = Taker
  <2>1. kind' = kind
    BY DEF Consume, TakeFirst, TakeNext, TakeRest, TakenAll, Read, ReadAll, Write
  <2>2. QED
    BY <2>1 DEF Items, Taker
<1>2. UNCHANGED <<at, idx, count, books, thin, clock, deaths>>
  BY DEF Consume, TakeFirst, TakeNext, TakeRest, TakenAll, Read, ReadAll, Write,
         distributorVars
<1>3. /\ taker[c] \in Taker /\ queue \in Seq(ToSet(Items)) /\ Len(queue) \in Nat
      /\ taker[c].left \in 0..(Batch - 1) /\ taker[c].items \subseteq ToSet(Items)
      /\ Batch \in Nat \ {0}
  BY QueueAssumption DEF QueueTypeOK, Taker
<1>4. ASSUME \E t \in Taker : taker' = [taker EXCEPT ![c] = t],
             queue' \in Seq(ToSet(Items)), Len(queue') <= Len(queue),
             row' \in [Rows -> [buy : Version, sell : Version]]
      PROVE  QueueTypeOK' /\ Len(queue') <= Len(queue) /\ count' = count
  <2>1. taker' \in [Consumers -> Taker]
    BY <1>4 DEF QueueTypeOK
  <2>2. QED
    BY <1>1, <1>2, <1>4, <2>1 DEF QueueTypeOK
<1>5. row \in [Rows -> [buy : Version, sell : Version]]
  BY DEF QueueTypeOK
<1>a. ASSUME \E t \in Taker : taker' = [taker EXCEPT ![c] = t],
             queue' = queue,
             row' \in [Rows -> [buy : Version, sell : Version]]
      PROVE  QueueTypeOK' /\ Len(queue') <= Len(queue) /\ count' = count
  <2>1. queue' \in Seq(ToSet(Items)) /\ Len(queue') <= Len(queue)
    BY <1>3, <1>a
  <2>2. QED
    BY <1>4, <1>a, <2>1
<1>6. CASE TakeFirst(c)
  <2> DEFINE t == [taker[c] EXCEPT !.step = "more", !.items = {Last(queue)},
                                   !.left = Batch - 1]
  <2>1. queue # <<>> /\ queue' = Front(queue) /\ row' = row
        /\ taker' = [taker EXCEPT ![c] = t]
    BY <1>6 DEF TakeFirst, QueueTypeOK
  <2>a. Last(queue) \in ToSet(Items)
    BY <1>3, <2>1, FrontFacts
  <2>2. t \in Taker
    <3>1. {Last(queue)} \in SUBSET ToSet(Items) /\ Batch - 1 \in 0..(Batch - 1)
      BY <1>3, <2>a
    <3>2. QED
      BY <1>3, <3>1 DEF Taker, Steps
  <2>3. QED
    <3> HIDE DEF t
    <3>1. QED
      BY <1>3, <1>4, <1>5, <2>1, <2>2, FrontFacts
<1>7. CASE TakeNext(c)
  <2> DEFINE t == [taker[c] EXCEPT !.items = @ \cup {Last(queue)}, !.left = @ - 1]
  <2>1. queue # <<>> /\ queue' = Front(queue) /\ row' = row
        /\ taker' = [taker EXCEPT ![c] = t] /\ taker[c].left > 0
    BY <1>7 DEF TakeNext, QueueTypeOK
  <2>a. Last(queue) \in ToSet(Items)
    BY <1>3, <2>1, FrontFacts
  <2>2. t \in Taker
    <3>1. /\ taker[c].items \cup {Last(queue)} \in SUBSET ToSet(Items)
          /\ taker[c].left - 1 \in 0..(Batch - 1)
      BY <1>3, <2>1, <2>a
    <3>2. QED
      BY <1>3, <3>1 DEF Taker
  <2>3. QED
    <3> HIDE DEF t
    <3>1. QED
      BY <1>3, <1>4, <1>5, <2>1, <2>2, FrontFacts
<1>8. CASE TakeRest(c)
  <2> DEFINE n == IF Len(queue) < taker[c].left THEN Len(queue) ELSE taker[c].left
             t == [taker[c] EXCEPT !.items = @ \cup ToSet(SubSeq(queue, 1, n)),
                                   !.left = 0]
  <2>1. queue' = SubSeq(queue, n + 1, Len(queue)) /\ row' = row
        /\ taker' = [taker EXCEPT ![c] = t]
    BY <1>8 DEF TakeRest, QueueTypeOK
  <2>2. n \in Nat /\ n <= Len(queue) /\ n + 1 \in Nat \ {0}
    BY <1>3
  <2>3. ToSet(SubSeq(queue, 1, n)) \subseteq ToSet(Items)
    <3> HIDE DEF n
    <3>1. QED
      BY <1>3, <2>2, PieceFacts
  <2>4. t \in Taker
    <3> HIDE DEF n
    <3>1. /\ taker[c].items \cup ToSet(SubSeq(queue, 1, n)) \in SUBSET ToSet(Items)
          /\ 0 \in 0..(Batch - 1)
      BY <1>3, <2>3
    <3>2. QED
      BY <1>3, <3>1 DEF Taker
  <2>5. queue' \in Seq(ToSet(Items)) /\ Len(queue') <= Len(queue)
    <3> HIDE DEF n
    <3>1. QED
      BY <1>3, <2>1, <2>2, PieceFacts
  <2>6. QED
    <3> HIDE DEF t
    <3>1. QED
      BY <1>4, <1>5, <2>1, <2>4, <2>5
<1>9. CASE TakenAll(c)
  <2> DEFINE t == [taker[c] EXCEPT !.step = "read", !.left = 0,
                                   !.ask = Wanted(taker[c].items),
                                   !.dirty = DirtyRows(taker[c].items)]
  <2>1. queue' = queue /\ row' = row /\ taker' = [taker EXCEPT ![c] = t]
    BY <1>9 DEF TakenAll, QueueTypeOK
  <2>2. t \in Taker
    <3>1. /\ Wanted(taker[c].items) \in SUBSET Keys
          /\ DirtyRows(taker[c].items) \in SUBSET Rows
          /\ 0 \in 0..(Batch - 1)
      BY <1>3, BatchFacts
    <3>2. QED
      BY <1>3, <3>1 DEF Taker, Steps
  <2>3. \E u \in Taker : taker' = [taker EXCEPT ![c] = u]
    <3> HIDE DEF t
    <3>1. QED
      BY <2>1, <2>2
  <2>4. QED
    BY <1>a, <1>5, <2>1, <2>3
<1>10. CASE Read(c)
  <2>1. taker[c].ask # {} /\ taker[c].ask \subseteq Keys
    BY <1>3, <1>10 DEF Read, Taker
  <2> DEFINE k == CHOOSE k \in taker[c].ask : TRUE
             t == [taker[c] EXCEPT !.ask = @ \ {k}, !.got[k] = books[k],
                                   !.poor = @ \cup ({k} \cap thin[c])]
  <2>2. k \in Keys
    BY <2>1
  <2>3. queue' = queue /\ row' = row /\ taker' = [taker EXCEPT ![c] = t]
    <3> DEFINE p == {k} \cap thin[c]
    <3>1. /\ queue' = queue /\ row' = row
          /\ taker' = [taker EXCEPT ![c].ask = @ \ {k}, ![c].got[k] = books[k],
                                    ![c].poor = @ \cup p]
      BY <1>10 DEF Read
    <3>2. taker \in [Consumers -> Taker]
      BY DEF QueueTypeOK
    <3> HIDE DEF p, k
    <3>3. taker' = [taker EXCEPT ![c] = [taker[c] EXCEPT !.ask = @ \ {k}, !.got[k] = books[k],
                                                         !.poor = @ \cup p]]
      BY <3>1, <3>2
    <3>4. QED
      BY <3>1, <3>3 DEF p
  <2>4. t \in Taker
    <3> HIDE DEF k
    <3>1. books[k] \in Version
      BY <2>2 DEF QueueTypeOK
    <3>2. {k} \cap thin[c] \subseteq Keys
      BY <2>2
    <3> DEFINE p == {k} \cap thin[c]
    <3> HIDE DEF p
    <3>3. p \subseteq Keys
      BY <3>2 DEF p
    <3>4. [taker[c] EXCEPT !.ask = @ \ {k}, !.got[k] = books[k], !.poor = @ \cup p] \in Taker
      BY <1>3, <2>2, <3>1, <3>3 DEF Taker
    <3>5. QED
      BY <3>4 DEF p
  <2>5. \E u \in Taker : taker' = [taker EXCEPT ![c] = u]
    <3> HIDE DEF t
    <3>1. QED
      BY <2>3, <2>4
  <2>6. QED
    BY <1>a, <1>5, <2>3, <2>5
<1>11. CASE ReadAll(c)
  <2> DEFINE missing == {k \in Wanted(taker[c].items) : taker[c].got[k] = 0}
             t == [taker[c] EXCEPT !.step = "again", !.ask = missing]
  <2>1. queue' = queue /\ row' = row
        /\ \/ taker' = [taker EXCEPT ![c] = t]
           \/ taker' = [taker EXCEPT ![c] = WriteNext(c, Complete(c))]
    BY <1>11 DEF ReadAll, QueueTypeOK
  <2>2. t \in Taker
    <3>1. missing \in SUBSET Keys
      BY <1>3, BatchFacts
    <3>2. QED
      <4> HIDE DEF missing
      <4>1. QED
        BY <1>3, <3>1 DEF Taker, Steps
  <2>3. Complete(c) \in SUBSET Rows
    BY <1>3 DEF Complete, Taker
  <2>4. WriteNext(c, Complete(c)) \in Taker
    BY <2>3, WriteNextType
  <2>5. \E u \in Taker : taker' = [taker EXCEPT ![c] = u]
    <3> HIDE DEF t
    <3>1. QED
      BY <2>1, <2>2, <2>4
  <2>6. QED
    BY <1>a, <1>5, <2>1, <2>5
<1>12. CASE Write(c)
  <2>1. PICK d \in taker[c].dirty :
            /\ row' = [row EXCEPT ![d] = [buy |-> taker[c].got[Differences[d].buy],
                                          sell |-> taker[c].got[Differences[d].sell]]]
            /\ taker' = [taker EXCEPT ![c] = WriteNext(c, taker[c].dirty \ {d})]
            /\ queue' = queue
    BY <1>12 DEF Write
  <2>2. taker[c].dirty \in SUBSET Rows /\ taker[c].got \in [Keys -> Version]
    BY <1>3 DEF Taker
  <2>3. Differences[d].buy \in Keys /\ Differences[d].sell \in Keys
    BY <2>1, <2>2 DEF Keys
  <2>4. row' \in [Rows -> [buy : Version, sell : Version]]
    BY <1>5, <2>1, <2>2, <2>3
  <2>5. WriteNext(c, taker[c].dirty \ {d}) \in Taker
    BY <2>2, WriteNextType
  <2>6. \E u \in Taker : taker' = [taker EXCEPT ![c] = u]
    BY <2>1, <2>5
  <2>7. QED
    BY <1>a, <2>1, <2>4, <2>6
<1>13. QED
  BY <1>6, <1>7, <1>8, <1>9, <1>10, <1>11, <1>12 DEF Consume

LEMMA SameKind ==
    ASSUME kind' = kind
    PROVE  Items' = Items /\ Taker' = Taker
BY DEF Items, Taker

\* The distributor stays on its list and fills the room it has found.
LEMMA DistributeType ==
    ASSUME QueueTypeOK, Distribute
    PROVE  /\ QueueTypeOK'
           /\ Len(queue) + count <= High => Len(queue') + count' <= High
<1>1. kind' = kind /\ UNCHANGED <<taker, books, thin, clock, row, deaths>>
  BY DEF Distribute, Start, ReadLength, Push
<1>2. /\ Items' = Items /\ Taker' = Taker
      /\ Len(Items) \in Nat \ {0}
      /\ \A i \in 1..Len(Items) : Items[i] \in ToSet(Items)
  BY <1>1, SameKind, ItemsFacts DEF QueueTypeOK
<1>3. /\ queue \in Seq(ToSet(Items)) /\ Len(queue) \in Nat
      /\ idx \in 1..Len(Items) /\ High \in Nat /\ Chunk \in Nat
  BY QueueAssumption DEF QueueTypeOK
<1>4. ASSUME queue' \in Seq(ToSet(Items)), idx' \in 1..Len(Items),
             at' \in {"start", "length", "push"},
             count' \in IF at' = "push" THEN 1..Chunk ELSE {0}
      PROVE  QueueTypeOK'
  BY <1>1, <1>2, <1>4 DEF QueueTypeOK
<1>5. CASE Start
  <2>1. /\ at = "start" /\ at' = "length" /\ idx' = idx /\ count' = count
        /\ queue' = IF kind = "id" THEN queue ELSE <<>>
    BY <1>5 DEF Start
  <2>2. count' = 0 /\ queue' \in Seq(ToSet(Items)) /\ Len(queue') <= Len(queue)
    BY <1>3, <2>1 DEF QueueTypeOK
  <2>3. QED
    BY <1>3, <1>4, <2>1, <2>2
<1>6. CASE ReadLength
  <2>1. /\ count' = Room(Len(queue)) /\ idx' = idx /\ queue' = queue
        /\ at' = IF count' = 0 THEN "length" ELSE "push"
        /\ at = "length"
    BY <1>6 DEF ReadLength
  <2>2. /\ count' \in 0..Chunk /\ count = 0
        /\ Len(queue) <= High => Len(queue) + count' <= High
    BY <1>3, <2>1, RoomFits DEF QueueTypeOK
  <2>3. QED
    BY <1>3, <1>4, <2>1, <2>2
<1>7. CASE Push
  <2>1. /\ at = "push" /\ queue' = <<Items[idx]>> \o queue
        /\ idx' = (IF idx = Len(Items) THEN 1 ELSE idx + 1)
        /\ count' = count - 1
        /\ at' = IF count' = 0 THEN "length" ELSE "push"
    BY <1>7 DEF Push
  <2>2. count \in 1..Chunk
    BY <2>1 DEF QueueTypeOK
  <2>3. Items[idx] \in ToSet(Items)
    BY <1>2, <1>3
  <2>4. queue' \in Seq(ToSet(Items)) /\ Len(queue') = Len(queue) + 1
    BY <1>3, <2>1, <2>3
  <2>5. idx' \in 1..Len(Items)
    BY <1>2, <1>3, <2>1
  <2>6. QED
    BY <1>3, <1>4, <2>1, <2>2, <2>4, <2>5
<1>8. QED
  BY <1>5, <1>6, <1>7 DEF Distribute

\* Books come and go, and a process that ends takes nothing from the list and
\* adds nothing.
LEMMA EnvironmentType ==
    ASSUME QueueTypeOK, Environment
    PROVE  QueueTypeOK' /\ queue' = queue /\ count' <= count
<1>1. kind' = kind /\ queue' = queue /\ row' = row
  BY DEF Environment, StoreBook, BookExpires, DistributorEnds, ConsumerEnds
<1>2. Items' = Items /\ Taker' = Taker /\ Len(Items) \in Nat \ {0}
  BY <1>1, SameKind, ItemsFacts DEF QueueTypeOK
<1>3. count \in Nat /\ Chunk \in Nat /\ MaxBooks \in Nat /\ MaxDeaths \in Nat
  BY QueueAssumption DEF QueueTypeOK
<1>4. CASE \E k \in Moving : StoreBook(k) \/ BookExpires(k)
  <2>1. PICK k \in Moving : StoreBook(k) \/ BookExpires(k)
    BY <1>4
  <2>2. UNCHANGED <<at, idx, count, taker, deaths>>
    BY <2>1 DEF StoreBook, BookExpires, distributorVars
  <2>3. clock' \in Version /\ books' \in [Keys -> Version]
    <3>1. /\ clock \in 0..MaxBooks /\ books \in [Keys -> 0..MaxBooks]
          /\ 0 \in 0..MaxBooks
      BY <1>3 DEF QueueTypeOK, Version
    <3>2. CASE StoreBook(k)
      <4>1. clock + 1 \in 0..MaxBooks
        BY <1>3, <3>1, <3>2 DEF StoreBook
      <4>2. QED
        BY <3>1, <3>2, <4>1 DEF StoreBook, Version
    <3>3. CASE BookExpires(k)
      BY <3>1, <3>3 DEF BookExpires, Version
    <3>4. QED
      BY <2>1, <3>2, <3>3
  <2>4. thin' \in [Consumers -> SUBSET Keys]
    <3>1. k \in Keys /\ thin \in [Consumers -> SUBSET Keys]
      BY QueueAssumption DEF QueueTypeOK
    <3>2. CASE StoreBook(k)
      <4>1. PICK C : thin' = [c \in Consumers |-> IF c \in C THEN thin[c] \cup {k}
                                                             ELSE thin[c] \ {k}]
        BY <3>2 DEF StoreBook
      <4>2. \A c \in Consumers : thin[c] \cup {k} \subseteq Keys /\ thin[c] \ {k} \subseteq Keys
        BY <3>1
      <4>3. QED
        BY <4>1, <4>2
    <3>3. CASE BookExpires(k)
      <4>1. \A c \in Consumers : thin[c] \ {k} \subseteq Keys
        BY <3>1
      <4>2. QED
        BY <3>3, <4>1 DEF BookExpires
    <3>4. QED
      BY <2>1, <3>2, <3>3
  <2>5. QED
    BY <1>1, <1>2, <1>3, <2>2, <2>3, <2>4 DEF QueueTypeOK
<1>5. CASE DistributorEnds
  <2>1. /\ at' = "start" /\ idx' = 1 /\ count' = 0
        /\ UNCHANGED <<taker, books, thin, clock>> /\ deaths' \in 0..MaxDeaths
    BY <1>3, <1>5 DEF DistributorEnds, QueueTypeOK
  <2>2. QED
    BY <1>1, <1>2, <1>3, <2>1 DEF QueueTypeOK
<1>6. CASE \E c \in Consumers : ConsumerEnds(c)
  <2>1. PICK c \in Consumers : ConsumerEnds(c)
    BY <1>6
  <2>2. /\ taker' = [taker EXCEPT ![c] = Idle]
        /\ UNCHANGED <<at, idx, count, books, clock>> /\ deaths' \in 0..MaxDeaths
    BY <1>3, <2>1, QueueAssumption DEF ConsumerEnds, QueueTypeOK, distributorVars
  <2>3. taker' \in [Consumers -> Taker]
    BY <2>2, IdleType DEF QueueTypeOK
  <2>4. thin' \in [Consumers -> SUBSET Keys]
    <3>1. PICK K \in IF kind = "symbol" THEN {thin[c]}
                     ELSE SUBSET {k \in Moving : books[k] # 0} : thin' = [thin EXCEPT ![c] = K]
      BY <2>1 DEF ConsumerEnds
    <3>2. K \subseteq Keys /\ thin \in [Consumers -> SUBSET Keys]
      BY <3>1, QueueAssumption DEF QueueTypeOK
    <3>3. QED
      BY <3>1, <3>2
  <2>5. QED
    BY <1>1, <1>2, <1>3, <2>2, <2>3, <2>4 DEF QueueTypeOK
<1>7. QED
  BY <1>4, <1>5, <1>6 DEF Environment

\* Types, and room for all that is still to be pushed: LLEN is not older than the
\* last push, and since then the list has only become shorter.
LengthInv == QueueTypeOK /\ Len(queue) + count <= High

LEMMA LengthInvariance == Spec => []LengthInv
<1>1. Init => LengthInv
  <2>1. SUFFICES ASSUME Init PROVE LengthInv
    OBVIOUS
  <2>2. /\ kind \in Kinds /\ queue = <<>> /\ at = "start" /\ idx = 1 /\ count = 0
        /\ taker = [c \in Consumers |-> Idle] /\ deaths = 0
        /\ books = [k \in Keys |-> 1] /\ clock = 1
        /\ thin = [c \in Consumers |-> {}]
        /\ row = [d \in Rows |-> [buy |-> 0, sell |-> 0]]
    BY <2>1, QueueAssumption DEF Init
  <2>3. Len(Items) \in Nat \ {0}
    BY <2>2, ItemsFacts
  <2>4. taker \in [Consumers -> Taker]
    BY <2>2, IdleType
  <2>5. QED
    BY <2>2, <2>3, <2>4, QueueAssumption DEF LengthInv, QueueTypeOK, Version
<1>2. LengthInv /\ [Next]_vars => LengthInv'
  <2> SUFFICES ASSUME LengthInv, [Next]_vars PROVE LengthInv'
    OBVIOUS
  <2>0. /\ QueueTypeOK /\ Len(queue) + count <= High
        /\ Len(queue) \in Nat /\ count \in Nat /\ High \in Nat
    BY QueueAssumption DEF LengthInv, QueueTypeOK
  <2>1. CASE Distribute
    BY <2>0, <2>1, DistributeType DEF LengthInv
  <2>2. CASE \E c \in Consumers : Consume(c)
    <3>1. QueueTypeOK' /\ Len(queue') <= Len(queue) /\ count' = count
      BY <2>0, <2>2, ConsumeType
    <3>2. Len(queue') \in Nat
      BY <3>1 DEF QueueTypeOK
    <3>3. QED
      BY <2>0, <3>1, <3>2 DEF LengthInv
  <2>3. CASE Environment
    <3>1. QueueTypeOK' /\ queue' = queue /\ count' <= count
      BY <2>0, <2>3, EnvironmentType
    <3>2. count' \in Nat
      BY <3>1, QueueAssumption DEF QueueTypeOK
    <3>3. QED
      BY <2>0, <3>1, <3>2 DEF LengthInv
  <2>4. CASE UNCHANGED vars
    BY <2>4, SameKind DEF vars, distributorVars, LengthInv, QueueTypeOK
  <2>5. QED
    BY <2>1, <2>2, <2>3, <2>4 DEF Next
<1>3. QED
  BY <1>1, <1>2, PTL DEF Spec

\* Type correctness: whatever is taken from the list is an item, whatever is
\* read is the book of a key, whatever is written is a row.
THEOREM QueueTyping == Spec => []QueueTypeOK
<1>1. LengthInv => QueueTypeOK
  BY DEF LengthInv
<1>2. QED
  BY <1>1, LengthInvariance, PTL

\* The list never grows past the high water mark, for any marks and any number of
\* consumers, although the length is read before the pushes and processes end in
\* between.
THEOREM ListStaysBelowHigh == Spec => []QueueStaysBelowHigh
<1>1. LengthInv => QueueStaysBelowHigh
  BY QueueAssumption DEF LengthInv, QueueTypeOK, QueueStaysBelowHigh
<1>2. QED
  BY <1>1, LengthInvariance, PTL
=============================================================================
