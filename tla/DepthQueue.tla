----------------------------- MODULE DepthQueue -----------------------------
(***************************************************************************)
(* The list in DB9 that drives the updates of market_depth_diff: one       *)
(* distributor fills it between two water marks, going round a list it has *)
(* loaded once, and consumers take batches from it, read the books of the  *)
(* collectors in DB3 and write the rows.  Three pairs of commands do this, *)
(* with symbols (the pair that supervisor runs), depth keys or row ids.    *)
(***************************************************************************)
EXTENDS Integers, Sequences, FiniteSets, SequencesExt

CONSTANTS
    Kinds,          \* the pairs considered
    Differences,    \* rows of market_depth_diff: the keys of the two books
    SymbolOf,       \* the symbol in a key
    Consumers,
    High,           \* the high water mark
    Chunk,          \* --chunk of the distributor
    Batch,          \* --batch of the consumers
    Moving,         \* bound: the keys whose books are written or expire
    MaxBooks,       \* bound: books written by the collectors
    MaxDeaths       \* bound: processes that end and are started again

Rows == DOMAIN Differences
Keys == {Differences[d].buy : d \in Rows} \cup {Differences[d].sell : d \in Rows}

ASSUME QueueAssumption ==
    /\ Kinds \subseteq {"symbol", "key", "id"}
    /\ Differences \in Seq([buy : DOMAIN SymbolOf, sell : DOMAIN SymbolOf])
    /\ Differences # <<>>    \* without rows a distributor ends at once
    /\ {High, Chunk, Batch} \subseteq Nat \ {0}
    /\ MaxBooks \in Nat \ {0} /\ MaxDeaths \in Nat
    /\ Moving \subseteq Keys

VARIABLES
    kind,       \* which pair this is
    queue,      \* the list; LPUSH adds at the head, the last is the oldest
    at,         \* what the distributor does: start, length or push
    idx,        \* $idx: how far it has come on its list
    count,      \* how many it has yet to push
    taker,      \* the consumers
    books,      \* the book under each key in DB3, numbered from 1; 0 is none
    thin,       \* by consumer, the keys whose book has no level that counts for it
    clock,      \* books written so far
    row,        \* the books the prices of a row come from
    deaths

distributorVars == <<at, idx, count>>
vars == <<kind, queue, distributorVars, taker, books, thin, clock, row, deaths>>

KeysOf(d) == {Differences[d].buy, Differences[d].sell}

\* What the list holds for a side of a row.
Item(kd, d, k) == CASE kd = "symbol" -> SymbolOf[k] [] kd = "key" -> k [] kd = "id" -> d

\* The set the distributor collects, and its array_keys.  The rows come from a
\* query without ORDER BY, so the order of the list is any one.
ItemSet(kd) == UNION {{Item(kd, d, k) : k \in KeysOf(d)} : d \in Rows}

ItemLists == [kd \in Kinds |-> SetToSeq(ItemSet(kd))]

Items == ItemLists[kind]

\* step: waiting for a first item, taking more, reading, reading again what was
\* missing, writing.  items: the batch.  left: how many more it may take.
\* ask: keys to read.  got: books read.  poor: those of them without a level that
\* counts.  dirty: rows to compute and write.
Idle == [step |-> "idle", items |-> {}, left |-> 0, ask |-> {},
         got |-> [k \in Keys |-> 0], poor |-> {}, dirty |-> {}]

Version == 0..MaxBooks
Steps == {"idle", "more", "read", "again", "write"}

Taker ==
    [step : Steps, items : SUBSET ToSet(Items), left : 0..(Batch - 1), ask : SUBSET Keys,
     got : [Keys -> Version], poor : SUBSET Keys, dirty : SUBSET Rows]

QueueTypeOK ==
    /\ kind \in Kinds
    /\ queue \in Seq(ToSet(Items))
    /\ at \in {"start", "length", "push"}
    /\ idx \in 1..Len(Items)
    /\ count \in IF at = "push" THEN 1..Chunk ELSE {0}
    /\ taker \in [Consumers -> Taker]
    /\ books \in [Keys -> Version] /\ clock \in Version
    /\ thin \in [Consumers -> SUBSET Keys]
    /\ row \in [Rows -> [buy : Version, sell : Version]]
    /\ deaths \in 0..MaxDeaths

Init ==
    /\ kind \in Kinds
    /\ queue = <<>> /\ at = "start" /\ idx = 1 /\ count = 0
    /\ taker = [c \in Consumers |-> Idle]
    /\ books = [k \in Keys |-> 1] /\ clock = 1
    /\ thin = [c \in Consumers |-> {}]
    /\ row = [d \in Rows |-> [buy |-> 0, sell |-> 0]]
    /\ deaths = 0

-----------------------------------------------------------------------------
(* The distributor.                                                        *)

\* The list is cleared, except by the distributor of row ids.
Start ==
    /\ at = "start" /\ at' = "length"
    /\ queue' = IF kind = "id" THEN queue ELSE <<>>
    /\ UNCHANGED <<kind, idx, count, taker, books, thin, clock, row, deaths>>

\* Mutant: a whole chunk is pushed below the high mark.
RoomWholeChunk(len) == IF len >= High THEN 0 ELSE Chunk

\* min($need, $chunk).  The low mark makes no difference to it: below it $need
\* is larger, but never smaller than the room there is.
Room(len) ==
    IF len >= High THEN 0 ELSE IF High - len < Chunk THEN High - len ELSE Chunk

\* Mutant: each chunk begins with the first entry of the list.
ReadLengthFromFirst ==
    /\ at = "length"
    /\ count' = Room(Len(queue)) /\ idx' = 1
    /\ at' = IF count' = 0 THEN "length" ELSE "push"
    /\ UNCHANGED <<kind, queue, taker, books, thin, clock, row, deaths>>

\* LLEN decides how much is pushed.
ReadLength ==
    /\ at = "length"
    /\ count' = Room(Len(queue))
    /\ at' = IF count' = 0 THEN "length" ELSE "push"
    /\ UNCHANGED <<kind, queue, idx, taker, books, thin, clock, row, deaths>>

\* One LPUSH of the pipeline; other clients come between two of them.
Push ==
    /\ at = "push"
    /\ queue' = <<Items[idx]>> \o queue
    /\ idx' = IF idx = Len(Items) THEN 1 ELSE idx + 1
    /\ count' = count - 1
    /\ at' = IF count' = 0 THEN "length" ELSE "push"
    /\ UNCHANGED <<kind, taker, books, thin, clock, row, deaths>>

-----------------------------------------------------------------------------
(* A consumer.                                                             *)

\* BRPOP takes the oldest.
TakeFirst(c) ==
    /\ taker[c].step = "idle" /\ queue # <<>>
    /\ queue' = Front(queue)
    /\ taker' = [taker EXCEPT ![c].step = "more", ![c].items = {Last(queue)},
                              ![c].left = Batch - 1]
    /\ UNCHANGED <<kind, distributorVars, books, thin, clock, row, deaths>>

\* Symbols: RPOP takes one more, again the oldest.
TakeNext(c) ==
    /\ kind = "symbol"
    /\ taker[c].step = "more" /\ taker[c].left > 0 /\ queue # <<>>
    /\ queue' = Front(queue)
    /\ taker' = [taker EXCEPT ![c].items = @ \cup {Last(queue)}, ![c].left = @ - 1]
    /\ UNCHANGED <<kind, distributorVars, books, thin, clock, row, deaths>>

\* Otherwise LPOP takes the rest of the batch at once, from the new end.
TakeRest(c) ==
    /\ kind # "symbol"
    /\ taker[c].step = "more" /\ taker[c].left > 0 /\ queue # <<>>
    /\ LET n == IF Len(queue) < taker[c].left THEN Len(queue) ELSE taker[c].left
       IN /\ queue' = SubSeq(queue, n + 1, Len(queue))
          /\ taker' = [taker EXCEPT ![c].items = @ \cup ToSet(SubSeq(queue, 1, n)),
                                    ![c].left = 0]
    /\ UNCHANGED <<kind, distributorVars, books, thin, clock, row, deaths>>

DirtyRows(items) ==
    {d \in Rows : \E k \in KeysOf(d) : Item(kind, d, k) \in items}

\* Mutant: the keys of a row are read only if they belong to items of the batch.
WantedOfItems(items) ==
    {k \in Keys : k \in items \/ SymbolOf[k] \in items \/ \E d \in items \cap Rows : k \in KeysOf(d)}

\* The keys that are read: those of the batch itself, or both of each row.
Wanted(items) ==
    IF kind = "key" THEN items
    ELSE UNION {KeysOf(d) : d \in DirtyRows(items)}

\* The batch is full or the list empty.
TakenAll(c) ==
    /\ taker[c].step = "more"
    /\ taker[c].left = 0 \/ queue = <<>>
    /\ taker' = [taker EXCEPT ![c].step = "read", ![c].left = 0,
                              ![c].ask = Wanted(taker[c].items),
                              ![c].dirty = DirtyRows(taker[c].items)]
    /\ UNCHANGED <<kind, queue, distributorVars, books, thin, clock, row, deaths>>

\* One GET of the pipeline, which asks for the keys in some order.
Read(c) ==
    /\ taker[c].step \in {"read", "again"} /\ taker[c].ask # {}
    /\ LET k == CHOOSE k \in taker[c].ask : TRUE
       IN taker' = [taker EXCEPT ![c].ask = @ \ {k}, ![c].got[k] = books[k],
                                 ![c].poor = @ \cup ({k} \cap thin[c])]
    /\ UNCHANGED <<kind, queue, distributorVars, books, thin, clock, row, deaths>>

\* A row is written if both its books have been read and have a level that counts:
\* with a price and an amount, and for row ids and keys worth a minimum at the rates
\* to USDT this process has read, once.
Complete(c) ==
    {d \in taker[c].dirty : \A k \in KeysOf(d) : taker[c].got[k] # 0 /\ k \notin taker[c].poor}

\* With rows to write it writes them; without, the loop begins anew.
WriteNext(c, rows) ==
    IF rows = {} THEN Idle
    ELSE [taker[c] EXCEPT !.step = "write", !.items = {}, !.poor = {}, !.dirty = rows]

\* The consumer of symbols reads once more what it has not found.
ReadAll(c) ==
    /\ taker[c].step \in {"read", "again"} /\ taker[c].ask = {}
    /\ LET missing == {k \in Wanted(taker[c].items) : taker[c].got[k] = 0}
       IN taker' =
            IF kind = "symbol" /\ taker[c].step = "read" /\ missing # {}
            THEN [taker EXCEPT ![c].step = "again", ![c].ask = missing]
            ELSE [taker EXCEPT ![c] = WriteNext(c, Complete(c))]
    /\ UNCHANGED <<kind, queue, distributorVars, books, thin, clock, row, deaths>>

\* batchUpdate, row by row; one statement writes up to update_batch of them.
Write(c) ==
    /\ taker[c].step = "write"
    /\ \E d \in taker[c].dirty :
        /\ row' = [row EXCEPT ![d] = [buy |-> taker[c].got[Differences[d].buy],
                                      sell |-> taker[c].got[Differences[d].sell]]]
        /\ taker' = [taker EXCEPT ![c] = WriteNext(c, taker[c].dirty \ {d})]
    /\ UNCHANGED <<kind, queue, distributorVars, books, thin, clock, deaths>>

-----------------------------------------------------------------------------
(* Collectors, and processes that end.                                     *)

\* The new book may count for some processes only where their rates matter.
StoreBook(k) ==
    /\ clock < MaxBooks
    /\ clock' = clock + 1
    /\ books' = [books EXCEPT ![k] = clock + 1]
    /\ \E C \in IF kind = "symbol" THEN {{}, Consumers} ELSE SUBSET Consumers :
          thin' = [c \in Consumers |-> IF c \in C THEN thin[c] \cup {k} ELSE thin[c] \ {k}]
    /\ UNCHANGED <<kind, queue, distributorVars, taker, row, deaths>>

\* Nothing was written for the time to live of the key.
BookExpires(k) ==
    /\ books[k] # 0 /\ books' = [books EXCEPT ![k] = 0]
    /\ thin' = [c \in Consumers |-> thin[c] \ {k}]
    /\ UNCHANGED <<kind, queue, distributorVars, taker, clock, row, deaths>>

DistributorEnds ==
    /\ deaths < MaxDeaths /\ deaths' = deaths + 1
    /\ at # "start" /\ at' = "start"
    /\ idx' = 1 /\ count' = 0
    /\ UNCHANGED <<kind, queue, taker, books, thin, clock, row>>

\* What it has taken is lost, and its successor reads the rates anew.
ConsumerEnds(c) ==
    /\ deaths < MaxDeaths /\ deaths' = deaths + 1
    /\ taker[c] # Idle /\ taker' = [taker EXCEPT ![c] = Idle]
    /\ \E K \in IF kind = "symbol" THEN {thin[c]} ELSE SUBSET {k \in Moving : books[k] # 0} :
          thin' = [thin EXCEPT ![c] = K]
    /\ UNCHANGED <<kind, queue, distributorVars, books, clock, row>>

-----------------------------------------------------------------------------
Distribute == Start \/ ReadLength \/ Push

Consume(c) ==
    \/ TakeFirst(c) \/ TakeNext(c) \/ TakeRest(c) \/ TakenAll(c) \/ Read(c) \/ ReadAll(c) \/ Write(c)

Environment ==
    \/ \E k \in Moving : StoreBook(k) \/ BookExpires(k)
    \/ DistributorEnds
    \/ \E c \in Consumers : ConsumerEnds(c)

Next == Distribute \/ (\E c \in Consumers : Consume(c)) \/ Environment

\* Each process goes on.
Spec ==
    Init /\ [][Next]_vars /\ WF_vars(Distribute) /\ \A c \in Consumers : WF_vars(Consume(c))

-----------------------------------------------------------------------------
(* Properties.                                                             *)

\* The list never grows past the high water mark, although LLEN and the pushes
\* are separate commands and processes end in between: one distributor pushes
\* what there was room for, and consumers only take.
QueueStaysBelowHigh == Len(queue) <= High

\* Every item is taken again and again.  Batches are filled from the new end too,
\* and an entry may wait in the middle of the list for as long as that goes on; but
\* no more than High entries wait, and the distributor keeps adding all items.
ItemsAreTaken ==
    \A n \in 1..(2 * Len(Differences)) :
        []<>(n <= Len(Items) => \E c \in Consumers : Items[n] \in taker[c].items)

\* Consumers that overtake each other write prices older than those in the row;
\* and yet, when the two books of a row stay and each has a level that counts for
\* every consumer, the row comes to show them, whatever was skipped before.  For the
\* pair with keys it need not: both keys have to be in one batch.
RowsCatchUp ==
    \A d \in Rows :
        (/\ kind # "key"
         /\ <>[](\A k \in KeysOf(d) :
                  books[k] # 0 /\ \A c \in Consumers : k \notin thin[c])) =>
            <>[](/\ row[d].buy = books[Differences[d].buy]
                 /\ row[d].sell = books[Differences[d].sell])
=============================================================================
