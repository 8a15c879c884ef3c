-------------------------- MODULE BigoneCollector --------------------------
(***************************************************************************)
(* The collectors with BigONE's local order books.  The exchange numbers   *)
(* the changes of its books; a snapshot is a book at one change, an update *)
(* is one change and names the one before.  It may leave an update out.    *)
(* A side of a book is the number of the change that set it, 0 if empty.   *)
(***************************************************************************)
EXTENDS DepthCollector

CONSTANTS
    MaxChanges,     \* bound: changes of the books
    Moving,         \* bound: the markets whose books change
    MaxWire         \* bound: updates on the way

ASSUME BookAssumption ==
    MaxChanges \in Nat /\ Moving \subseteq Listed /\ MaxWire \in Nat

VARIABLES
    log,        \* changes of the exchange's books; log[i] is change i + 1
    wire,       \* messages on their way to the worker
    books,      \* depth_map and change_id
    need,       \* need_resub
    again       \* todo of _resub_some

bookVars == <<log, wire, books, need, again>>
allVars == <<vars, bookVars>>

Ids == 0..(MaxChanges + 1)
Changes == [market : Listed, side : Sides, present : BOOLEAN]
Messages == [kind : {"snapshot", "update"}, market : Listed, id : Ids]
Books == [id : Ids, sides : [Sides -> Ids]]
NoBook == [id |-> 0, sides |-> [s \in Sides |-> 0]]

BooksTypeOK ==
    /\ TypeOK
    /\ log \in Seq(Changes)
    /\ wire \in Seq(Messages)
    /\ books \in [MarketSet -> Books]
    /\ need \subseteq MarketSet
    /\ again \in Seq(MarketSet)

BooksInit ==
    /\ Init
    /\ log = <<>> /\ wire = <<>>
    /\ books = [m \in MarketSet |-> NoBook]
    /\ need = {} /\ again = <<>>

HasBooks == prof.frame.sides = "book"

Newest(I) == CHOOSE i \in I : \A j \in I : j <= i

\* The last change of m up to change c; change 1 set up all books.
LastChange(m, c) == Newest({1} \cup {i \in 2..c : log[i - 1].market = m})
PreviousChange(m, c) == LastChange(m, c - 1)

\* The exchange's book of m after change c.
RealBook(m, c) ==
    [s \in Sides |->
        LET i == Newest({1} \cup {j \in 2..c : log[j - 1].market = m /\ log[j - 1].side = s})
        IN IF i = 1 \/ log[i - 1].present THEN i ELSE 0]

-----------------------------------------------------------------------------
(* The exchange.                                                           *)

\* A level is set or removed, and the update sent or left out.
ChangeBook ==
    /\ HasBooks /\ Len(log) < MaxChanges
    /\ \E m \in Moving, s \in Sides, p \in BOOLEAN :
        /\ log' = Append(log, [market |-> m, side |-> s, present |-> p])
        /\ \/ UNCHANGED wire
           \/ /\ m \in subs /\ link = "up" /\ Len(wire) < MaxWire
              /\ wire' = Append(wire, [kind |-> "update", market |-> m,
                                       id |-> Len(log) + 2])
    /\ UNCHANGED <<vars, books, need, again>>

\* An accepted request is answered with a snapshot.
AcceptedWithSnapshot ==
    /\ Accepted
    /\ LET m == Head(asked).markets[1]
       IN wire' = IF HasBooks /\ m \in Listed
                  THEN Append(wire, [kind |-> "snapshot", market |-> m,
                                     id |-> LastChange(m, Len(log) + 1)])
                  ELSE wire
    /\ UNCHANGED <<log, books, need, again>>

\* An error is logged.
RefusedWithoutSnapshot == Refused /\ UNCHANGED bookVars

-----------------------------------------------------------------------------
(* The worker.                                                             *)

\* change_id and _apply_side: an amount of 0 removes the level.
Apply(b, c) ==
    LET change == log[c - 1]
    IN [id |-> c,
        sides |-> [b.sides EXCEPT ![change.side] = IF change.present THEN c ELSE 0]]

\* _write_top5, once both sides have levels.
WriteTop5(m) ==
    IF \A s \in Sides : books'[m].sides[s] # 0
    THEN Store(SideCommands(m, Sides)) /\ version' = version + 1
    ELSE UNCHANGED <<pipe, cnt, store, version>>

TakeSnapshot(msg) ==
    /\ books' = [books EXCEPT ![msg.market] =
                    [id |-> msg.id, sides |-> RealBook(msg.market, msg.id)]]
    /\ WriteTop5(msg.market)
    /\ UNCHANGED need

\* Mutant: a gap is not noticed.
TakeUpdateWithGap(msg) ==
    /\ IF msg.id <= books[msg.market].id
       THEN UNCHANGED <<books, pipe, cnt, store, version>>
       ELSE /\ books' = [books EXCEPT ![msg.market] = Apply(@, msg.id)]
            /\ WriteTop5(msg.market)
    /\ UNCHANGED need

\* An update that is not new is ignored; one that does not follow the book
\* marks the market; the next one in line is applied.
TakeUpdate(msg) ==
    LET m == msg.market
        New == msg.id > books[m].id
        Follows == PreviousChange(m, msg.id) = books[m].id
    IN \/ /\ ~New
          /\ UNCHANGED <<books, need, pipe, cnt, store, version>>
       \/ /\ New /\ ~Follows
          /\ need' = need \cup {m}
          /\ UNCHANGED <<books, pipe, cnt, store, version>>
       \/ /\ New /\ Follows
          /\ books' = [books EXCEPT ![m] = Apply(@, msg.id)]
          /\ WriteTop5(m)
          /\ UNCHANGED need

ReceiveMessage ==
    /\ pc = "reading" /\ link = "up" /\ wire # <<>> /\ version < MaxFrames
    /\ LET msg == Head(wire)
       IN IF msg.kind = "snapshot" THEN TakeSnapshot(msg) ELSE TakeUpdate(msg)
    /\ wire' = Tail(wire)
    /\ Heard
    /\ UNCHANGED <<prof, pc, link, hbVars, since, requestVars, log, again>>

\* on_open empties the books before it subscribes.
ConnectWithoutBooks ==
    /\ Connect
    /\ books' = [m \in MarketSet |-> NoBook]
    /\ wire' = <<>>
    /\ UNCHANGED <<log, need, again>>

CloseWire == Close /\ wire' = <<>> /\ UNCHANGED <<log, books, need, again>>

RestartWithoutBooks ==
    /\ Restart
    /\ books' = [m \in MarketSet |-> NoBook]
    /\ wire' = <<>> /\ need' = {} /\ again' = <<>>
    /\ UNCHANGED log

-----------------------------------------------------------------------------
(* The heartbeat asks again for broken books.                              *)

\* After its ping the thread copies the marks, in any order.
BeginResub ==
    /\ hb = "check" /\ ~hbStop /\ link \in {"up", "silent"} /\ ~quiet /\ need # {}
    /\ hb' = "resub"
    /\ again' \in {q \in [1..Cardinality(need) -> need] :
                    \A m \in need : \E i \in DOMAIN q : q[i] = m}
    /\ UNCHANGED <<prof, pc, linkVars, hbStop, bufferVars, requestVars, log, wire,
                   books, need>>

\* The request is sent first, the mark removed after it.
SendResub ==
    /\ hb = "resub"
    /\ IF link \in {"up", "silent"}
       THEN hb' = "discard" /\ UNCHANGED again
            /\ asked' = Append(asked, [markets |-> <<Head(again)>>, pending |-> FALSE])
       ELSE hb' = "wait" /\ again' = <<>> /\ UNCHANGED asked
    /\ UNCHANGED <<prof, pc, linkVars, hbStop, bufferVars, todo, subs, wanted, bad,
                   retry, lost, log, wire, books, need>>

DiscardMark ==
    /\ hb = "discard"
    /\ need' = need \ {Head(again)}
    /\ again' = Tail(again)
    /\ hb' = IF again' = <<>> THEN "wait" ELSE "resub"
    /\ UNCHANGED <<prof, pc, linkVars, hbStop, bufferVars, requestVars, log, wire, books>>

\* Without marks the thread goes on as the others do.
CheckWithoutMarks ==
    /\ HeartbeatChecks
    /\ hb' = "wait" => need = {}
    /\ UNCHANGED bookVars

-----------------------------------------------------------------------------
BookSteps ==
    ChangeBook \/ ReceiveMessage \/ BeginResub \/ SendResub \/ DiscardMark

WorkerSteps ==
    \/ ConnectWithoutBooks \/ CloseWire \/ RestartWithoutBooks \/ CheckWithoutMarks
    \/ AcceptedWithSnapshot \/ RefusedWithoutSnapshot
    \/ /\ Send \/ Retry \/ Receive \/ HeartbeatWakes \/ HeartbeatClosed
          \/ FallSilent \/ Resume \/ Break \/ GoQuiet \/ Pong
       /\ UNCHANGED bookVars

BooksNext == BookSteps \/ WorkerSteps

\* Threads run on, a minute passes, and the exchange answers.
BooksFairness ==
    /\ WF_allVars(ConnectWithoutBooks) /\ WF_allVars(CloseWire)
    /\ WF_allVars(Send /\ UNCHANGED bookVars)
    /\ WF_allVars(AcceptedWithSnapshot \/ RefusedWithoutSnapshot)
    /\ WF_allVars(Retry /\ UNCHANGED bookVars)
    /\ WF_allVars(link = "silent" /\ GoQuiet /\ UNCHANGED bookVars)
    /\ WF_allVars(CheckWithoutMarks \/ BeginResub \/ SendResub \/ DiscardMark
                  \/ ((HeartbeatWakes \/ HeartbeatClosed) /\ UNCHANGED bookVars))

BooksSpec == BooksInit /\ [][BooksNext]_allVars /\ BooksFairness

-----------------------------------------------------------------------------
\* The worker's book of a market is one the exchange had: the one after the
\* change the worker has recorded.  So no book is published that mixes levels of
\* different times, whatever the exchange leaves out and however links end.
LocalBookExisted ==
    \A m \in Listed :
        books[m].id # 0 => books[m].sides = RealBook(m, books[m].id)
=============================================================================
