------------------------ MODULE BigoneCollectorProofs ------------------------
(***************************************************************************)
(* The buffer, what is in Redis, BigONE's local books, and the markets a   *)
(* worker has in hand: theorems about all collectors, any number of        *)
(* markets, frames and changes, and requests of any size.                  *)
(***************************************************************************)
EXTENDS BigoneCollector, TLAPS, FiniteSetTheorems, WellFoundedInduction

\* A nonempty set of numbers up to n has a last one.
LEMMA LastExists ==
    ASSUME NEW n \in Nat, NEW I \in SUBSET (1..n), I # {}
    PROVE  \E i \in I : \A j \in I : j <= i
<1> DEFINE R == OpToRel(<, Nat)
           T == {n - i : i \in I}
<1>1. IsWellFoundedOn(R, Nat)
  BY NatLessThanWellFounded
<1>2. \A a, b \in Nat : a < b => <<a, b>> \in R
  BY DEF OpToRel
<1> HIDE DEF R
<1>3. T \subseteq Nat
  OBVIOUS
<1>4. T # {}
  <2>1. PICK i \in I : TRUE
    OBVIOUS
  <2>2. n - i \in T
    OBVIOUS
  <2> QED BY <2>2
<1>5. \E x \in T : \A y \in T : <<y, x>> \notin R
  <2> HIDE DEF T
  <2> QED BY <1>1, <1>3, <1>4, WFMin
<1>6. PICK i \in I : \A y \in T : <<y, n - i>> \notin R
  BY <1>5
<1>7. ASSUME NEW j \in I PROVE j <= i
  <2>1. n - j \in T /\ n - i \in Nat /\ n - j \in Nat
    OBVIOUS
  <2>2. <<n - j, n - i>> \notin R
    BY <1>6, <2>1
  <2> HIDE DEF T
  <2>3. ~(n - j < n - i)
    BY <1>2, <2>1, <2>2
  <2> QED BY <2>3
<1> QED BY <1>7

-----------------------------------------------------------------------------
(* The buffer.                                                             *)

\* Queued commands are in order with what is in Redis and belong to the
\* present link, or to a collector that keeps its buffer.
Fresh(p, v) ==
    \A i \in DOMAIN p :
        /\ store[p[i].key] <= p[i].version /\ p[i].version <= v
        /\ prof.buffer.keep \/ since < p[i].version

BufferInv ==
    /\ pipe \in Seq(Commands) /\ cnt = Len(pipe) /\ cnt < PipelineBatch
    /\ version \in Versions /\ since \in Versions /\ since <= version
    /\ store \in [Keys -> Versions]
    /\ \A k \in Keys : store[k] <= version
    /\ Fresh(pipe, version)
    /\ pc = "pause" => prof.buffer.keep \/ pipe = <<>>
    /\ subs \subseteq Listed /\ prof \in Profiles

\* What a step may do to Redis.
Advances ==
    \A k \in Keys :
        /\ store'[k] >= store[k]
        /\ store'[k] # store[k] => store'[k] > since \/ prof.buffer.keep

\* After n commands each key has its old version or that of a command.
LEMMA WrittenValue ==
    ASSUME NEW p \in Seq(Commands), NEW n \in 0..Len(p), store \in [Keys -> Versions]
    PROVE  /\ Written(p, n) \in [Keys -> Versions]
           /\ \A k \in Keys :
                 \/ Written(p, n)[k] = store[k]
                 \/ \E i \in 1..n : p[i].key = k /\ Written(p, n)[k] = p[i].version
<1> DEFINE I(k) == {i \in 1..n : p[i].key = k}
           Last(k) == CHOOSE i \in I(k) : \A j \in I(k) : j <= i
<1>1. ASSUME NEW k \in Keys
      PROVE  Written(p, n)[k] = IF I(k) = {} THEN store[k] ELSE p[Last(k)].version
  BY DEF Written
<1>2. ASSUME NEW k \in Keys, I(k) # {}
      PROVE  Last(k) \in I(k)
  <2>1. I(k) \in SUBSET (1..n) /\ n \in Nat
    OBVIOUS
  <2>2. \E i \in I(k) : \A j \in I(k) : j <= i
    <3> HIDE DEF I
    <3> QED BY <1>2, <2>1, LastExists
  <2> HIDE DEF I
  <2> QED BY <2>2
<1>3. ASSUME NEW i \in 1..n PROVE p[i].version \in Versions
  <2>1. p[i] \in Commands
    OBVIOUS
  <2> QED BY <2>1 DEF Commands
<1>4. ASSUME NEW k \in Keys
      PROVE  /\ Written(p, n)[k] \in Versions
             /\ \/ Written(p, n)[k] = store[k]
                \/ \E i \in 1..n : p[i].key = k /\ Written(p, n)[k] = p[i].version
  <2>1. CASE I(k) = {}
    BY <1>1, <2>1
  <2>2. CASE I(k) # {}
    <3>1. Last(k) \in 1..n /\ p[Last(k)].key = k
      BY <1>2, <2>2
    <3>2. Written(p, n)[k] = p[Last(k)].version
      BY <1>1, <2>2
    <3> HIDE DEF Last
    <3> QED BY <1>3, <3>1, <3>2
  <2> QED BY <2>1, <2>2
<1>5. Written(p, n) = [k \in Keys |-> Written(p, n)[k]]
  BY DEF Written
<1> QED BY <1>4, <1>5

\* A partly successful execute moves keys forward, to frames of this link.
LEMMA ExecuteAdvances ==
    ASSUME NEW p \in Seq(Commands), NEW v \in Versions, store \in [Keys -> Versions],
           \A k \in Keys : store[k] <= v,
           Fresh(p, v), Execute(p), since \in Versions
    PROVE  /\ pipe' = <<>> /\ cnt' = 0
           /\ store' \in [Keys -> Versions]
           /\ \A k \in Keys : store'[k] <= v
           /\ Advances
<1>1. PICK n \in 0..Len(p) : store' = Written(p, n)
  BY DEF Execute
<1>2. ASSUME NEW k \in Keys
      PROVE  /\ store'[k] <= v /\ store'[k] >= store[k]
             /\ store'[k] # store[k] => store'[k] > since \/ prof.buffer.keep
  <2>1. store[k] \in Int /\ v \in Int
    BY DEF Versions
  <2>2. CASE store'[k] = store[k]
    BY <2>1, <2>2
  <2>3. ASSUME NEW i \in 1..n, p[i].key = k, store'[k] = p[i].version
        PROVE  /\ store'[k] <= v /\ store'[k] >= store[k]
               /\ store'[k] > since \/ prof.buffer.keep
    <3>1. i \in DOMAIN p /\ p[i] \in Commands
      OBVIOUS
    <3>2. p[i].version \in Int /\ since \in Int
      BY <3>1 DEF Commands, Versions
    <3> QED BY <2>1, <2>3, <3>1, <3>2 DEF Fresh
  <2> QED BY <1>1, <2>2, <2>3, WrittenValue
<1>3. store' \in [Keys -> Versions]
  BY <1>1, WrittenValue
<1> QED BY <1>2, <1>3 DEF Advances, Execute

\* Commands of the frame that is being stored.
NewCommands(cmds) ==
    /\ cmds \in Seq(Commands)
    /\ \A i \in DOMAIN cmds : cmds[i].version = version + 1

\* Storing a frame keeps the buffer in order, below its limit, and Redis moving on.
LEMMA StoreKeepsBuffer ==
    ASSUME BufferInv, NEW cmds, NewCommands(cmds), Store(cmds),
           version < MaxFrames, version' = version + 1,
           UNCHANGED <<prof, since, subs>>, pc # "pause", pc' = pc
    PROVE  BufferInv' /\ Advances
<1> DEFINE p == pipe \o cmds
<1>0. /\ version \in Int /\ version + 1 \in Versions /\ since \in Int /\ MaxFrames \in Nat
      /\ PipelineBatch \in Nat \ {0}
  BY CollectorAssumption DEF BufferInv, Versions
<1>1. p \in Seq(Commands) /\ Len(p) = Len(pipe) + Len(cmds)
  BY DEF BufferInv, NewCommands
<1>2. \A k \in Keys : store[k] \in Int /\ store[k] <= version + 1
  BY <1>0 DEF BufferInv, Versions
<1>3. ASSUME NEW i \in DOMAIN p
      PROVE  /\ store[p[i].key] <= p[i].version /\ p[i].version <= version + 1
             /\ prof.buffer.keep \/ since < p[i].version
  <2>1. CASE i \in DOMAIN pipe
    <3>1. p[i] = pipe[i] /\ pipe[i] \in Commands
      BY <2>1 DEF BufferInv, NewCommands
    <3>2. p[i].version \in Int
      BY <3>1 DEF Commands, Versions
    <3>3. /\ store[pipe[i].key] <= pipe[i].version /\ pipe[i].version <= version
          /\ prof.buffer.keep \/ since < pipe[i].version
      BY <2>1 DEF BufferInv, Fresh
    <3> QED BY <1>0, <3>1, <3>2, <3>3
  <2>2. CASE i \notin DOMAIN pipe
    <3>1. i - Len(pipe) \in DOMAIN cmds /\ p[i] = cmds[i - Len(pipe)]
      BY <1>1, <2>2 DEF BufferInv, NewCommands
    <3>2. p[i] \in Commands /\ p[i].version = version + 1
      BY <1>1, <3>1 DEF NewCommands
    <3>3. p[i].key \in Keys
      BY <3>2 DEF Commands
    <3>4. store[p[i].key] <= version + 1 /\ since <= version
      BY <1>2, <3>3 DEF BufferInv
    <3> QED BY <1>0, <3>2, <3>4
  <2> QED BY <2>1, <2>2
<1>4. CASE pipe' = p /\ cnt' = cnt + Len(cmds) /\ cnt' < PipelineBatch /\ UNCHANGED store
  <2> HIDE DEF p
  <2>1. /\ pipe' \in Seq(Commands) /\ cnt' = Len(pipe')
    BY <1>1, <1>4 DEF BufferInv
  <2>2. Fresh(pipe, version)'
    <3>1. ASSUME NEW i \in DOMAIN p
          PROVE  /\ store'[p[i].key] <= p[i].version /\ p[i].version <= version'
                 /\ prof'.buffer.keep \/ since' < p[i].version
      BY <1>3, <1>4
    <3> QED BY <1>4, <3>1 DEF Fresh
  <2>3. \A k \in Keys : store'[k] <= version'
    BY <1>2, <1>4
  <2>4. Advances
    BY <1>2, <1>4 DEF Advances
  <2> QED BY <1>0, <1>4, <2>1, <2>2, <2>3, <2>4 DEF BufferInv
<1>5. CASE Execute(p)
  <2>1. Fresh(p, version + 1)
    BY <1>3 DEF Fresh
  <2> HIDE DEF p
  <2>2. /\ pipe' = <<>> /\ cnt' = 0 /\ store' \in [Keys -> Versions]
        /\ \A k \in Keys : store'[k] <= version + 1
        /\ Advances
    BY <1>0, <1>1, <1>2, <1>5, <2>1, ExecuteAdvances DEF BufferInv
  <2> QED BY <1>0, <2>2 DEF BufferInv, Fresh
<1> QED BY <1>4, <1>5 DEF Store

\* A step that touches neither buffer nor link keeps both.
LEMMA BufferUntouched ==
    ASSUME BufferInv, UNCHANGED <<prof, bufferVars>>, pc' = "pause" => pc = "pause",
           subs' \subseteq Listed
    PROVE  BufferInv' /\ Advances
<1>1. Fresh(pipe, version)'
  BY DEF BufferInv, Fresh, bufferVars
<1>2. Advances
  BY DEF BufferInv, Advances, Versions, bufferVars
<1> QED BY <1>1, <1>2 DEF BufferInv, bufferVars

\* The commands of one market are new, whichever sides are there.
LEMMA SideCommandsNew ==
    ASSUME BufferInv, version < MaxFrames,
           NEW m \in MarketSet, NEW sides \in (SUBSET Sides) \ {{}}
    PROVE  NewCommands(SideCommands(m, sides))
<1> DEFINE order == IF sides = Sides THEN <<"bids", "asks">>
                                     ELSE <<CHOOSE s \in sides : TRUE>>
<1>1. version + 1 \in Versions
  BY CollectorAssumption DEF BufferInv, Versions
<1>2. (CHOOSE s \in sides : TRUE) \in Sides
  <2>1. \E s \in sides : TRUE
    OBVIOUS
  <2> QED BY <2>1
<1>3. order \in Seq(Sides) /\ DOMAIN order = 1..Len(order)
  <2>1. PICK c \in Sides : order = IF sides = Sides THEN <<"bids", "asks">> ELSE <<c>>
    BY <1>2
  <2>2. <<"bids", "asks">> \in Seq(Sides) /\ <<c>> \in Seq(Sides)
    BY DEF Sides
  <2> HIDE DEF order
  <2>3. order \in Seq(Sides)
    BY <2>1, <2>2
  <2> QED BY <2>3
<1>4. SideCommands(m, sides) =
        [i \in 1..Len(order) |-> [key |-> <<m, order[i]>>, version |-> version + 1]]
  BY <1>3 DEF SideCommands
<1> HIDE DEF order
<1>5. ASSUME NEW i \in 1..Len(order)
      PROVE  [key |-> <<m, order[i]>>, version |-> version + 1] \in Commands
  <2>1. order[i] \in Sides
    BY <1>3
  <2> QED BY <1>1, <2>1 DEF Commands, Keys
<1>6. Len(order) \in Nat
  BY <1>3
<1>7. SideCommands(m, sides) \in Seq(Commands)
  BY <1>4, <1>5, <1>6
<1>8. DOMAIN SideCommands(m, sides) = 1..Len(order)
  BY <1>4
<1> QED BY <1>4, <1>7, <1>8 DEF NewCommands

\* So are those of a frame, for each collector's rule on frames.
LEMMA FrameCommandsNew ==
    ASSUME BufferInv, version < MaxFrames, NEW cmds \in FrameCommands
    PROVE  NewCommands(cmds)
<1> DEFINE One == {SideCommands(m, s) : m \in subs \ bad,
                       s \in IF prof.frame.sides = "both" THEN {Sides}
                             ELSE (SUBSET Sides) \ {{}}}
<1>1. ASSUME NEW a \in One PROVE NewCommands(a)
  <2>1. PICK m \in subs, s \in (SUBSET Sides) \ {{}} : a = SideCommands(m, s)
    <3>1. Sides \in (SUBSET Sides) \ {{}}
      BY DEF Sides
    <3> QED BY <3>1
  <2>2. m \in MarketSet
    BY CollectorAssumption DEF BufferInv
  <2> QED BY <2>1, <2>2, SideCommandsNew
<1>2. cmds \in One \/ \E a \in One, b \in One : cmds = a \o b
  <2>1. FrameCommands = One \cup (IF prof.frame.rows = "many"
                                  THEN {a \o b : a \in One, b \in One} ELSE {})
    BY DEF FrameCommands
  <2> HIDE DEF One
  <2> QED BY <2>1
<1> HIDE DEF One
<1>3. ASSUME NEW a \in One, NEW b \in One, cmds = a \o b
      PROVE  NewCommands(cmds)
  <2>1. NewCommands(a) /\ NewCommands(b)
    BY <1>1
  <2>2. cmds \in Seq(Commands)
    BY <1>3, <2>1 DEF NewCommands
  <2>3. ASSUME NEW i \in DOMAIN cmds PROVE cmds[i].version = version + 1
    <3>1. \/ i \in DOMAIN a /\ cmds[i] = a[i]
          \/ i - Len(a) \in DOMAIN b /\ cmds[i] = b[i - Len(a)]
      BY <1>3, <2>1 DEF NewCommands
    <3> QED BY <2>1, <3>1 DEF NewCommands
  <2> QED BY <2>2, <2>3 DEF NewCommands
<1> QED BY <1>1, <1>2, <1>3

\* What Receive does to the buffer.
LEMMA ReceiveKeepsBuffer == BufferInv /\ Receive => BufferInv' /\ Advances
<1> SUFFICES ASSUME BufferInv, Receive PROVE BufferInv' /\ Advances
  OBVIOUS
<1>1. PICK cmds \in FrameCommands : Store(cmds)
  BY DEF Receive
<1>2. NewCommands(cmds)
  BY FrameCommandsNew DEF Receive
<1> QED BY <1>1, <1>2, StoreKeepsBuffer DEF Receive, requestVars

\* The end of a link: what is left is written, or kept by Binance's collector.
LEMMA CloseKeepsBuffer == BufferInv /\ Close => BufferInv' /\ Advances
<1> SUFFICES ASSUME BufferInv, Close PROVE BufferInv' /\ Advances
  OBVIOUS
<1>1. CASE prof.buffer.keep
  <2>1. Fresh(pipe, version)'
    BY <1>1 DEF BufferInv, Fresh, Close, FlushOnClose
  <2>2. Advances
    BY <1>1 DEF BufferInv, Advances, Versions, Close, FlushOnClose
  <2> QED BY <1>1, <2>1, <2>2 DEF BufferInv, Close, FlushOnClose
<1>2. CASE ~prof.buffer.keep
  <2>1. Execute(pipe)
    BY <1>2 DEF Close, FlushOnClose
  <2>2. /\ pipe' = <<>> /\ cnt' = 0 /\ store' \in [Keys -> Versions]
        /\ \A k \in Keys : store'[k] <= version
        /\ Advances
    BY <2>1, ExecuteAdvances DEF BufferInv
  <2> QED BY <2>2, CollectorAssumption DEF BufferInv, Fresh, Close
<1> QED BY <1>1, <1>2

\* A new link finds the buffer empty, but for Binance's.
LEMMA ConnectKeepsBuffer == BufferInv /\ Connect => BufferInv' /\ Advances
<1> SUFFICES ASSUME BufferInv, Connect PROVE BufferInv' /\ Advances
  OBVIOUS
<1>1. Fresh(pipe, version)'
  <2>1. prof.buffer.keep \/ pipe = <<>>
    BY DEF BufferInv, Connect
  <2> QED BY <2>1 DEF BufferInv, Fresh, Connect
<1>2. Advances
  BY DEF BufferInv, Advances, Versions, Connect
<1>3. version \in Int /\ pc' # "pause" /\ subs' \subseteq Listed
  BY DEF BufferInv, Versions, Connect
<1> QED BY <1>1, <1>2, <1>3 DEF BufferInv, Connect

\* A new process has an empty buffer; Redis is as it was.
LEMMA RestartKeepsBuffer == BufferInv /\ Restart => BufferInv' /\ Advances
<1> SUFFICES ASSUME BufferInv, Restart PROVE BufferInv' /\ Advances
  OBVIOUS
<1>1. Advances
  BY DEF BufferInv, Advances, Versions, Restart
<1> QED BY <1>1, CollectorAssumption DEF BufferInv, Fresh, Restart

\* The steps that leave the buffer alone.
LEMMA OthersKeepBuffer ==
    ASSUME BufferInv,
           \/ Send \/ Answer \/ Retry \/ Heartbeat
           \/ FallSilent \/ Resume \/ Break \/ GoQuiet \/ Pong
    PROVE  BufferInv' /\ Advances
<1>1. CASE Answer
  <2>1. UNCHANGED <<prof, bufferVars>>
    BY <1>1 DEF Answer, Accepted, Refused, ReadAnswer
  <2>2. subs' \subseteq Listed /\ (pc' = "pause" => pc = "pause")
    <3>1. pc = "reading" /\ \E r : Accept(r) \/ LogRefusal(r) \/ Drop(r) \/ Refuse(r)
      BY <1>1 DEF Answer, Accepted, Refused, ReadAnswer
    <3>2. \A r : KnownOf(r) \subseteq Listed
      BY DEF KnownOf
    <3>3. subs' \subseteq Listed
      BY <3>1, <3>2 DEF Accept, LogRefusal, Drop, Refuse, BufferInv
    <3>4. pc' \in {"reading", "retrying"}
      BY <3>1 DEF Accept, LogRefusal, Drop, Refuse, Blacklist, TakeApart
    <3> QED BY <3>3, <3>4
  <2> QED BY <2>1, <2>2, BufferUntouched
<1>2. CASE Send
  BY <1>2, BufferUntouched DEF Send, BufferInv
<1>3. CASE Retry
  BY <1>3, BufferUntouched DEF Retry, BufferInv
<1>4. CASE Heartbeat
  BY <1>4, BufferUntouched
  DEF Heartbeat, HeartbeatChecks, HeartbeatWakes, HeartbeatClosed, BufferInv, requestVars
<1>5. CASE FallSilent \/ Resume \/ Break \/ GoQuiet \/ Pong
  BY <1>5, BufferUntouched
  DEF FallSilent, Resume, Break, GoQuiet, Pong, BufferInv, requestVars
<1> QED BY <1>1, <1>2, <1>3, <1>4, <1>5

-----------------------------------------------------------------------------
(* BigONE's books.                                                         *)

\* The changes that may have set a side of m's book by change c.
Setters(m, s, c) ==
    {1} \cup {j \in 2..c : log[j - 1].market = m /\ log[j - 1].side = s}

\* A message speaks of a change that has been made, an update of one of its market.
Truthful(msg, l) ==
    /\ msg.id \in 1..(Len(l) + 1)
    /\ msg.kind = "update" => msg.id >= 2 /\ l[msg.id - 1].market = msg.market

BookInv ==
    /\ log \in Seq(Changes) /\ Len(log) <= MaxChanges
    /\ wire \in Seq(Messages) /\ \A i \in DOMAIN wire : Truthful(wire[i], log)
    /\ books \in [MarketSet -> Books]
    /\ \A m \in MarketSet : books[m].id <= Len(log) + 1
    /\ LocalBookExisted

\* Newest is what its name says.
LEMMA NewestIsLast ==
    ASSUME NEW n \in Nat, NEW I \in SUBSET (1..n), I # {}
    PROVE  Newest(I) \in I /\ \A j \in I : j <= Newest(I)
  BY LastExists DEF Newest

\* The order of the integers is antisymmetric.
LEMMA Antisymmetric == ASSUME NEW a \in Int, NEW b \in Int, a <= b, b <= a PROVE a = b
  OBVIOUS

\* A set of numbers has one last element.
LEMMA LastIsNewest ==
    ASSUME NEW n \in Nat, NEW I \in SUBSET (1..n), NEW x \in I, \A j \in I : j <= x
    PROVE  Newest(I) = x
<1>1. Newest(I) \in I /\ x <= Newest(I) /\ Newest(I) <= x
  BY NewestIsLast
<1>2. \A y \in I : y \in Int
  OBVIOUS
<1>3. Newest(I) \in Int /\ x \in Int
  BY <1>1, <1>2
<1> QED BY <1>1, <1>3, Antisymmetric

\* A side of a book at change c.
LEMMA RealBookSide ==
    ASSUME log \in Seq(Changes), Len(log) <= MaxChanges,
           NEW c \in 1..(Len(log) + 1), NEW m, NEW s \in Sides
    PROVE  /\ Setters(m, s, c) \in SUBSET (1..c)
           /\ Newest(Setters(m, s, c)) \in Setters(m, s, c)
           /\ RealBook(m, c)[s] =
                IF \/ Newest(Setters(m, s, c)) = 1
                   \/ log[Newest(Setters(m, s, c)) - 1].present
                THEN Newest(Setters(m, s, c)) ELSE 0
           /\ RealBook(m, c) \in [Sides -> Ids]
<1>1. ASSUME NEW t \in Sides
      PROVE  Setters(m, t, c) \in SUBSET (1..c) /\ Newest(Setters(m, t, c)) \in Setters(m, t, c)
  <2>1. Setters(m, t, c) \in SUBSET (1..c) /\ 1 \in Setters(m, t, c) /\ c \in Nat
    BY DEF Setters
  <2> QED BY <2>1, NewestIsLast
<1> DEFINE Level(t) == IF \/ Newest(Setters(m, t, c)) = 1
                         \/ log[Newest(Setters(m, t, c)) - 1].present
                      THEN Newest(Setters(m, t, c)) ELSE 0
<1>2. RealBook(m, c) = [t \in Sides |-> Level(t)]
  BY DEF RealBook, Setters
<1>3. ASSUME NEW t \in Sides PROVE Level(t) \in Ids
  <2>1. Newest(Setters(m, t, c)) \in 1..c
    BY <1>1
  <2>2. c <= MaxChanges + 1 /\ MaxChanges \in Nat
    BY BookAssumption
  <2> QED BY <2>1, <2>2 DEF Ids
<1>4. RealBook(m, c) \in [Sides -> Ids]
  <2> HIDE DEF Level
  <2> QED BY <1>2, <1>3
<1>5. RealBook(m, c)[s] = Level(s)
  <2> HIDE DEF Level
  <2> QED BY <1>2
<1> QED BY <1>1, <1>4, <1>5

\* A later change leaves the books before it as they were.
LEMMA RealBookStays ==
    ASSUME log \in Seq(Changes), NEW c \in 1..(Len(log) + 1), NEW m,
           NEW x, log' = Append(log, x)
    PROVE  RealBook(m, c)' = RealBook(m, c)
<1>1. ASSUME NEW i \in 1..(c - 1) PROVE log'[i] = log[i]
  OBVIOUS
<1>2. ASSUME NEW s \in Sides
      PROVE  /\ Setters(m, s, c)' = Setters(m, s, c)
             /\ Newest(Setters(m, s, c)) \in 1..c
  <2>1. ASSUME NEW j \in 2..c PROVE log'[j - 1] = log[j - 1]
    BY <1>1
  <2>2. Setters(m, s, c)' = Setters(m, s, c)
    BY <2>1 DEF Setters
  <2>3. Setters(m, s, c) \in SUBSET (1..c) /\ 1 \in Setters(m, s, c) /\ c \in Nat
    BY DEF Setters
  <2> QED BY <2>2, <2>3, NewestIsLast
<1>3. ASSUME NEW s \in Sides, NEW i \in 1..c
      PROVE  (i = 1 \/ log'[i - 1].present) <=> (i = 1 \/ log[i - 1].present)
  BY <1>1
<1>4. RealBook(m, c) = [s \in Sides |->
            LET i == Newest(Setters(m, s, c))
            IN IF i = 1 \/ log[i - 1].present THEN i ELSE 0]
  BY DEF RealBook, Setters
<1>5. RealBook(m, c)' = [s \in Sides |->
            LET i == Newest(Setters(m, s, c)')
            IN IF i = 1 \/ log'[i - 1].present THEN i ELSE 0]
  BY DEF RealBook, Setters, Newest
<1>6. ASSUME NEW s \in Sides
      PROVE  (LET i == Newest(Setters(m, s, c)') IN IF i = 1 \/ log'[i - 1].present THEN i ELSE 0)
           = (LET i == Newest(Setters(m, s, c)) IN IF i = 1 \/ log[i - 1].present THEN i ELSE 0)
  BY <1>2, <1>3
<1> QED BY <1>4, <1>5, <1>6

\* LastChange is a change up to c.
LEMMA LastChangeBefore ==
    ASSUME NEW c \in Nat, c >= 1, NEW m
    PROVE  /\ LastChange(m, c) \in 1..c
           /\ \A j \in 2..c : log[j - 1].market = m => j <= LastChange(m, c)
<1> DEFINE I == {1} \cup {i \in 2..c : log[i - 1].market = m}
<1>1. I \in SUBSET (1..c) /\ I # {}
  OBVIOUS
<1>2. Newest(I) \in I /\ \A j \in I : j <= Newest(I)
  <2> HIDE DEF I
  <2> QED BY <1>1, NewestIsLast
<1>3. LastChange(m, c) = Newest(I)
  BY DEF LastChange
<1> QED BY <1>1, <1>2, <1>3

\* The heart of the matter: an update that follows the book the worker has
\* makes of it the exchange's next one.
LEMMA ApplyIsReal ==
    ASSUME log \in Seq(Changes), Len(log) <= MaxChanges,
           NEW m \in MarketSet, NEW c \in 2..(Len(log) + 1), log[c - 1].market = m,
           NEW b \in Books, b.id = PreviousChange(m, c), b.sides = RealBook(m, b.id)
    PROVE  Apply(b, c) \in Books /\ Apply(b, c).id = c /\ Apply(b, c).sides = RealBook(m, c)
<1> DEFINE d == b.id
           t == log[c - 1].side
<1>1. d \in 1..(c - 1) /\ \A j \in 2..(c - 1) : log[j - 1].market = m => j <= d
  <2>1. c - 1 \in Nat /\ c - 1 >= 1
    OBVIOUS
  <2> QED BY <2>1, LastChangeBefore DEF PreviousChange
<1>2. log[c - 1] \in Changes /\ t \in Sides /\ log[c - 1].present \in BOOLEAN
  <2>1. log[c - 1] \in Changes
    OBVIOUS
  <2> QED BY <2>1 DEF Changes
<1>3. c \in 1..(Len(log) + 1) /\ d \in 1..(Len(log) + 1) /\ c \in Ids
  BY <1>1, BookAssumption DEF Ids
<1> HIDE DEF d
<1>4. ASSUME NEW s \in Sides, s # t
      PROVE  RealBook(m, c)[s] = RealBook(m, d)[s]
  <2>1. Setters(m, s, c) = Setters(m, s, d)
    <3>1. ASSUME NEW j \in 2..c, log[j - 1].market = m, log[j - 1].side = s
          PROVE  j \in 2..d
      <4>1. j # c
        BY <1>4, <3>1
      <4>2. j \in 2..(c - 1)
        BY <4>1
      <4> QED BY <1>1, <3>1, <4>2
    <3>2. ASSUME NEW j \in 2..d PROVE j \in 2..c
      BY <1>1
    <3> QED BY <3>1, <3>2 DEF Setters
  <2>2. RealBook(m, c)[s] =
          IF \/ Newest(Setters(m, s, c)) = 1
             \/ log[Newest(Setters(m, s, c)) - 1].present
          THEN Newest(Setters(m, s, c)) ELSE 0
    BY <1>3, RealBookSide
  <2>3. RealBook(m, d)[s] =
          IF \/ Newest(Setters(m, s, d)) = 1
             \/ log[Newest(Setters(m, s, d)) - 1].present
          THEN Newest(Setters(m, s, d)) ELSE 0
    BY <1>3, RealBookSide
  <2> QED BY <2>1, <2>2, <2>3
<1>5. RealBook(m, c)[t] = IF log[c - 1].present THEN c ELSE 0
  <2>1. Setters(m, t, c) \in SUBSET (1..c) /\ c \in Setters(m, t, c) /\ c \in Nat
    BY DEF Setters
  <2>2. \A j \in Setters(m, t, c) : j <= c
    BY <2>1
  <2>3. Newest(Setters(m, t, c)) = c
    <3> DEFINE I == Setters(m, t, c)
    <3> HIDE DEF I
    <3>1. I \in SUBSET (1..c) /\ c \in I /\ \A j \in I : j <= c
      BY <2>1, <2>2 DEF I
    <3>2. Newest(I) = c
      BY <2>1, <3>1, LastIsNewest
    <3> QED BY <3>2 DEF I
  <2> QED BY <1>2, <1>3, <2>3, RealBookSide
<1>6. Apply(b, c) = [id |-> c, sides |->
                        [b.sides EXCEPT ![t] = IF log[c - 1].present THEN c ELSE 0]]
  BY DEF Apply
<1>7. b.sides = RealBook(m, d) /\ b.sides \in [Sides -> Ids]
  BY DEF d, Books
<1>8. RealBook(m, c) \in [Sides -> Ids]
  BY <1>2, <1>3, RealBookSide
<1>9. [b.sides EXCEPT ![t] = IF log[c - 1].present THEN c ELSE 0] = RealBook(m, c)
  <2> HIDE DEF t
  <2> QED BY <1>2, <1>4, <1>5, <1>7, <1>8
<1>10. Apply(b, c) = [id |-> c, sides |-> RealBook(m, c)]
  BY <1>6, <1>9
<1> QED BY <1>3, <1>8, <1>10 DEF Books

-----------------------------------------------------------------------------
(* The invariants hold.                                                    *)

Inv == BufferInv /\ BookInv

\* The start: nothing queued, no books.
LEMMA InitEstablishes == BooksInit => Inv
<1> SUFFICES ASSUME BooksInit PROVE Inv
  OBVIOUS
<1>1. BufferInv
  BY CollectorAssumption DEF BooksInit, Init, BufferInv, Fresh, Versions
<1>2. NoBook \in Books /\ NoBook.id = 0
  BY BookAssumption DEF NoBook, Books, Ids
<1>3. \A m \in MarketSet : books[m] = NoBook
  BY DEF BooksInit
<1>4. LocalBookExisted
  BY <1>2, <1>3, CollectorAssumption DEF LocalBookExisted
<1>5. books \in [MarketSet -> Books]
  BY <1>2 DEF BooksInit
<1> HIDE DEF NoBook
<1> QED BY <1>1, <1>2, <1>3, <1>4, <1>5, BookAssumption DEF Inv, BookInv, BooksInit

\* Messages stay true and books real while the exchange goes on.
LEMMA ChangeBookKeeps == Inv /\ ChangeBook => Inv' /\ Advances
<1> SUFFICES ASSUME Inv, ChangeBook PROVE Inv' /\ Advances
  OBVIOUS
<1>1. BufferInv' /\ Advances
  BY BufferUntouched DEF Inv, BufferInv, ChangeBook, vars, bufferVars, requestVars
<1>2. PICK m \in Moving, s \in Sides, p \in BOOLEAN :
        /\ log' = Append(log, [market |-> m, side |-> s, present |-> p])
        /\ \/ UNCHANGED wire
           \/ /\ m \in subs
              /\ wire' = Append(wire, [kind |-> "update", market |-> m, id |-> Len(log) + 2])
  BY DEF ChangeBook
<1>3. /\ log \in Seq(Changes) /\ Len(log) < MaxChanges /\ m \in Listed
      /\ wire \in Seq(Messages)
  BY BookAssumption DEF Inv, BookInv, ChangeBook
<1>4. /\ log' \in Seq(Changes) /\ Len(log') = Len(log) + 1 /\ Len(log') <= MaxChanges
      /\ \A i \in 1..Len(log) : log'[i] = log[i]
      /\ log'[Len(log) + 1].market = m
  <2>1. [market |-> m, side |-> s, present |-> p] \in Changes
    BY <1>3 DEF Changes
  <2> QED BY <1>2, <1>3, <2>1, BookAssumption
<1>5. ASSUME NEW msg, Truthful(msg, log) PROVE Truthful(msg, log')
  <2>1. msg.id - 1 \in 1..Len(log) \/ msg.id = 1
    BY <1>3, <1>5 DEF Truthful
  <2> QED BY <1>3, <1>4, <1>5, <2>1 DEF Truthful
<1>6. wire' \in Seq(Messages) /\ \A i \in DOMAIN wire' : Truthful(wire'[i], log')
  <2> DEFINE u == [kind |-> "update", market |-> m, id |-> Len(log) + 2]
  <2>1. u \in Messages
    BY <1>3, BookAssumption DEF Messages, Ids
  <2>2. Truthful(u, log')
    <3>1. u.id = Len(log) + 2 /\ u.market = m /\ u.id - 1 = Len(log) + 1
      BY <1>3
    <3> HIDE DEF u
    <3> QED BY <1>3, <1>4, <3>1 DEF Truthful
  <2>3. ASSUME NEW i \in DOMAIN wire PROVE Truthful(wire[i], log')
    BY <1>5 DEF Inv, BookInv
  <2>4. CASE UNCHANGED wire
    BY <1>3, <2>3, <2>4
  <2>5. CASE wire' = Append(wire, u)
    <3> HIDE DEF u
    <3>1. wire' \in Seq(Messages)
      BY <1>3, <2>1, <2>5
    <3>2. ASSUME NEW i \in DOMAIN wire' PROVE Truthful(wire'[i], log')
      <4>1. (i \in DOMAIN wire /\ wire'[i] = wire[i]) \/ wire'[i] = u
        BY <1>3, <2>1, <2>5
      <4> QED BY <2>2, <2>3, <4>1
    <3> QED BY <3>1, <3>2
  <2> QED BY <1>2, <2>4, <2>5
<1>7. LocalBookExisted'
  <2>1. ASSUME NEW n \in Listed, books[n].id # 0
        PROVE  books[n].sides = RealBook(n, books[n].id)'
    <3>1. n \in MarketSet /\ books[n].id \in 1..(Len(log) + 1)
      BY <2>1, CollectorAssumption DEF Inv, BookInv, Books, Ids
    <3>2. RealBook(n, books[n].id)' = RealBook(n, books[n].id)
      <4>1. PICK c \in 1..(Len(log) + 1) : c = books[n].id
        BY <3>1
      <4>2. RealBook(n, c)' = RealBook(n, c)
        BY <1>2, <1>3, RealBookStays
      <4>3. RealBook(n, books[n].id)' = RealBook(n, c)'
        BY <4>1 DEF RealBook, Newest, ChangeBook
      <4> QED BY <4>1, <4>2, <4>3
    <3> QED BY <2>1, <3>2 DEF Inv, BookInv, LocalBookExisted
  <2> QED BY <2>1 DEF LocalBookExisted, ChangeBook
<1>8. UNCHANGED books /\ \A n \in MarketSet : books'[n].id <= Len(log') + 1
  <2>1. ASSUME NEW n \in MarketSet
        PROVE  books[n].id \in Int /\ books[n].id <= Len(log) + 1
    BY DEF Inv, BookInv, Books, Ids
  <2> QED BY <1>3, <1>4, <2>1 DEF ChangeBook
<1>9. books' \in [MarketSet -> Books]
  BY <1>8 DEF Inv, BookInv
<1> QED BY <1>1, <1>4, <1>6, <1>7, <1>8, <1>9 DEF Inv, BookInv

\* While nothing changes at the exchange its books stay what they are.
LEMMA BooksStayReal ==
    ASSUME UNCHANGED log,
           \A m \in Listed :
              books'[m].id # 0 => books'[m].sides = RealBook(m, books'[m].id)
    PROVE  LocalBookExisted'
<1>1. ASSUME NEW m \in Listed, books'[m].id # 0
      PROVE  books'[m].sides = RealBook(m, books[m].id)'
  <2>1. PICK c : c = books'[m].id
    OBVIOUS
  <2>2. RealBook(m, books[m].id)' = RealBook(m, c)'
    BY <2>1 DEF RealBook, Newest
  <2>3. RealBook(m, c)' = RealBook(m, c)
    <3>1. log' = log
      OBVIOUS
    <3> QED BY <3>1 DEF RealBook, Newest
  <2> QED BY <1>1, <2>1, <2>2, <2>3
<1> QED BY <1>1 DEF LocalBookExisted

\* A step that touches neither messages nor books keeps them.
LEMMA BooksUntouched ==
    ASSUME BookInv, UNCHANGED <<log, books>>,
           UNCHANGED wire \/ wire' = <<>>
    PROVE  BookInv'
<1>1. LocalBookExisted'
  BY BooksStayReal DEF BookInv, LocalBookExisted
<1>2. log' = log /\ books' = books /\ (wire' = wire \/ wire' = <<>>)
  OBVIOUS
<1>3. wire' \in Seq(Messages) /\ \A i \in DOMAIN wire' : Truthful(wire'[i], log)
  <2>1. wire \in Seq(Messages) /\ \A i \in DOMAIN wire : Truthful(wire[i], log)
    BY DEF BookInv
  <2>2. CASE wire' = wire
    BY <2>1, <2>2
  <2>3. CASE wire' = <<>>
    BY <2>3
  <2> QED BY <1>2, <2>2, <2>3
<1> QED BY <1>1, <1>2, <1>3 DEF BookInv

\* The answer to a request is the present book of its market.
LEMMA AcceptedKeeps == Inv /\ AcceptedWithSnapshot => Inv' /\ Advances
<1> SUFFICES ASSUME Inv, AcceptedWithSnapshot PROVE Inv' /\ Advances
  OBVIOUS
<1>1. BufferInv' /\ Advances
  BY OthersKeepBuffer DEF Inv, AcceptedWithSnapshot, Answer
<1>2. BookInv'
  <2> DEFINE m == Head(asked).markets[1]
             u == [kind |-> "snapshot", market |-> m, id |-> LastChange(m, Len(log) + 1)]
  <2>1. CASE UNCHANGED wire
    BY <2>1, BooksUntouched DEF Inv, AcceptedWithSnapshot
  <2>2. CASE m \in Listed /\ wire' = Append(wire, u)
    <3>1. Len(log) + 1 \in Nat /\ Len(log) + 1 >= 1 /\ Len(log) <= MaxChanges
      BY DEF Inv, BookInv
    <3>2. LastChange(m, Len(log) + 1) \in 1..(Len(log) + 1)
      BY <3>1, LastChangeBefore
    <3>3. u \in Messages /\ Truthful(u, log)
      BY <2>2, <3>1, <3>2, BookAssumption DEF Messages, Ids, Truthful
    <3> HIDE DEF u
    <3>4. wire' \in Seq(Messages)
      BY <2>2, <3>3 DEF Inv, BookInv
    <3>5. ASSUME NEW i \in DOMAIN wire' PROVE Truthful(wire'[i], log)
      <4>1. (i \in DOMAIN wire /\ wire'[i] = wire[i]) \/ wire'[i] = u
        BY <2>2, <3>3 DEF Inv, BookInv
      <4> QED BY <3>3, <4>1 DEF Inv, BookInv
    <3>6. UNCHANGED <<log, books>>
      BY DEF AcceptedWithSnapshot
    <3>7. LocalBookExisted'
      BY <3>6, BooksStayReal DEF Inv, BookInv, LocalBookExisted
    <3> QED BY <3>4, <3>5, <3>6, <3>7 DEF Inv, BookInv
  <2> QED BY <2>1, <2>2 DEF AcceptedWithSnapshot
<1> QED BY <1>1, <1>2 DEF Inv

\* A message changes one book, to a book the exchange had.
LEMMA ReceiveMessageKeeps == Inv /\ ReceiveMessage => Inv' /\ Advances
<1> SUFFICES ASSUME Inv, ReceiveMessage PROVE Inv' /\ Advances
  OBVIOUS
<1> DEFINE msg == Head(wire)
           m == msg.market
<1>1. /\ msg \in Messages /\ Truthful(msg, log) /\ m \in Listed /\ m \in MarketSet
      /\ wire \in Seq(Messages) /\ wire # <<>>
  <2>1. wire \in Seq(Messages) /\ wire # <<>>
    BY DEF Inv, BookInv, ReceiveMessage
  <2>2. msg = wire[1] /\ 1 \in DOMAIN wire /\ msg \in Messages
    BY <2>1
  <2>3. Truthful(msg, log)
    BY <2>2 DEF Inv, BookInv
  <2> QED BY <2>1, <2>2, <2>3, CollectorAssumption DEF Messages
<1>2. /\ UNCHANGED <<prof, pc, since, subs, log>> /\ wire' = Tail(wire)
      /\ pc = "reading" /\ version < MaxFrames
  BY DEF ReceiveMessage, requestVars
<1>3. TakeSnapshot(msg) \/ TakeUpdate(msg)
  BY DEF ReceiveMessage
<1> HIDE DEF msg
<1>4. ASSUME WriteTop5(m) PROVE BufferInv' /\ Advances
  <2>1. CASE Store(SideCommands(m, Sides)) /\ version' = version + 1
    <3>1. Sides \in (SUBSET Sides) \ {{}}
      BY DEF Sides
    <3>2. NewCommands(SideCommands(m, Sides))
      BY <1>1, <1>2, <3>1, SideCommandsNew DEF Inv
    <3> QED BY <1>2, <2>1, <3>2, StoreKeepsBuffer DEF Inv
  <2>2. CASE UNCHANGED <<pipe, cnt, store, version>>
    BY <1>2, <2>2, BufferUntouched DEF Inv, BufferInv, bufferVars
  <2> QED BY <1>4, <2>1, <2>2 DEF WriteTop5
<1>5. ASSUME UNCHANGED <<pipe, cnt, store, version>> PROVE BufferInv' /\ Advances
  BY <1>2, <1>5, BufferUntouched DEF Inv, BufferInv, bufferVars
<1>6. BufferInv' /\ Advances
  BY <1>3, <1>4, <1>5 DEF TakeSnapshot, TakeUpdate
<1>7. ASSUME NEW b \in Books, b.id \in 1..(Len(log) + 1), b.sides = RealBook(m, b.id),
             books' = [books EXCEPT ![m] = b]
      PROVE  BookInv'
  <2>1. books' \in [MarketSet -> Books] /\ \A n \in MarketSet : books'[n].id <= Len(log) + 1
    BY <1>1, <1>7 DEF Inv, BookInv
  <2>2. ASSUME NEW n \in Listed, books'[n].id # 0
        PROVE  books'[n].sides = RealBook(n, books'[n].id)
    <3>1. n \in MarketSet
      BY CollectorAssumption
    <3>2. CASE n = m
      BY <1>1, <1>7, <3>2 DEF Inv, BookInv
    <3>3. CASE n # m
      BY <1>7, <2>2, <3>1, <3>3 DEF Inv, BookInv, LocalBookExisted
    <3> QED BY <3>2, <3>3
  <2>3. LocalBookExisted'
    BY <1>2, <2>2, BooksStayReal
  <2>4. wire' \in Seq(Messages) /\ \A i \in DOMAIN wire' : Truthful(wire'[i], log)
    <3>1. wire' \in Seq(Messages)
      BY <1>1, <1>2
    <3>2. ASSUME NEW i \in DOMAIN wire' PROVE Truthful(wire'[i], log)
      <4>1. i + 1 \in DOMAIN wire /\ wire'[i] = wire[i + 1]
        BY <1>1, <1>2
      <4> QED BY <4>1 DEF Inv, BookInv
    <3> QED BY <3>1, <3>2
  <2> QED BY <1>2, <2>1, <2>3, <2>4 DEF Inv, BookInv
<1>8. ASSUME UNCHANGED books PROVE BookInv'
  <2>1. wire' \in Seq(Messages) /\ \A i \in DOMAIN wire' : Truthful(wire'[i], log)
    <3>1. wire' \in Seq(Messages)
      BY <1>1, <1>2
    <3>2. ASSUME NEW i \in DOMAIN wire' PROVE Truthful(wire'[i], log)
      <4>1. i + 1 \in DOMAIN wire /\ wire'[i] = wire[i + 1]
        BY <1>1, <1>2
      <4> QED BY <4>1 DEF Inv, BookInv
    <3> QED BY <3>1, <3>2
  <2>2. LocalBookExisted'
    BY <1>2, <1>8, BooksStayReal DEF Inv, BookInv, LocalBookExisted
  <2> QED BY <1>2, <1>8, <2>1, <2>2 DEF Inv, BookInv
<1>9. CASE TakeSnapshot(msg)
  <2> DEFINE b == [id |-> msg.id, sides |-> RealBook(m, msg.id)]
  <2>1. msg.id \in 1..(Len(log) + 1) /\ log \in Seq(Changes) /\ Len(log) <= MaxChanges
    BY <1>1 DEF Truthful, Inv, BookInv
  <2>2. RealBook(m, msg.id) \in [Sides -> Ids] /\ msg.id \in Ids
    <3>1. "bids" \in Sides
      BY DEF Sides
    <3> QED BY <1>1, <2>1, <3>1, RealBookSide DEF Messages
  <2>3. b \in Books /\ b.id = msg.id /\ b.sides = RealBook(m, b.id)
    BY <2>2 DEF Books
  <2>4. books' = [books EXCEPT ![m] = b]
    BY <1>9 DEF TakeSnapshot
  <2> HIDE DEF b
  <2> QED BY <1>6, <1>7, <2>1, <2>3, <2>4 DEF Inv
<1>10. CASE TakeUpdate(msg) /\ ~UNCHANGED books
  <2> DEFINE b == Apply(books[m], msg.id)
  <2>1. /\ msg.id > books[m].id /\ PreviousChange(m, msg.id) = books[m].id
        /\ books' = [books EXCEPT ![m] = b]
    BY <1>1, <1>10 DEF TakeUpdate, Inv, BookInv
  <2>2. books[m] \in Books /\ log \in Seq(Changes) /\ Len(log) <= MaxChanges
    BY <1>1 DEF Inv, BookInv
  <2>3. CASE msg.kind = "update"
    <3>1. msg.id \in 2..(Len(log) + 1) /\ log[msg.id - 1].market = m
      BY <1>1, <2>3 DEF Truthful
    <3>2. books[m].id # 0
      <4>1. msg.id - 1 \in Nat /\ msg.id - 1 >= 1
        BY <3>1
      <4>2. PreviousChange(m, msg.id) \in 1..(msg.id - 1)
        BY <4>1, LastChangeBefore DEF PreviousChange
      <4> QED BY <2>1, <4>2
    <3>3. books[m].sides = RealBook(m, books[m].id)
      BY <1>1, <3>2 DEF Inv, BookInv, LocalBookExisted
    <3>4. b \in Books /\ b.id = msg.id /\ b.sides = RealBook(m, b.id)
      BY <1>1, <2>1, <2>2, <3>1, <3>3, ApplyIsReal
    <3>5. b.id \in 1..(Len(log) + 1)
      BY <3>1, <3>4
    <3> HIDE DEF b
    <3> QED BY <1>6, <1>7, <2>1, <3>4, <3>5 DEF Inv
  <2>4. CASE msg.kind # "update"
    BY <1>1, <1>9, <2>4 DEF ReceiveMessage, Messages, msg
  <2> QED BY <2>3, <2>4
<1> QED BY <1>3, <1>6, <1>8, <1>9, <1>10 DEF Inv

\* Every step keeps the invariant and moves Redis only forward.
LEMMA StepKeeps == Inv /\ [BooksNext]_allVars => Inv' /\ (Advances \/ UNCHANGED store)
<1> SUFFICES ASSUME Inv, [BooksNext]_allVars PROVE Inv' /\ (Advances \/ UNCHANGED store)
  OBVIOUS
<1>1. CASE ChangeBook \/ ReceiveMessage \/ AcceptedWithSnapshot
  BY <1>1, ChangeBookKeeps, ReceiveMessageKeeps, AcceptedKeeps
<1>2. CASE BeginResub \/ SendResub \/ DiscardMark
  <2>1. UNCHANGED <<prof, pc, bufferVars, subs, log, wire, books>>
    BY <1>2 DEF BeginResub, SendResub, DiscardMark, requestVars
  <2>2. BufferInv' /\ Advances
    BY <2>1, BufferUntouched DEF Inv, BufferInv
  <2> QED BY <2>1, <2>2, BooksUntouched DEF Inv
<1>3. CASE ConnectWithoutBooks \/ RestartWithoutBooks
  <2>1. BufferInv' /\ Advances
    BY <1>3, ConnectKeepsBuffer, RestartKeepsBuffer
    DEF Inv, ConnectWithoutBooks, RestartWithoutBooks
  <2>2. /\ UNCHANGED log /\ wire' = <<>> /\ books' = [m \in MarketSet |-> NoBook]
    BY <1>3 DEF ConnectWithoutBooks, RestartWithoutBooks
  <2>3. NoBook \in Books /\ NoBook.id = 0
    BY BookAssumption DEF NoBook, Books, Ids
  <2>4. LocalBookExisted'
    BY <2>2, <2>3, CollectorAssumption DEF LocalBookExisted
  <2> HIDE DEF NoBook
  <2> QED BY <2>1, <2>2, <2>3, <2>4 DEF Inv, BookInv
<1>4. CASE CloseWire
  BY <1>4, CloseKeepsBuffer, BooksUntouched DEF Inv, CloseWire
<1>5. CASE CheckWithoutMarks
  BY <1>5, OthersKeepBuffer, BooksUntouched DEF Inv, CheckWithoutMarks, Heartbeat, bookVars
<1>6. CASE Receive /\ UNCHANGED bookVars
  BY <1>6, ReceiveKeepsBuffer, BooksUntouched DEF Inv, bookVars
<1>7. CASE /\ Send \/ Refused \/ Retry \/ HeartbeatWakes \/ HeartbeatClosed
              \/ FallSilent \/ Resume \/ Break \/ GoQuiet \/ Pong
           /\ UNCHANGED bookVars
  BY <1>7, OthersKeepBuffer, BooksUntouched DEF Inv, Heartbeat, Answer, bookVars
<1>8. CASE UNCHANGED allVars
  <2>1. BufferInv'
    BY <1>8 DEF allVars, vars, bufferVars, requestVars, Inv, BufferInv, Fresh
  <2>2. BookInv' /\ UNCHANGED store
    BY <1>8, BooksUntouched DEF allVars, vars, bookVars, bufferVars, Inv
  <2> QED BY <2>1, <2>2 DEF Inv
<1> QED BY <1>1, <1>2, <1>3, <1>4, <1>5, <1>6, <1>7, <1>8
        DEF BooksNext, BookSteps, WorkerSteps, RefusedWithoutSnapshot

\* The invariant holds for ever.
LEMMA Invariance == BooksSpec => []Inv
<1>1. BooksInit => Inv
  BY InitEstablishes
<1>2. Inv /\ [BooksNext]_allVars => Inv'
  BY StepKeeps
<1> QED BY <1>1, <1>2, PTL DEF BooksSpec

\* The pipeline of each collector stays below its limit between callbacks, for
\* any limit, any number of sides in a frame and whatever execute() manages.
THEOREM BufferStaysBounded == BooksSpec => []BufferIsBounded
<1>1. Inv => BufferIsBounded
  BY DEF Inv, BufferInv, BufferIsBounded
<1> QED BY <1>1, Invariance, PTL

\* No key of Redis goes back to an older frame, over any number of links,
\* restarts and failed writes.
THEOREM RedisMovesForward == BooksSpec => StoredNeverOlder
<1>1. Inv /\ [BooksNext]_allVars => [\A k \in Keys : store'[k] >= store[k]]_vars
  <2> SUFFICES ASSUME Inv, [BooksNext]_allVars
               PROVE  \A k \in Keys : store'[k] >= store[k]
    OBVIOUS
  <2>1. CASE Advances
    BY <2>1 DEF Advances
  <2>2. CASE UNCHANGED store
    BY <2>2 DEF Inv, BufferInv, Versions
  <2> QED BY <2>1, <2>2, StepKeeps
<1> QED BY <1>1, Invariance, PTL DEF BooksSpec, StoredNeverOlder

\* What an earlier link brought is never written once a later link is made, but
\* by the collector that keeps its buffer.
THEOREM LinksDoNotMix == BooksSpec => NothingFromEarlierLink
<1>1. Inv /\ [BooksNext]_allVars =>
        [\A k \in Keys :
            store'[k] # store[k] => store'[k] > since \/ prof.buffer.keep]_vars
  BY StepKeeps DEF Advances
<1> QED BY <1>1, Invariance, PTL DEF BooksSpec, NothingFromEarlierLink

\* A local BigONE book is always one the exchange had, for any number of markets
\* and changes, whatever updates are left out.
THEOREM LocalBooksAreReal == BooksSpec => []LocalBookExisted
<1>1. Inv => LocalBookExisted
  BY DEF Inv, BookInv
<1> QED BY <1>1, Invariance, PTL

-----------------------------------------------------------------------------
(* Lists of markets.                                                       *)

\* A market is in a list of them.
In(m, s) == \E i \in DOMAIN s : s[i] = m

\* Filtered keeps exactly the entries in the set: by their rank, the positions
\* that stay are as many as the new list is long, and each rank is taken once.
LEMMA FilteredFacts ==
    ASSUME NEW T, NEW s \in Seq(T), NEW S
    PROVE  /\ Filtered(s, S) \in Seq(T)
           /\ \A m : In(m, s) /\ m \in S => In(m, Filtered(s, S))
           /\ \A m : In(m, Filtered(s, S)) => In(m, s)
<1> DEFINE P == {i \in DOMAIN s : s[i] \in S}
           Upto(i) == {j \in P : j <= i}
           c == Cardinality(P)
           rank == [i \in P |-> Cardinality(Upto(i))]
           Place(n) == CHOOSE i \in P : Cardinality(Upto(i)) = n
<1>1. DOMAIN s = 1..Len(s) /\ Len(s) \in Nat
  OBVIOUS
<1>2. P \subseteq 1..Len(s) /\ IsFiniteSet(1..Len(s)) /\ P \subseteq Int
  BY <1>1, FS_Interval
<1>3. IsFiniteSet(P) /\ c \in Nat
  <2> HIDE DEF P
  <2>1. IsFiniteSet(P)
    BY <1>2, FS_Subset
  <2>2. QED
    BY <2>1, FS_CardinalityType
<1>4. ASSUME NEW i \in P
      PROVE  /\ IsFiniteSet(Upto(i)) /\ Cardinality(Upto(i)) \in 1..c
  <2>1. Upto(i) \in SUBSET P /\ i \in Upto(i)
    BY <1>2
  <2> HIDE DEF P, Upto
  <2>2. IsFiniteSet(Upto(i)) /\ Cardinality(Upto(i)) <= c
    BY <1>3, <2>1, FS_Subset
  <2>3. Cardinality(Upto(i)) \in Nat /\ Cardinality(Upto(i)) # 0
    BY <2>1, <2>2, FS_CardinalityType, FS_EmptySet
  <2>4. QED
    BY <1>3, <2>2, <2>3
<1>5. ASSUME NEW i \in P, NEW k \in P, i < k
      PROVE  Cardinality(Upto(i)) # Cardinality(Upto(k))
  <2>1. Upto(i) \in SUBSET Upto(k) /\ k \in Upto(k) /\ k \notin Upto(i)
    BY <1>2, <1>5
  <2> HIDE DEF P, Upto
  <2>2. QED
    BY <1>4, <2>1, FS_Subset
<1>6. \A i, k \in P : Cardinality(Upto(i)) = Cardinality(Upto(k)) => i = k
  <2>1. ASSUME NEW i \in P, NEW k \in P, i # k PROVE i < k \/ k < i
    BY <1>2, <2>1
  <2> HIDE DEF P, Upto
  <2>2. QED
    BY <1>5, <2>1
<1>7. rank \in Injection(P, 1..c)
  <2> HIDE DEF P, Upto, c
  <2>1. rank \in [P -> 1..c]
    BY <1>4
  <2>2. QED
    BY <1>6, <2>1 DEF Injection, IsInjective
<1>8. rank \in Surjection(P, 1..c)
  <2> HIDE DEF P, rank
  <2>1. Cardinality(1..c) = c /\ IsFiniteSet(1..c)
    BY <1>3, FS_Interval
  <2>2. QED
    BY <1>7, <2>1, FS_Injection
<1>9. ASSUME NEW n \in 1..c
      PROVE  Place(n) \in P /\ Cardinality(Upto(Place(n))) = n
  <2>1. \E i \in P : rank[i] = n
    <3> HIDE DEF P, rank
    <3>1. QED
      BY <1>8 DEF Surjection
  <2>2. \E i \in P : Cardinality(Upto(i)) = n
    <3> HIDE DEF P, Upto
    <3>1. QED
      BY <2>1
  <2>3. QED
    <3> HIDE DEF P, Upto
    <3>1. QED
      BY <2>2
<1>10. Filtered(s, S) = [n \in 1..c |-> s[Place(n)]]
  BY DEF Filtered
<1>11. ASSUME NEW n \in 1..c PROVE s[Place(n)] \in T
  <2>1. Place(n) \in P
    <3> HIDE DEF P, Upto, Place
    <3> QED BY <1>9
  <2> HIDE DEF Place
  <2>2. Place(n) \in DOMAIN s
    BY <2>1
  <2>3. \A i \in DOMAIN s : s[i] \in T
    BY <1>1
  <2> QED BY <2>2, <2>3
<1>12. Filtered(s, S) \in Seq(T)
  <2> HIDE DEF P, c, Place
  <2>1. QED
    BY <1>3, <1>10, <1>11
<1>13. ASSUME NEW i \in DOMAIN s, s[i] \in S
       PROVE  \E n \in DOMAIN Filtered(s, S) : Filtered(s, S)[n] = s[i]
  <2>1. i \in P
    BY <1>13
  <2> DEFINE n == Cardinality(Upto(i))
  <2>2. n \in 1..c
    BY <1>4, <2>1
  <2>3. Place(n) \in P /\ Cardinality(Upto(Place(n))) = n
    <3> HIDE DEF n, Place, P, Upto
    <3>1. QED
      BY <1>9, <2>2
  <2>4. Place(n) = i
    <3> HIDE DEF Place, P, Upto
    <3>1. QED
      BY <1>6, <2>1, <2>3
  <2> HIDE DEF n, Place, P, c, Upto
  <2>5. QED
    BY <1>10, <2>2, <2>4
<1>14. ASSUME NEW m, In(m, s), m \in S PROVE In(m, Filtered(s, S))
  <2>1. PICK i \in DOMAIN s : s[i] = m
    BY <1>14 DEF In
  <2> HIDE DEF P
  <2> QED BY <1>13, <1>14, <2>1 DEF In
<1>15. ASSUME NEW m, In(m, Filtered(s, S)) PROVE In(m, s)
  <2>1. PICK n \in 1..c : s[Place(n)] = m
    <3> HIDE DEF P, c, Place
    <3> QED BY <1>10, <1>15 DEF In
  <2>2. Place(n) \in DOMAIN s
    <3>1. Place(n) \in P
      <4> HIDE DEF P, Upto, Place
      <4> QED BY <1>9
    <3> HIDE DEF Place
    <3> QED BY <3>1
  <2> HIDE DEF Place
  <2> QED BY <2>1, <2>2 DEF In
<1>16. QED
  BY <1>12, <1>14, <1>15

\* Division rounds down.
LEMMA Quotient ==
    ASSUME NEW a \in Nat, NEW b \in Nat \ {0}
    PROVE  /\ a \div b \in Nat
           /\ (a \div b) * b <= a
           /\ a < (a \div b) * b + b
OBVIOUS

\* Larger numbers have no smaller quotient.
LEMMA QuotientGrows ==
    ASSUME NEW a \in Nat, NEW b \in Nat \ {0}, NEW q \in Nat, q * b <= a
    PROVE  q <= a \div b
<1>1. /\ a \div b \in Nat
      /\ (a \div b) * b <= a
      /\ a < (a \div b) * b + b
  BY Quotient
<1> DEFINE d == a \div b
<1> HIDE DEF d
<1>2. QED
  BY <1>1

\* A stretch of a list.
LEMMA StretchFacts ==
    ASSUME NEW T, NEW s \in Seq(T), NEW a \in Nat, NEW b \in Nat, b <= Len(s)
    PROVE  LET u == SubSeq(s, a + 1, b)
           IN  /\ u \in Seq(T)
               /\ \A p \in (a + 1)..b : p - a \in DOMAIN u /\ u[p - a] = s[p]
<1> DEFINE u == SubSeq(s, a + 1, b)
<1>1. u \in Seq(T)
  OBVIOUS
<1>2. ASSUME NEW p \in (a + 1)..b
      PROVE  p - a \in DOMAIN u /\ u[p - a] = s[p]
  <2>1. a < b /\ p - a \in 1..(b - a)
    OBVIOUS
  <2>2. DOMAIN u = 1..(b - a)
    BY <2>1
  <2>3. \A i \in 1..(b - a) : u[i] = s[i + a]
    BY <2>1
  <2>4. p - a + a = p
    OBVIOUS
  <2> HIDE DEF u
  <2> QED BY <2>1, <2>2, <2>3, <2>4
<1>3. QED
  BY <1>1, <1>2

\* The chunks of a list cover it.
LEMMA RequestsFacts ==
    ASSUME prof \in Profiles, NEW s \in Seq(MarketSet)
    PROVE  /\ Requests(s) \in Seq(Seq(MarketSet))
           /\ prof.subscribe.requests # "library" =>
                \A p \in DOMAIN s : Among(s[p], Requests(s))
<1>1. prof.subscribe.requests \in {"single", "batch", "library"}
  BY CollectorAssumption DEF Profile, SubscribeRules
<1>2. RequestSize \in Nat \ {0} /\ DOMAIN s = 1..Len(s) /\ Len(s) \in Nat
  BY CollectorAssumption
<1>3. CASE prof.subscribe.requests = "library"
  <2>1. Requests(s) = <<>>
    BY <1>3 DEF Requests
  <2> QED BY <1>3, <2>1
<1>4. CASE prof.subscribe.requests = "single"
  <2>1. Requests(s) = [i \in 1..Len(s) |-> <<s[i]>>]
    BY <1>2, <1>4 DEF Requests
  <2>2. ASSUME NEW i \in 1..Len(s) PROVE <<s[i]>> \in Seq(MarketSet)
    <3>1. s[i] \in MarketSet
      BY <1>2
    <3> HIDE DEF MarketSet
    <3> QED BY <3>1
  <2>3. ASSUME NEW i \in 1..Len(s) PROVE Among(s[i], Requests(s))
    <3>1. i \in DOMAIN Requests(s) /\ Requests(s)[i] = <<s[i]>>
      BY <2>1
    <3>2. 1 \in DOMAIN <<s[i]>> /\ <<s[i]>>[1] = s[i]
      OBVIOUS
    <3> QED BY <3>1, <3>2 DEF Among
  <2> HIDE DEF MarketSet
  <2> QED BY <1>2, <2>1, <2>2, <2>3
<1>5. CASE prof.subscribe.requests = "batch"
  <2> DEFINE R == RequestSize
             n == (Len(s) + R - 1) \div R
             end(i) == IF i * R < Len(s) THEN i * R ELSE Len(s)
             chunk(i) == SubSeq(s, (i - 1) * R + 1, end(i))
  <2>1. Requests(s) = [i \in 1..n |-> chunk(i)]
    BY <1>5 DEF Requests
  <2>2. n \in Nat
    BY <1>2, Quotient
  <2>3. ASSUME NEW i \in 1..n
        PROVE  /\ (i - 1) * R \in Nat /\ end(i) \in Nat /\ end(i) <= Len(s)
               /\ chunk(i) \in Seq(MarketSet)
               /\ \A p \in ((i - 1) * R + 1)..end(i) :
                    /\ p - (i - 1) * R \in DOMAIN chunk(i)
                    /\ chunk(i)[p - (i - 1) * R] = s[p]
    <3>1. i - 1 \in Nat /\ i \in Nat
      BY <2>2
    <3>2. (i - 1) * R \in Nat /\ i * R \in Nat
      BY <1>2, <3>1
    <3>3. end(i) \in Nat /\ end(i) <= Len(s)
      BY <1>2, <3>2
    <3> DEFINE a == (i - 1) * R
               b == end(i)
    <3> HIDE DEF a, b, MarketSet
    <3>4. a \in Nat /\ b \in Nat /\ b <= Len(s)
      BY <3>2, <3>3 DEF a, b
    <3>5. LET u == SubSeq(s, a + 1, b)
          IN  /\ u \in Seq(MarketSet)
              /\ \A p \in (a + 1)..b : p - a \in DOMAIN u /\ u[p - a] = s[p]
      BY <3>4, StretchFacts
    <3>6. chunk(i) = SubSeq(s, a + 1, b)
      BY DEF a, b
    <3> HIDE DEF chunk, end
    <3>7. /\ chunk(i) \in Seq(MarketSet)
          /\ \A p \in (a + 1)..b : p - a \in DOMAIN chunk(i) /\ chunk(i)[p - a] = s[p]
      BY <3>5, <3>6
    <3> QED BY <3>2, <3>3, <3>7 DEF a, b
  <2>4. ASSUME NEW p \in 1..Len(s) PROVE Among(s[p], Requests(s))
    <3> DEFINE q == (p - 1) \div R
               k == q * R
               i == q + 1
    <3>1. p - 1 \in Nat /\ Len(s) + R - 1 \in Nat
      BY <1>2
    <3>2. q \in Nat /\ k <= p - 1 /\ p - 1 < k + R
      BY <1>2, <3>1, Quotient
    <3>3. k \in Nat /\ i * R = k + R /\ (i - 1) * R = k /\ i - 1 = q
      <4> HIDE DEF q
      <4> QED BY <1>2, <3>2
    <3>4. i * R <= Len(s) + R - 1
      <4> HIDE DEF k, i
      <4> QED BY <1>2, <3>2, <3>3
    <3>5. i \in 1..n
      <4>1. i \in Nat /\ i >= 1
        <5> HIDE DEF q
        <5> QED BY <3>2
      <4> HIDE DEF i
      <4>2. i <= n
        BY <1>2, <3>1, <3>4, <4>1, QuotientGrows
      <4> HIDE DEF n
      <4> QED BY <2>2, <4>1, <4>2
    <3>6. p \in (k + 1)..end(i)
      <4>1. k \in Nat /\ i * R = k + R /\ k <= p - 1 /\ p - 1 < k + R
        BY <3>2, <3>3
      <4> HIDE DEF k, i
      <4> QED BY <1>2, <4>1
    <3>7. p - k \in DOMAIN chunk(i) /\ chunk(i)[p - k] = s[p]
      <4>1. (i - 1) * R = k
        BY <3>3
      <4> HIDE DEF k, i, chunk, end, n
      <4> QED BY <2>3, <3>5, <3>6, <4>1
    <3>8. i \in DOMAIN Requests(s) /\ Requests(s)[i] = chunk(i)
      <4> HIDE DEF i, chunk, n
      <4> QED BY <2>1, <3>5
    <3> HIDE DEF i, chunk, k
    <3> QED BY <3>7, <3>8 DEF Among
  <2>5. Requests(s) \in Seq(Seq(MarketSet))
    <3> HIDE DEF n, chunk, end, MarketSet
    <3>1. \A i \in 1..n : chunk(i) \in Seq(MarketSet)
      BY <2>3
    <3> QED BY <2>1, <2>2, <3>1
  <2> QED BY <1>2, <2>4, <2>5
<1> QED BY <1>1, <1>3, <1>4, <1>5

Lists == Seq(MarketSet)

-----------------------------------------------------------------------------
(* Requests.                                                               *)

\* What is asked, who is asking, and for which markets.
RequestInv ==
    /\ pc \in {"pause", "opening", "reading", "retrying"}
    /\ link \in {"none", "up", "silent", "down"} /\ quiet \in BOOLEAN
    /\ hb \in {"none", "check", "wait", "closing", "resub", "discard"}
    /\ hbStop \in BOOLEAN
    /\ prof \in Profiles
    /\ todo \in Seq(Lists) /\ asked \in Seq(Asks) /\ lost \subseteq Listed
    /\ wanted \in Lists /\ retry \in Lists /\ again \in Lists
    /\ bad \subseteq MarketSet /\ need \subseteq MarketSet
    /\ pc = "opening" => todo # <<>>
    /\ hb \in {"resub", "discard"} => again # <<>>
    /\ OnlyUnknownDropped
    /\ NoMarketForgotten

\* What the provers need to know of lists once they are not unfolded.
LEMMA ListFacts ==
    ASSUME NEW T, NEW s \in Seq(T)
    PROVE  /\ s # <<>> => /\ Head(s) \in T /\ Tail(s) \in Seq(T)
                          /\ \A m : In(m, s) => m = Head(s) \/ In(m, Tail(s))
           /\ \A e \in T : /\ Append(s, e) \in Seq(T) /\ In(e, Append(s, e))
                           /\ \A m : In(m, s) => In(m, Append(s, e))
           /\ \A u \in Seq(T) : /\ s \o u \in Seq(T)
                                /\ \A m : In(m, s) \/ In(m, u) => In(m, s \o u)
<1>1. ASSUME s # <<>>
      PROVE  /\ Head(s) \in T /\ Tail(s) \in Seq(T)
             /\ \A m : In(m, s) => m = Head(s) \/ In(m, Tail(s))
  <2>1. Head(s) \in T /\ Tail(s) \in Seq(T)
    BY <1>1
  <2>2. ASSUME NEW i \in DOMAIN s, i # 1
        PROVE  i - 1 \in DOMAIN Tail(s) /\ Tail(s)[i - 1] = s[i]
    BY <1>1, <2>2
  <2>3. Head(s) = s[1]
    BY <1>1
  <2>4. ASSUME NEW m, In(m, s) PROVE m = Head(s) \/ In(m, Tail(s))
    BY <2>2, <2>3, <2>4 DEF In
  <2> QED BY <2>1, <2>4
<1>2. ASSUME NEW e \in T
      PROVE  /\ Append(s, e) \in Seq(T) /\ In(e, Append(s, e))
             /\ \A m : In(m, s) => In(m, Append(s, e))
  <2>1. /\ Len(s) + 1 \in DOMAIN Append(s, e) /\ Append(s, e)[Len(s) + 1] = e
        /\ \A i \in DOMAIN s : i \in DOMAIN Append(s, e) /\ Append(s, e)[i] = s[i]
        /\ Append(s, e) \in Seq(T)
    OBVIOUS
  <2> QED BY <2>1 DEF In
<1>3. ASSUME NEW u \in Seq(T)
      PROVE  s \o u \in Seq(T) /\ \A m : In(m, s) \/ In(m, u) => In(m, s \o u)
  <2>1. /\ s \o u \in Seq(T)
        /\ \A i \in DOMAIN s : i \in DOMAIN (s \o u) /\ (s \o u)[i] = s[i]
        /\ \A i \in DOMAIN u : /\ i + Len(s) \in DOMAIN (s \o u)
                               /\ (s \o u)[i + Len(s)] = u[i]
    OBVIOUS
  <2> QED BY <2>1 DEF In
<1> QED BY <1>1, <1>2, <1>3

\* A market in one of several requests is in the first or among the rest; adding
\* a request adds its markets.
LEMMA AmongFacts ==
    ASSUME NEW s \in Seq(Lists)
    PROVE  /\ \A m : s # <<>> /\ Among(m, s) => In(m, Head(s)) \/ Among(m, Tail(s))
           /\ \A r \in Lists : \A m : In(m, r) \/ Among(m, s) => Among(m, Append(s, r))
<1>1. \A u, m : Among(m, u) <=> \E r : In(r, u) /\ In(m, r)
  BY DEF Among, In
<1> HIDE DEF Among, In, Lists
<1>2. ASSUME NEW m, s # <<>>, Among(m, s)
      PROVE  In(m, Head(s)) \/ Among(m, Tail(s))
  BY <1>1, <1>2, ListFacts
<1>3. ASSUME NEW r \in Lists, NEW m, In(m, r) \/ Among(m, s)
      PROVE  Among(m, Append(s, r))
  BY <1>1, <1>3, ListFacts
<1> QED BY <1>2, <1>3

\* So for the requests on their way.
LEMMA AskedFacts ==
    ASSUME NEW s \in Seq(Asks)
    PROVE  /\ \A m : s # <<>> /\ AskedFor(m, s) => m \in Members(Head(s)) \/ AskedFor(m, Tail(s))
           /\ \A r \in Asks : \A m :
                 m \in Members(r) \/ AskedFor(m, s) => AskedFor(m, Append(s, r))
<1>1. \A u, m : AskedFor(m, u) <=> \E r : In(r, u) /\ m \in Members(r)
  BY DEF AskedFor, In
<1> HIDE DEF AskedFor, In, Asks, Members
<1>2. ASSUME NEW m, s # <<>>, AskedFor(m, s)
      PROVE  m \in Members(Head(s)) \/ AskedFor(m, Tail(s))
  BY <1>1, <1>2, ListFacts
<1>3. ASSUME NEW r \in Asks, NEW m, m \in Members(r) \/ AskedFor(m, s)
      PROVE  AskedFor(m, Append(s, r))
  BY <1>1, <1>3, ListFacts
<1> QED BY <1>2, <1>3

\* A request for the markets of a list.
LEMMA AskFacts ==
    ASSUME NEW l \in Lists, NEW p \in BOOLEAN
    PROVE  /\ [markets |-> l, pending |-> p] \in Asks
           /\ \A m : In(m, l) <=> m \in Members([markets |-> l, pending |-> p])
  BY DEF Asks, Lists, Members, In

\* The start: all markets wanted, no link.
LEMMA InitRequests == BooksInit => RequestInv
<1> SUFFICES ASSUME BooksInit PROVE RequestInv
  OBVIOUS
<1>1. Markets \in Lists /\ \A m \in Listed : \E i \in DOMAIN Markets : Markets[i] = m
  BY CollectorAssumption DEF Lists, MarketSet
<1>2. /\ pc = "pause" /\ link = "none" /\ quiet = FALSE /\ hb = "none" /\ hbStop = FALSE
      /\ todo = <<>> /\ asked = <<>> /\ retry = <<>> /\ again = <<>>
      /\ wanted = Markets /\ bad = {} /\ need = {} /\ lost = {} /\ prof \in Profiles
  BY DEF BooksInit, Init
<1>3. <<>> \in Lists /\ <<>> \in Seq(Lists) /\ <<>> \in Seq(Asks)
  BY DEF Lists
<1> QED
  BY <1>1, <1>2, <1>3 DEF RequestInv, OnlyUnknownDropped, NoMarketForgotten

\* The open link of an earlier state is still there, and so is what is in hand.
LEMMA RequestsUntouched ==
    ASSUME RequestInv, UNCHANGED <<prof, todo, asked, wanted, bad, retry, lost>>,
           subs \subseteq subs',
           pc' = pc, link' \in {"up", "silent", "down"},
           link' = "down" \/ link \in {"up", "silent"},
           quiet' \in BOOLEAN, hbStop' \in BOOLEAN,
           hb' \in {"none", "check", "wait", "closing", "resub", "discard"},
           need' \subseteq MarketSet, again' \in Lists,
           hb' \in {"resub", "discard"} => again' # <<>>
    PROVE  RequestInv'
<1>1. OnlyUnknownDropped'
  BY DEF RequestInv, OnlyUnknownDropped
<1>2. NoMarketForgotten'
  BY DEF RequestInv, NoMarketForgotten, TakenOff
<1> QED BY <1>1, <1>2 DEF RequestInv

\* What remains of a list holds its members that are in the set.
LEMMA FilteredMembers ==
    ASSUME NEW s \in Lists, NEW S
    PROVE  /\ Filtered(s, S) \in Lists
           /\ \A m : In(m, s) /\ m \in S => In(m, Filtered(s, S))
           /\ \A m : In(m, Filtered(s, S)) => In(m, s)
<1> HIDE DEF MarketSet
<1> QED BY FilteredFacts DEF Lists

\* A new link: everything the exchange knows and the worker still wants is asked for.
LEMMA ConnectRequests ==
    ASSUME RequestInv, Connect, UNCHANGED <<need, again>>
    PROVE  RequestInv'
<1>1. /\ wanted \in Lists /\ Listed \subseteq MarketSet
      /\ prof.subscribe.exact =>
            bad \cap Listed = {} /\ \A m \in Listed : In(m, wanted)
  BY CollectorAssumption DEF RequestInv, OnlyUnknownDropped, In
<1>2. /\ wanted' = Filtered(wanted, NotBad) /\ UNCHANGED <<prof, bad, retry>>
      /\ asked' = <<>> /\ lost' = {}
  BY DEF Connect
<1>3. /\ wanted' \in Lists
      /\ prof.subscribe.exact => \A m \in Listed : In(m, wanted')
  BY <1>1, <1>2, FilteredMembers DEF NotBad
<1>4. /\ todo' = Requests(wanted') /\ todo' \in Seq(Lists)
      /\ prof.subscribe.requests # "library" =>
            \A m : In(m, wanted') => Among(m, todo')
  <2>1. todo' = Requests(wanted')
    BY DEF Connect
  <2>2. wanted' \in Seq(MarketSet)
    BY <1>3 DEF Lists
  <2> HIDE DEF MarketSet
  <2> DEFINE w == wanted'
  <2>3. w \in Seq(MarketSet) /\ todo' = Requests(w)
    BY <2>1, <2>2
  <2> HIDE DEF w
  <2>4. /\ Requests(w) \in Seq(Seq(MarketSet))
        /\ prof.subscribe.requests # "library" =>
              \A p \in DOMAIN w : Among(w[p], Requests(w))
    BY <2>3, RequestsFacts DEF RequestInv
  <2>5. ASSUME NEW m, In(m, wanted'), prof.subscribe.requests # "library"
        PROVE  Among(m, todo')
    <3>1. PICK p \in DOMAIN wanted' : wanted'[p] = m
      BY <2>5 DEF In
    <3>2. p \in DOMAIN w /\ w[p] = m
      BY <3>1 DEF w
    <3> HIDE DEF Among
    <3> QED BY <2>3, <2>4, <2>5, <3>2
  <2> QED BY <2>1, <2>3, <2>4, <2>5 DEF Lists
<1>5. prof.subscribe.requests = "library" =>
         \A m \in Listed : In(m, wanted') => m \in subs'
  BY DEF Connect, In
<1>6. NoMarketForgotten'
  <2> SUFFICES ASSUME NEW m \in Listed, ~TakenOff(m)'
               PROVE  m \in subs' \/ Among(m, todo')
    BY DEF NoMarketForgotten, Among
  <2>1. In(m, wanted')
    BY DEF TakenOff, In
  <2> QED BY <1>4, <1>5, <2>1
<1>7. OnlyUnknownDropped'
  BY <1>1, <1>2, <1>3 DEF OnlyUnknownDropped, In
<1>8. /\ hb' \in {"none", "check", "closing"} /\ hbStop' \in BOOLEAN
  BY DEF Connect, StartHeartbeat, RequestInv, hbVars
<1>9. /\ pc' \in {"opening", "reading"} /\ (pc' = "opening" => todo' # <<>>)
      /\ link' = "up" /\ quiet' = FALSE
  BY DEF Connect
<1>10. <<>> \in Seq(Asks)
  OBVIOUS
<1> QED BY <1>2, <1>3, <1>4, <1>6, <1>7, <1>8, <1>9, <1>10 DEF RequestInv

\* What is sent is on its way; a link that has broken is not open.
LEMMA SendRequests ==
    ASSUME RequestInv, Send, UNCHANGED <<need, again>>
    PROVE  RequestInv'
<1> DEFINE r == [markets |-> Head(todo), pending |-> TRUE]
<1>1. /\ todo \in Seq(Lists) /\ asked \in Seq(Asks) /\ todo # <<>>
  BY DEF RequestInv, Send
<1>2. /\ UNCHANGED <<prof, link, quiet, hb, hbStop, subs, wanted, bad, retry, lost>>
      /\ pc = "opening" /\ pc' \in {"opening", "reading"}
      /\ pc' = "opening" => todo' # <<>>
  BY DEF Send, linkVars, hbVars
<1>3. <<>> \in Seq(Lists) /\ Head(todo) \in Lists /\ Tail(todo) \in Seq(Lists)
  BY <1>1, ListFacts
<1>4. r \in Asks /\ \A m : In(m, Head(todo)) <=> m \in Members(r)
  BY <1>3, AskFacts
<1>5. \/ todo' = Tail(todo) /\ asked' = Append(asked, r)
      \/ link = "down" /\ todo' \in {Tail(todo), <<>>} /\ asked' = asked
  BY DEF Send
<1> HIDE DEF r
<1>6. todo' \in Seq(Lists) /\ asked' \in Seq(Asks)
  <2>1. Append(asked, r) \in Seq(Asks)
    BY <1>1, <1>4, ListFacts
  <2> QED BY <1>1, <1>3, <1>5, <2>1
<1>7. NoMarketForgotten'
  <2> SUFFICES ASSUME link' \in {"up", "silent"}, NEW m \in Listed,
                      ~(m \in lost' \/ TakenOff(m)')
               PROVE  m \in subs' \/ Among(m, todo') \/ AskedFor(m, asked')
    BY DEF NoMarketForgotten, Among, AskedFor
  <2>1. todo' = Tail(todo) /\ asked' = Append(asked, r) /\ link \in {"up", "silent"}
    BY <1>2, <1>5
  <2>2. m \in subs \/ Among(m, todo) \/ AskedFor(m, asked)
    BY <1>2, <2>1 DEF RequestInv, NoMarketForgotten, TakenOff
  <2> HIDE DEF Lists, Among, AskedFor
  <2>3. Among(m, todo) => In(m, Head(todo)) \/ Among(m, Tail(todo))
    BY <1>1, AmongFacts
  <2>4. m \in Members(r) \/ AskedFor(m, asked) => AskedFor(m, Append(asked, r))
    BY <1>1, <1>4, AskedFacts
  <2> QED BY <1>2, <1>4, <2>1, <2>2, <2>3, <2>4
<1>8. OnlyUnknownDropped'
  BY <1>2 DEF RequestInv, OnlyUnknownDropped
<1> QED BY <1>2, <1>6, <1>7, <1>8 DEF RequestInv

\* What the worker may do with a market it is asking for: it keeps, drops or
\* blacklists it, asks again, or gives the request up.
AnswerTo(r) ==
    /\ pc' \in {"reading", "retrying"}
    /\ wanted' \in Lists /\ retry' \in Lists
    /\ bad' \subseteq MarketSet /\ lost' \subseteq Listed
    /\ prof.subscribe.exact => bad' \cap Listed = {} /\ \A m \in Listed : In(m, wanted')
    /\ subs \subseteq subs' /\ lost \subseteq lost' /\ bad \subseteq bad'
    /\ \A m : In(m, wanted') => In(m, wanted)
    /\ \A m \in KnownOf(r) : \/ m \in subs' \/ m \in lost' \/ m \in bad'
                             \/ pc' = "retrying" /\ In(m, retry')

\* A text that is exact does not take a known market off MEXC's list.
LEMMA DropAnswers ==
    ASSUME RequestInv, pc = "reading", NEW r \in Asks, Drop(r),
           prof.subscribe.refused = "dropped"
    PROVE  AnswerTo(r)
<1>1. PICK S \in Named(r) : wanted' = Filtered(wanted, MarketSet \ S)
  BY DEF Drop
<1>2. wanted \in Lists /\ Listed \subseteq MarketSet
  BY CollectorAssumption DEF RequestInv
<1>3. /\ wanted' \in Lists /\ \A m : In(m, wanted') => In(m, wanted)
      /\ \A m : In(m, wanted) /\ m \in MarketSet \ S => In(m, wanted')
  BY <1>1, <1>2, FilteredMembers
<1>4. ASSUME prof.subscribe.exact
      PROVE  bad \cap Listed = {} /\ \A m \in Listed : In(m, wanted')
  <2>1. bad \cap Listed = {} /\ \A m \in Listed : In(m, wanted)
    BY <1>4 DEF RequestInv, OnlyUnknownDropped, In
  <2>2. S \cap Listed = {}
    BY <1>1, <1>4 DEF Named
  <2> QED BY <1>2, <1>3, <2>1, <2>2
<1>5. /\ subs' = subs \cup KnownOf(r) /\ UNCHANGED <<pc, bad, retry, lost>>
  BY DEF Drop
<1> QED BY <1>3, <1>4, <1>5 DEF AnswerTo, RequestInv

\* A batch is taken apart, or one market named, or the refusal not heard.
LEMMA RefuseAnswers ==
    ASSUME RequestInv, pc = "reading", NEW r \in Asks, Refuse(r),
           prof.subscribe.refused = "retried", ~(Members(r) \subseteq Listed)
    PROVE  AnswerTo(r)
<1>1. UNCHANGED <<subs, wanted>>
  BY DEF Refuse
<1>2. /\ wanted \in Lists /\ retry \in Lists /\ bad \subseteq MarketSet
      /\ lost \subseteq Listed /\ Listed \subseteq MarketSet
      /\ prof.subscribe.exact => bad \cap Listed = {} /\ \A m \in Listed : In(m, wanted)
  BY CollectorAssumption DEF RequestInv, OnlyUnknownDropped, In
<1>3. /\ r.markets \in Lists /\ Members(r) \subseteq MarketSet
      /\ \A m \in KnownOf(r) : In(m, r.markets)
      /\ KnownOf(r) \subseteq Listed
  <2>1. r.markets \in Lists
    BY DEF Asks, Lists
  <2>2. \A i \in DOMAIN r.markets : r.markets[i] \in MarketSet
    <3> HIDE DEF MarketSet
    <3> QED BY <2>1 DEF Lists
  <2> QED BY <2>1, <2>2 DEF Members, KnownOf, In
<1>4. PICK S \in Named(r) :
         IF \E m \in S : S = {m} THEN \E m \in S : Blacklist(r, m)
         ELSE IF r.pending THEN TakeApart(r)
         ELSE /\ lost' = lost \cup (KnownOf(r) \ subs)
              /\ UNCHANGED <<pc, bad, retry>>
  BY DEF Refuse
<1>5. CASE \E m \in S : S = {m}
  <2>1. PICK m \in S : Blacklist(r, m)
    BY <1>4, <1>5
  <2>2. m \in MarketSet /\ S = {m} /\ S \subseteq Members(r)
    BY <1>3, <1>5 DEF Named
  <2>3. prof.subscribe.exact => m \notin Listed
    BY <1>5, <2>2 DEF Named
  <2>4. /\ bad' = bad \cup {m} /\ lost' = lost \cup (KnownOf(r) \ subs)
        /\ UNCHANGED <<pc, retry>>
    BY <2>1 DEF Blacklist
  <2> QED BY <1>1, <1>2, <1>3, <2>2, <2>3, <2>4 DEF AnswerTo
<1>6. CASE ~(\E m \in S : S = {m}) /\ r.pending
  <2>1. /\ retry' = retry \o Filtered(r.markets, NotBad) /\ pc' = "retrying"
        /\ UNCHANGED <<bad, lost>>
    BY <1>4, <1>6 DEF TakeApart
  <2>2. /\ Filtered(r.markets, NotBad) \in Lists
        /\ \A m \in KnownOf(r) : m \in bad \/ In(m, Filtered(r.markets, NotBad))
    BY <1>2, <1>3, FilteredMembers DEF NotBad
  <2>3. /\ retry' \in Lists
        /\ \A m \in KnownOf(r) : m \in bad \/ In(m, retry')
    <3> HIDE DEF MarketSet, In, Filtered, KnownOf
    <3> QED BY <1>2, <2>1, <2>2, ListFacts DEF Lists
  <2> QED BY <1>1, <1>2, <2>1, <2>3 DEF AnswerTo
<1>7. CASE ~(\E m \in S : S = {m}) /\ ~r.pending
  <2>1. /\ lost' = lost \cup (KnownOf(r) \ subs)
        /\ UNCHANGED <<pc, bad, retry>>
    BY <1>4, <1>7
  <2> QED BY <1>1, <1>2, <1>3, <2>1 DEF AnswerTo
<1> QED BY <1>5, <1>6, <1>7

\* An answer subscribes what is known of a request, or gives it up, or the request
\* is taken apart.
LEMMA AnswerRequests ==
    ASSUME RequestInv, Answer, UNCHANGED <<need, again>>
    PROVE  RequestInv'
<1> DEFINE r == Head(asked)
<1>1. /\ UNCHANGED <<prof, link, hb, hbStop, todo>> /\ asked' = Tail(asked)
      /\ quiet' \in BOOLEAN /\ asked \in Seq(Asks) /\ asked # <<>>
      /\ pc = "reading" /\ link = "up"
  BY DEF Answer, Accepted, Refused, ReadAnswer, Heard, hbVars, RequestInv
<1>2. /\ r \in Asks /\ asked' \in Seq(Asks)
      /\ \A m : AskedFor(m, asked) => m \in Members(r) \/ AskedFor(m, asked')
  <2>1. r \in Asks /\ Tail(asked) \in Seq(Asks)
    BY <1>1, ListFacts
  <2> HIDE DEF Asks, AskedFor
  <2> QED BY <1>1, <2>1, AskedFacts
<1>3. \/ Accept(r) \/ LogRefusal(r)
      \/ prof.subscribe.refused = "dropped" /\ Drop(r)
      \/ prof.subscribe.refused = "retried" /\ ~(Members(r) \subseteq Listed) /\ Refuse(r)
  BY DEF Answer, Accepted, Refused
<1> HIDE DEF r
<1>4. AnswerTo(r)
  <2>1. /\ prof.subscribe.exact => bad \cap Listed = {} /\ \A m \in Listed : In(m, wanted)
        /\ KnownOf(r) \subseteq Listed
    BY DEF RequestInv, OnlyUnknownDropped, In, KnownOf
  <2>2. CASE Accept(r)
    BY <1>1, <2>1, <2>2 DEF Accept, AnswerTo, RequestInv
  <2>3. CASE LogRefusal(r)
    BY <1>1, <2>1, <2>3 DEF LogRefusal, AnswerTo, RequestInv
  <2>4. CASE prof.subscribe.refused = "dropped" /\ Drop(r)
    BY <1>1, <1>2, <2>4, DropAnswers
  <2>5. CASE /\ prof.subscribe.refused = "retried" /\ ~(Members(r) \subseteq Listed)
             /\ Refuse(r)
    BY <1>1, <1>2, <2>5, RefuseAnswers
  <2> QED BY <1>3, <2>2, <2>3, <2>4, <2>5
<1>5. NoMarketForgotten'
  <2> SUFFICES ASSUME NEW m \in Listed
               PROVE  \/ m \in subs' \/ Among(m, todo') \/ AskedFor(m, asked')
                      \/ pc' = "retrying" /\ In(m, retry')
                      \/ m \in lost' \/ m \in bad' \/ ~In(m, wanted')
    BY DEF NoMarketForgotten, TakenOff, In
  <2>1. \/ m \in subs \/ Among(m, todo) \/ AskedFor(m, asked)
        \/ m \in lost \/ m \in bad \/ ~In(m, wanted)
    BY <1>1 DEF RequestInv, NoMarketForgotten, TakenOff, In
  <2>2. CASE m \in Members(r)
    BY <1>4, <2>2 DEF AnswerTo, KnownOf
  <2>3. CASE m \notin Members(r)
    <3> HIDE DEF AskedFor, Among, In
    <3> QED BY <1>1, <1>2, <1>4, <2>1, <2>3 DEF AnswerTo
  <2> QED BY <2>2, <2>3
<1>6. OnlyUnknownDropped'
  BY <1>1, <1>4 DEF AnswerTo, OnlyUnknownDropped, In
<1> QED BY <1>1, <1>2, <1>4, <1>5, <1>6 DEF AnswerTo, RequestInv

\* A market that is asked for again is on its way, or blacklisted.
LEMMA RetryRequests ==
    ASSUME RequestInv, Retry, UNCHANGED <<need, again>>
    PROVE  RequestInv'
<1>1. /\ UNCHANGED <<prof, link, quiet, hb, hbStop, todo, subs, wanted, bad, lost>>
      /\ pc = "retrying" /\ pc' \in {"reading", "retrying"}
  BY DEF Retry, linkVars, hbVars
<1>2. /\ retry \in Lists /\ asked \in Seq(Asks)
  BY DEF RequestInv
<1>3. ASSUME link' \in {"up", "silent"}, NEW m \in Listed, ~(m \in lost \/ TakenOff(m))
      PROVE  m \in subs \/ Among(m, todo) \/ AskedFor(m, asked) \/ In(m, retry)
  BY <1>1, <1>3 DEF RequestInv, NoMarketForgotten, In
<1>4. /\ retry' \in Lists /\ asked' \in Seq(Asks)
      /\ \A m \in Listed :
            link' \in {"up", "silent"} /\ ~(m \in lost \/ TakenOff(m)) =>
               \/ m \in subs \/ Among(m, todo) \/ AskedFor(m, asked')
               \/ pc' = "retrying" /\ In(m, retry')
  <2>1. CASE retry = <<>>
    <3>1. \A m : ~In(m, <<>>)
      BY DEF In
    <3>2. UNCHANGED <<retry, asked>>
      BY <2>1 DEF Retry
    <3> QED BY <1>2, <1>3, <2>1, <3>1, <3>2
  <2>2. CASE retry # <<>>
    <3> DEFINE h == Head(retry)
               r == [markets |-> <<h>>, pending |-> FALSE]
    <3>1. /\ h \in MarketSet /\ Tail(retry) \in Lists /\ retry' = Tail(retry)
          /\ \A m : In(m, retry) => m = h \/ In(m, retry')
      <4>1. retry' = Tail(retry)
        BY <2>2 DEF Retry
      <4> HIDE DEF MarketSet, In
      <4> QED BY <1>2, <2>2, <4>1, ListFacts DEF Lists
    <3>2. r \in Asks /\ h \in Members(r)
      <4>1. <<h>> \in Lists
        <5> HIDE DEF MarketSet, h
        <5> QED BY <3>1 DEF Lists
      <4>2. 1 \in DOMAIN <<h>> /\ <<h>>[1] = h
        OBVIOUS
      <4>3. In(h, <<h>>)
        BY <4>2 DEF In
      <4> HIDE DEF h
      <4> QED BY <4>1, <4>3, AskFacts
    <3>3. CASE h \in bad /\ UNCHANGED <<pc, asked>>
      BY <1>1, <1>2, <1>3, <3>1, <3>3 DEF TakenOff
    <3>4. CASE asked' = Append(asked, r) /\ UNCHANGED pc
      <4>1. asked' \in Seq(Asks)
        <5> HIDE DEF Asks, r
        <5> QED BY <1>2, <3>2, <3>4, ListFacts
      <4>2. \A m : AskedFor(m, asked) \/ m = h => AskedFor(m, asked')
        <5> HIDE DEF Asks, h, r, AskedFor, Members
        <5> QED BY <1>2, <3>2, <3>4, AskedFacts
      <4> HIDE DEF h
      <4> QED BY <1>1, <1>3, <3>1, <3>4, <4>1, <4>2
    <3>5. CASE link = "down" /\ UNCHANGED asked
      BY <1>1, <1>2, <3>1, <3>5
    <3> QED BY <2>2, <3>3, <3>4, <3>5 DEF Retry
  <2> QED BY <2>1, <2>2
<1>5. NoMarketForgotten'
  BY <1>1, <1>4 DEF NoMarketForgotten, TakenOff, In
<1>6. OnlyUnknownDropped'
  BY <1>1 DEF RequestInv, OnlyUnknownDropped
<1> QED BY <1>1, <1>4, <1>5, <1>6 DEF RequestInv

\* Without a link nothing is in hand, and nothing is lost: the next one asks anew.
LEMMA CloseRequests ==
    ASSUME RequestInv, Close, UNCHANGED <<need, again>>
    PROVE  RequestInv'
<1>1. NoMarketForgotten'
  BY DEF Close, NoMarketForgotten
<1>2. OnlyUnknownDropped'
  BY DEF Close, RequestInv, OnlyUnknownDropped
<1>3. hbStop' \in BOOLEAN
  BY DEF Close, RequestInv
<1>4. <<>> \in Seq(Asks)
  OBVIOUS
<1> QED BY <1>1, <1>2, <1>3, <1>4 DEF Close, RequestInv

LEMMA RestartRequests ==
    ASSUME RequestInv, Restart, need' = {}, again' = <<>>
    PROVE  RequestInv'
<1>1. NoMarketForgotten'
  BY DEF Restart, NoMarketForgotten
<1>2. /\ Markets \in Lists
      /\ \A m \in Listed : \E i \in DOMAIN Markets : Markets[i] = m
  BY CollectorAssumption DEF Lists, MarketSet
<1>3. /\ pc' = "pause" /\ link' = "none" /\ quiet' = FALSE /\ hb' = "none"
      /\ hbStop' = FALSE /\ todo' = <<>> /\ asked' = <<>> /\ retry' = <<>>
      /\ wanted' = Markets /\ bad' \subseteq bad /\ lost' = {} /\ prof' = prof
  BY DEF Restart
<1>4. OnlyUnknownDropped'
  BY <1>2, <1>3 DEF RequestInv, OnlyUnknownDropped
<1>5. <<>> \in Seq(Lists) /\ <<>> \in Lists /\ <<>> \in Seq(Asks)
  BY DEF Lists
<1> QED BY <1>1, <1>2, <1>3, <1>4, <1>5 DEF RequestInv

\* The marks the thread copies are those of markets, and not none.
LEMMA BeginResubRequests ==
    ASSUME RequestInv, BeginResub
    PROVE  RequestInv'
<1>1. IsFiniteSet(MarketSet)
  <2>1. Len(Markets) \in Nat /\ DOMAIN Markets = 1..Len(Markets)
    BY CollectorAssumption
  <2>2. IsFiniteSet(1..Len(Markets))
    BY <2>1, FS_Interval
  <2>3. Markets \in Surjection(1..Len(Markets), MarketSet)
    <3>1. Markets \in [1..Len(Markets) -> MarketSet]
      BY <2>1, CollectorAssumption
    <3>2. \A m \in MarketSet : \E i \in 1..Len(Markets) : Markets[i] = m
      BY <2>1 DEF MarketSet
    <3> QED BY <3>1, <3>2 DEF Surjection
  <2> HIDE DEF MarketSet
  <2> QED BY <2>2, <2>3, FS_Surjection
<1>2. /\ need \subseteq MarketSet /\ need # {}
      /\ UNCHANGED <<prof, pc, link, quiet, hbStop, todo, asked, subs, wanted, bad, retry,
                     lost, need>>
      /\ hb' = "resub" /\ link \in {"up", "silent"}
      /\ again' \in [1..Cardinality(need) -> need]
  BY DEF BeginResub, RequestInv, linkVars, requestVars
<1>3. Cardinality(need) \in Nat /\ Cardinality(need) # 0
  <2>1. IsFiniteSet(need)
    <3> HIDE DEF MarketSet
    <3> QED BY <1>1, <1>2, FS_Subset
  <2> QED BY <1>2, <2>1, FS_CardinalityType, FS_EmptySet
<1>4. again' \in Lists /\ again' # <<>>
  <2> DEFINE n == Cardinality(need)
             q == again'
  <2>1. n \in Nat /\ n # 0 /\ q \in [1..n -> MarketSet]
    BY <1>2, <1>3
  <2> HIDE DEF n, q, MarketSet
  <2>2. q \in Seq(MarketSet) /\ q # <<>>
    <3>1. q \in Seq(MarketSet)
      BY <2>1
    <3>2. 1 \in DOMAIN q
      BY <2>1
    <3>3. DOMAIN <<>> = {}
      OBVIOUS
    <3> QED BY <3>1, <3>2, <3>3
  <2> QED BY <2>2 DEF Lists, q
<1> QED BY <1>2, <1>4, RequestsUntouched DEF RequestInv

\* What the thread asks is one more request.
LEMMA SendResubRequests ==
    ASSUME RequestInv, SendResub
    PROVE  RequestInv'
<1>1. /\ again \in Lists /\ again # <<>> /\ asked \in Seq(Asks)
      /\ UNCHANGED <<prof, pc, link, quiet, hbStop, todo, subs, wanted, bad, retry,
                     lost, need>>
  BY DEF SendResub, RequestInv, linkVars
<1>2. OnlyUnknownDropped'
  BY <1>1 DEF RequestInv, OnlyUnknownDropped
<1>3. CASE link \in {"up", "silent"}
  <2> DEFINE h == Head(again)
             r == [markets |-> <<h>>, pending |-> FALSE]
  <2>1. hb' = "discard" /\ asked' = Append(asked, r) /\ again' = again
    BY <1>3 DEF SendResub
  <2>2. r \in Asks
    <3>1. h \in MarketSet
      <4> HIDE DEF MarketSet
      <4> QED BY <1>1 DEF Lists
    <3> HIDE DEF MarketSet, h
    <3>2. <<h>> \in Lists
      BY <3>1 DEF Lists
    <3> QED BY <3>2, AskFacts
  <2> HIDE DEF r
  <2>3. asked' \in Seq(Asks) /\ \A m : AskedFor(m, asked) => AskedFor(m, asked')
    <3> HIDE DEF Asks, AskedFor
    <3> QED BY <1>1, <2>1, <2>2, AskedFacts, ListFacts
  <2>4. NoMarketForgotten'
    BY <1>1, <2>3 DEF RequestInv, NoMarketForgotten, TakenOff
  <2> QED BY <1>1, <1>2, <2>1, <2>3, <2>4 DEF RequestInv
<1>4. CASE link \notin {"up", "silent"}
  <2>1. hb' = "wait" /\ again' = <<>> /\ asked' = asked
    BY <1>4 DEF SendResub
  <2>2. NoMarketForgotten'
    BY <1>1, <1>4 DEF NoMarketForgotten
  <2>3. <<>> \in Lists
    BY DEF Lists
  <2> QED BY <1>1, <1>2, <2>1, <2>2, <2>3 DEF RequestInv
<1> QED BY <1>3, <1>4

\* The steps that neither ask nor answer.
LEMMA OthersRequests ==
    ASSUME RequestInv, UNCHANGED <<prof, pc, requestVars, again>>,
           link' = link \/ link' = "down" \/ (link' = "up" /\ link = "silent")
                        \/ (link' = "silent" /\ link = "up"),
           quiet' \in BOOLEAN, hbStop' \in BOOLEAN,
           hb' \in {"none", "check", "wait", "closing"} \/ hb' = hb,
           need' \subseteq MarketSet
    PROVE  RequestInv'
<1>1. UNCHANGED <<todo, asked, subs, wanted, bad, retry, lost>>
  BY DEF requestVars
<1>2. OnlyUnknownDropped'
  BY <1>1 DEF RequestInv, OnlyUnknownDropped
<1>3. NoMarketForgotten'
  BY <1>1 DEF RequestInv, NoMarketForgotten, TakenOff
<1> QED BY <1>1, <1>2, <1>3 DEF RequestInv

\* A mark is taken off the lists.
LEMMA DiscardRequests ==
    ASSUME RequestInv, DiscardMark
    PROVE  RequestInv'
<1>1. /\ again \in Lists /\ again # <<>> /\ need' \subseteq MarketSet
      /\ UNCHANGED <<prof, pc, link, quiet, hbStop, todo, asked, subs, wanted, bad, retry, lost>>
      /\ again' = Tail(again)
      /\ hb' \in {"wait", "resub"} /\ (hb' = "resub" => again' # <<>>)
  BY DEF DiscardMark, RequestInv, linkVars, requestVars
<1>2. again' \in Lists
  <2> HIDE DEF MarketSet
  <2> QED BY <1>1, ListFacts DEF Lists
<1>3. OnlyUnknownDropped'
  BY <1>1 DEF RequestInv, OnlyUnknownDropped
<1>4. NoMarketForgotten'
  BY <1>1 DEF RequestInv, NoMarketForgotten, TakenOff
<1> QED BY <1>1, <1>2, <1>3, <1>4 DEF RequestInv

\* A message about a book may mark its market.
LEMMA MessageRequests ==
    ASSUME RequestInv, BookInv, ReceiveMessage
    PROVE  RequestInv'
<1> DEFINE msg == Head(wire)
<1>1. msg.market \in MarketSet
  <2>1. wire \in Seq(Messages) /\ wire # <<>>
    BY DEF BookInv, ReceiveMessage
  <2>2. msg \in Messages
    BY <2>1
  <2> QED BY <2>2, CollectorAssumption DEF Messages
<1>2. TakeSnapshot(msg) \/ TakeUpdate(msg)
  BY DEF ReceiveMessage
<1> HIDE DEF msg
<1>3. need' = need \/ need' = need \cup {msg.market}
  BY <1>2 DEF TakeSnapshot, TakeUpdate
<1>4. need' \subseteq MarketSet
  BY <1>1, <1>3 DEF RequestInv
<1>5. /\ UNCHANGED <<prof, pc, requestVars, again, link, hb, hbStop>> /\ quiet' \in BOOLEAN
  BY DEF ReceiveMessage, Heard, hbVars, RequestInv
<1> QED BY <1>4, <1>5, OthersRequests DEF RequestInv

\* Every step keeps what is in hand.
LEMMA StepKeepsRequests == Inv /\ RequestInv /\ [BooksNext]_allVars => RequestInv'
<1> SUFFICES ASSUME Inv, RequestInv, [BooksNext]_allVars PROVE RequestInv'
  OBVIOUS
<1>1. CASE ChangeBook
  <2>1. UNCHANGED <<prof, pc, link, quiet, hb, hbStop, requestVars, need, again>>
    BY <1>1 DEF ChangeBook, vars, linkVars, hbVars
  <2> QED BY <2>1, OthersRequests DEF RequestInv
<1>2. CASE ReceiveMessage
  BY <1>2, MessageRequests DEF Inv
<1>3. CASE BeginResub \/ SendResub \/ DiscardMark
  BY <1>3, BeginResubRequests, SendResubRequests, DiscardRequests
<1>4. CASE ConnectWithoutBooks
  BY <1>4, ConnectRequests DEF ConnectWithoutBooks
<1>5. CASE AcceptedWithSnapshot \/ RefusedWithoutSnapshot
  BY <1>5, AnswerRequests
  DEF AcceptedWithSnapshot, RefusedWithoutSnapshot, Answer, bookVars
<1>6. CASE CloseWire
  BY <1>6, CloseRequests DEF CloseWire
<1>7. CASE RestartWithoutBooks
  BY <1>7, RestartRequests DEF RestartWithoutBooks
<1>8. CASE HeartbeatChecks /\ UNCHANGED bookVars
  <2>1. /\ UNCHANGED <<prof, pc, requestVars, quiet, hbStop, need, again>>
        /\ link' = link \/ link' = "down"
        /\ hb' \in {"none", "closing", "wait"}
    BY <1>8 DEF HeartbeatChecks, bookVars
  <2> QED BY <2>1, OthersRequests DEF RequestInv
<1>9. CASE (HeartbeatWakes \/ HeartbeatClosed) /\ UNCHANGED bookVars
  <2>1. /\ UNCHANGED <<prof, pc, requestVars, link, quiet, hbStop, need, again>>
        /\ hb' \in {"check", "none"}
    BY <1>9 DEF HeartbeatWakes, HeartbeatClosed, bookVars, linkVars
  <2> QED BY <2>1, OthersRequests DEF RequestInv
<1>10. CASE (Send \/ Retry) /\ UNCHANGED bookVars
  BY <1>10, SendRequests, RetryRequests DEF bookVars
<1>11. CASE Receive /\ UNCHANGED bookVars
  <2>1. UNCHANGED <<prof, pc, requestVars, link, hb, hbStop, need, again>> /\ quiet' \in BOOLEAN
    BY <1>11 DEF Receive, Heard, hbVars, bookVars, RequestInv
  <2> QED BY <2>1, OthersRequests DEF RequestInv
<1>12. CASE (FallSilent \/ Resume \/ Break \/ GoQuiet \/ Pong) /\ UNCHANGED bookVars
  <2>1. /\ UNCHANGED <<prof, pc, requestVars, hb, hbStop, need, again>> /\ quiet' \in BOOLEAN
        /\ \/ link' = link \/ link' = "down" \/ (link' = "up" /\ link = "silent")
           \/ (link' = "silent" /\ link = "up")
    BY <1>12
    DEF FallSilent, Resume, Break, GoQuiet, Pong, hbVars, bookVars, RequestInv
  <2> QED BY <2>1, OthersRequests DEF RequestInv
<1>13. CASE UNCHANGED allVars
  <2>1. UNCHANGED <<prof, pc, link, quiet, hb, hbStop, requestVars, need, again>>
    BY <1>13 DEF allVars, vars, linkVars, hbVars, bookVars
  <2> QED BY <2>1, OthersRequests DEF RequestInv
<1> QED BY <1>1, <1>2, <1>3, <1>4, <1>5, <1>6, <1>7, <1>8, <1>9, <1>10, <1>11, <1>12, <1>13
        DEF BooksNext, BookSteps, WorkerSteps, CheckWithoutMarks

LEMMA RequestInvariance == BooksSpec => [](Inv /\ RequestInv)
<1>1. BooksInit => Inv /\ RequestInv
  BY InitEstablishes, InitRequests
<1>2. Inv /\ RequestInv /\ [BooksNext]_allVars => (Inv /\ RequestInv)'
  BY StepKeeps, StepKeepsRequests
<1> QED BY <1>1, <1>2, PTL DEF BooksSpec

\* Every variable of the collectors, their books and their heartbeats has its type.
THEOREM CollectorTyping == BooksSpec => []BooksTypeOK
<1>1. Inv /\ RequestInv => BooksTypeOK
  BY DEF Inv, BufferInv, BookInv, RequestInv, Lists, BooksTypeOK, TypeOK
<1> QED BY <1>1, RequestInvariance, PTL

\* No market the exchange knows is taken off a worker's list or blacklisted, for
\* any share of the markets, size of requests and order of answers, if the texts
\* of its refusals are exact: what is blacklisted was refused by itself.
THEOREM OnlyUnknownLost == BooksSpec => []OnlyUnknownDropped
<1>1. RequestInv => OnlyUnknownDropped
  BY DEF RequestInv
<1> QED BY <1>1, RequestInvariance, PTL

\* While a link is open each market the exchange knows is subscribed or in hand,
\* or was given up by a refusal in one of two ways: the chunks of on_open cover
\* all of them, and neither a batch that is taken apart nor the queue of single
\* requests loses one, whatever the texts of refusals name.
THEOREM MarketsStayInHand == BooksSpec => []NoMarketForgotten
<1>1. RequestInv => NoMarketForgotten
  BY DEF RequestInv
<1> QED BY <1>1, RequestInvariance, PTL

\* Steps of the link and of its thread.
LEMMA StepKeepsWatch ==
    ASSUME OpenLinksAreWatched, [BooksNext]_allVars
    PROVE  OpenLinksAreWatched'
<1>1. CASE ConnectWithoutBooks
  BY <1>1 DEF ConnectWithoutBooks, Connect, StartHeartbeat, OpenLinksAreWatched
<1>2. CASE CloseWire \/ RestartWithoutBooks
  BY <1>2 DEF CloseWire, Close, RestartWithoutBooks, Restart, OpenLinksAreWatched
<1>3. CASE BeginResub \/ SendResub \/ DiscardMark
  BY <1>3 DEF BeginResub, SendResub, DiscardMark, linkVars, OpenLinksAreWatched
<1>4. CASE HeartbeatChecks \/ HeartbeatWakes \/ HeartbeatClosed
  BY <1>4
  DEF HeartbeatChecks, HeartbeatWakes, HeartbeatClosed, linkVars, OpenLinksAreWatched
<1>5. CASE FallSilent \/ Resume \/ Break \/ GoQuiet \/ Pong
  BY <1>5 DEF FallSilent, Resume, Break, GoQuiet, Pong, hbVars, OpenLinksAreWatched
<1>6. CASE \/ ChangeBook \/ ReceiveMessage \/ AcceptedWithSnapshot \/ RefusedWithoutSnapshot
           \/ Send \/ Retry \/ Receive \/ UNCHANGED allVars
  <2>1. UNCHANGED <<prof, link, hb, hbStop>>
    BY <1>6
    DEF ChangeBook, ReceiveMessage, AcceptedWithSnapshot, RefusedWithoutSnapshot,
        Accepted, Refused, ReadAnswer, Send, Retry, Receive,
        allVars, vars, linkVars, hbVars
  <2> QED BY <2>1 DEF OpenLinksAreWatched
<1> QED BY <1>1, <1>2, <1>3, <1>4, <1>5, <1>6
        DEF BooksNext, BookSteps, WorkerSteps, CheckWithoutMarks

\* The stop event and the threads of several links never leave an open link of
\* Bybit, Bitget, BitMart or BigONE without the thread that would close it.
THEOREM LinksAreWatched == BooksSpec => []OpenLinksAreWatched
<1>1. BooksInit => OpenLinksAreWatched
  BY DEF BooksInit, Init, OpenLinksAreWatched
<1> QED BY <1>1, StepKeepsWatch, PTL DEF BooksSpec
=============================================================================
