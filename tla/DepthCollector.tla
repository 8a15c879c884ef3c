--------------------------- MODULE DepthCollector ---------------------------
(***************************************************************************)
(* One worker of a collector: the loop that connects, the callbacks of its *)
(* websocket, the heartbeat thread beside them, the buffer of Redis        *)
(* commands and what is in Redis.  The exchange answers requests in order  *)
(* and its frames arrive in order; the link may fall silent or break.      *)
(***************************************************************************)
EXTENDS CollectorProfiles, Integers, Sequences, FiniteSets

CONSTANTS
    Profiles,       \* the collectors considered
    Markets,        \* the worker's share of the markets, in SQL order
    Listed,         \* those of them the exchange knows
    RequestSize,    \* SUB_BATCH
    PipelineBatch,  \* PIPELINE_BATCH
    MaxOnce,        \* max_once, the single requests of one drain
    MaxFrames,      \* bound: frames stored by one worker
    MaxRetry        \* bound: no link breaks while more markets wait to be asked for again

MarketSet == {Markets[i] : i \in DOMAIN Markets}
Sides == {"bids", "asks"}
Keys == MarketSet \X Sides
Versions == 0..MaxFrames
Commands == [key : Keys, version : Versions]

\* A request on its way.  pending: its id is in _sub_pending, as on_open's are.
Asks == [markets : Seq(MarketSet), pending : BOOLEAN]

ASSUME CollectorAssumption ==
    /\ Profiles \subseteq Profile
    /\ Markets \in Seq(MarketSet)
    /\ Listed \subseteq MarketSet
    /\ RequestSize \in Nat \ {0}
    /\ PipelineBatch \in Nat \ {0}
    /\ MaxFrames \in Nat
    /\ MaxRetry \in Nat

\* What a broken link leaves to be asked for again and one more batch stay below
\* max_once, so a drain ends with an empty queue or a broken link.
ASSUME DrainAssumption == MaxOnce \in Nat /\ MaxRetry + RequestSize < MaxOnce

VARIABLES
    prof,       \* which collector this is
    pc,         \* where run_forever is: pausing, in on_open, waiting for frames, asking again
    link,       \* the connection: silent is open with nobody at the other end
    quiet,      \* nothing (no pong) has come for a minute
    hb,         \* the heartbeat thread: about to check, in wait(), in ws.close(), asking again
    hbStop,     \* _hb_stop
    pipe,       \* the commands queued in the pipeline
    cnt,        \* pipe_cnt
    version,    \* number of frames stored; numbers them
    since,      \* history: version when the link was made
    store,      \* the version last written to each key; 0 is none
    todo,       \* requests on_open has yet to send
    asked,      \* requests the exchange has yet to answer
    subs,       \* markets whose frames come over the link
    wanted,     \* self.symbols
    bad,        \* bad_symbols, in memory and in Redis
    retry,      \* _sub_retry_q
    lost        \* history: known markets in a request that was refused over this
                \* link, where the worker did nothing to ask for them again

linkVars == <<link, quiet>>
hbVars == <<hb, hbStop>>
bufferVars == <<pipe, cnt, version, since, store>>
requestVars == <<todo, asked, subs, wanted, bad, retry, lost>>
vars == <<prof, pc, linkVars, hbVars, bufferVars, requestVars>>

TypeOK ==
    /\ prof \in Profiles
    /\ pc \in {"pause", "opening", "reading", "retrying"}
    /\ link \in {"none", "up", "silent", "down"}
    /\ quiet \in BOOLEAN
    /\ hb \in {"none", "check", "wait", "closing", "resub", "discard"}
    /\ hbStop \in BOOLEAN
    /\ pipe \in Seq(Commands)
    /\ cnt \in Nat
    /\ version \in Versions /\ since \in Versions
    /\ store \in [Keys -> Versions]
    /\ todo \in Seq(Seq(MarketSet)) /\ asked \in Seq(Asks)
    /\ subs \subseteq Listed
    /\ wanted \in Seq(MarketSet) /\ retry \in Seq(MarketSet)
    /\ bad \subseteq MarketSet /\ lost \subseteq Listed

Init ==
    /\ prof \in Profiles
    /\ pc = "pause" /\ link = "none" /\ quiet = FALSE
    /\ hb = "none" /\ hbStop = FALSE
    /\ pipe = <<>> /\ cnt = 0 /\ version = 0 /\ since = 0
    /\ store = [k \in Keys |-> 0]
    /\ todo = <<>> /\ asked = <<>> /\ subs = {}
    /\ wanted = Markets /\ bad = {} /\ retry = <<>> /\ lost = {}

-----------------------------------------------------------------------------
(* The buffer of commands.                                                 *)

\* The first n commands have reached Redis.
Written(p, n) ==
    [k \in Keys |->
        LET I == {i \in 1..n : p[i].key = k}
        IN IF I = {} THEN store[k]
           ELSE p[CHOOSE i \in I : \A j \in I : j <= i].version]

\* Mutant: the commands survive a failed execute.
ExecuteKeepsOnFailure(p) ==
    \E n \in 0..Len(p) :
        /\ store' = Written(p, n)
        /\ pipe' = IF n = Len(p) THEN <<>> ELSE p
        /\ cnt' = Len(pipe')

\* execute(): the server runs the commands in order; whatever happens, the
\* pipeline is empty afterwards.
Execute(p) ==
    \E n \in 0..Len(p) :
        /\ store' = Written(p, n)
        /\ pipe' = <<>> /\ cnt' = 0

\* Mutant: a frame counts as one command.
StoreCountsFrames(cmds) ==
    LET p == pipe \o cmds
        n == cnt + 1
    IN \/ /\ ~prof.buffer.direct /\ n < PipelineBatch
          /\ pipe' = p /\ cnt' = n /\ UNCHANGED store
       \/ /\ prof.buffer.direct \/ prof.buffer.timed \/ n >= PipelineBatch
          /\ Execute(p)

\* setex for each side, then flush_if_needed: by number, or by time if the
\* interval has passed.
Store(cmds) ==
    LET p == pipe \o cmds
        n == cnt + Len(cmds)
    IN \/ /\ ~prof.buffer.direct /\ n < PipelineBatch
          /\ pipe' = p /\ cnt' = n /\ UNCHANGED store
       \/ /\ prof.buffer.direct \/ prof.buffer.timed \/ n >= PipelineBatch
          /\ Execute(p)

\* Mutant: on_close forgets the buffer.
FlushOnCloseForgotten == UNCHANGED <<pipe, cnt, store>>

\* on_close writes what is left, and drops it if it cannot.
FlushOnClose ==
    IF prof.buffer.keep THEN UNCHANGED <<pipe, cnt, store>> ELSE Execute(pipe)

-----------------------------------------------------------------------------
(* The heartbeat thread.                                                   *)

\* Mutant: the event set for the last thread is left set.
StartHeartbeatStopped ==
    IF prof.heartbeat.thread = "none" THEN UNCHANGED hbVars
    ELSE /\ hb' = "check"
         /\ UNCHANGED hbStop

\* KuCoin starts none while the last one lives.
StartHeartbeat ==
    IF prof.heartbeat.thread = "none" THEN UNCHANGED hbVars
    ELSE /\ hbStop' = FALSE
         /\ hb' = IF prof.heartbeat.thread = "reused" /\ hb # "none" THEN hb ELSE "check"

\* The thread ends, gives up a quiet link, or pings and waits.
HeartbeatChecks ==
    /\ hb = "check"
    /\ \/ /\ hbStop \/ link \notin {"up", "silent"}
          /\ hb' = "none" /\ UNCHANGED link
       \/ /\ ~hbStop /\ link \in {"up", "silent"}
          /\ IF quiet THEN hb' = "closing" /\ link' = "down"
             ELSE hb' = "wait" /\ UNCHANGED link
    /\ UNCHANGED <<prof, pc, quiet, hbStop, bufferVars, requestVars>>

\* The interval is over or the event is set.
HeartbeatWakes ==
    /\ hb = "wait" /\ hb' = "check"
    /\ UNCHANGED <<prof, pc, linkVars, hbStop, bufferVars, requestVars>>

\* ws.close() returns, up to three seconds after it has begun, and the thread ends.
HeartbeatClosed ==
    /\ hb = "closing" /\ hb' = "none"
    /\ UNCHANGED <<prof, pc, linkVars, hbStop, bufferVars, requestVars>>

-----------------------------------------------------------------------------
(* The link.                                                               *)

FallSilent ==
    /\ link = "up" /\ link' = "silent"
    /\ UNCHANGED <<prof, pc, quiet, hbVars, bufferVars, requestVars>>

\* Binance's library restores the stream by itself and hides a lost link.
Resume ==
    /\ prof.subscribe.requests = "library"
    /\ link = "silent" /\ link' = "up" /\ quiet' = FALSE
    /\ UNCHANGED <<prof, pc, hbVars, bufferVars, requestVars>>

Break ==
    /\ prof.subscribe.requests # "library"
    /\ Len(retry) <= MaxRetry
    /\ link \in {"up", "silent"} /\ link' = "down"
    /\ UNCHANGED <<prof, pc, quiet, hbVars, bufferVars, requestVars>>

\* A minute passes; callbacks last less than that.  A link in order brings at
\* least the answers to pings, which Binance's buffer does not show and which
\* an exchange may owe Bitget.
GoQuiet ==
    /\ pc = "reading" /\ ~quiet
    /\ link = "silent" \/ (link = "up" /\ prof.heartbeat.dead \in {"pong", "buffer"})
    /\ quiet' = TRUE
    /\ UNCHANGED <<prof, pc, link, hbVars, bufferVars, requestVars>>

Pong ==
    /\ pc = "reading" /\ link = "up" /\ quiet /\ prof.heartbeat.dead = "pong"
    /\ quiet' = FALSE
    /\ UNCHANGED <<prof, pc, link, hbVars, bufferVars, requestVars>>

\* A message ends the quiet, unless only pongs do.
Heard == quiet' = (quiet /\ prof.heartbeat.dead = "pong")

-----------------------------------------------------------------------------
(* Connections and requests.                                               *)

\* Mutant: an incomplete last batch is not sent.
RequestsWithoutRest(s) ==
    CASE prof.subscribe.requests = "library" -> <<>>
      [] prof.subscribe.requests = "single" -> [i \in DOMAIN s |-> <<s[i]>>]
      [] prof.subscribe.requests = "batch" ->
            [i \in 1..(Len(s) \div RequestSize) |->
                SubSeq(s, (i - 1) * RequestSize + 1, i * RequestSize)]

\* chunk_list: what is sent for the markets in s.
Requests(s) ==
    CASE prof.subscribe.requests = "library" -> <<>>
      [] prof.subscribe.requests = "single" -> [i \in DOMAIN s |-> <<s[i]>>]
      [] prof.subscribe.requests = "batch" ->
            [i \in 1..((Len(s) + RequestSize - 1) \div RequestSize) |->
                SubSeq(s, (i - 1) * RequestSize + 1,
                       IF i * RequestSize < Len(s) THEN i * RequestSize ELSE Len(s))]

NotBad == MarketSet \ bad

\* The entries of a list that are in a set, in their order: entry n of the new
\* list is the one with n of the positions that stay up to its own.
Filtered(s, S) ==
    LET P == {i \in DOMAIN s : s[i] \in S}
        Place(n) == CHOOSE i \in P : Cardinality({j \in P : j <= i}) = n
    IN [n \in 1..Cardinality(P) |-> s[Place(n)]]

\* run_forever after the pause, and on_open up to its first request.  A thread
\* told to stop has two seconds to notice; only ws.close() may last longer.
Connect ==
    /\ pc = "pause" /\ hb \in {"none", "closing"}
    /\ link' = "up" /\ quiet' = FALSE
    /\ since' = version
    /\ StartHeartbeat
    /\ wanted' = Filtered(wanted, NotBad)
    /\ todo' = Requests(wanted')
    /\ pc' = IF todo' = <<>> THEN "reading" ELSE "opening"
    /\ subs' = IF prof.subscribe.requests = "library"
               THEN {m \in Listed : \E i \in DOMAIN wanted' : wanted'[i] = m} ELSE {}
    /\ asked' = <<>> /\ lost' = {}
    /\ UNCHANGED <<prof, pipe, cnt, version, store, bad, retry>>

\* One turn of the loop in on_open.  Sending fails once the link is broken.
Send ==
    /\ pc = "opening"
    /\ \/ /\ link # "down"
          /\ todo' = Tail(todo)
          /\ asked' = Append(asked, [markets |-> Head(todo), pending |-> TRUE])
       \/ /\ link = "down"
          /\ todo' = IF prof.subscribe.carryOn THEN Tail(todo) ELSE <<>>
          /\ UNCHANGED asked
    /\ pc' = IF todo' = <<>> THEN "reading" ELSE "opening"
    /\ UNCHANGED <<prof, linkVars, hbVars, bufferVars, subs, wanted, bad, retry, lost>>

Members(r) == {r.markets[i] : i \in DOMAIN r.markets}
KnownOf(r) == Listed \cap Members(r)

\* The markets the text of a refusal may name.  What it names is read up to the
\* first blank (KuCoin) or from the whole text, with what was subscribed (MEXC).
\* In exact texts MEXC names what was refused, and KuCoin's, which refuses a
\* request as a whole, do not name one market alone if the request had others.
Named(r) ==
    IF ~prof.subscribe.exact THEN SUBSET Members(r)
    ELSE IF prof.subscribe.refused = "dropped" THEN {Members(r) \ Listed}
    ELSE {S \in SUBSET Members(r) : (\E m \in S : S = {m}) => S = Members(r)}

\* The exchange subscribes what it knows of a request.
Accept(r) ==
    /\ subs' = subs \cup KnownOf(r)
    /\ UNCHANGED <<pc, wanted, bad, retry, lost>>

\* Nothing is subscribed, and the worker logs that or does not look at it.
LogRefusal(r) ==
    /\ lost' = lost \cup (KnownOf(r) \ subs)
    /\ UNCHANGED <<pc, subs, wanted, bad, retry>>

\* MEXC: "Not Subscribed" takes the markets it names out of symbol_set.
Drop(r) ==
    /\ subs' = subs \cup KnownOf(r)
    /\ \E S \in Named(r) : wanted' = Filtered(wanted, MarketSet \ S)
    /\ UNCHANGED <<pc, bad, retry, lost>>

\* KuCoin: an error that names one market puts that on the blacklist, whatever
\* was asked for.
Blacklist(r, m) ==
    /\ bad' = bad \cup {m}
    /\ lost' = lost \cup (KnownOf(r) \ subs)
    /\ UNCHANGED <<pc, retry>>

\* Mutant: every market of a refused batch is blamed.
TakeApartBlamesAll(r) ==
    /\ bad' = bad \cup Members(r)
    /\ UNCHANGED <<pc, retry, lost>>

\* Mutant: the first market of a refused batch is not asked for again.
TakeApartSkipsFirst(r) ==
    /\ retry' = retry \o Filtered(Tail(r.markets), NotBad)
    /\ pc' = "retrying"
    /\ UNCHANGED <<bad, lost>>

\* KuCoin: the markets of a batch are asked for one by one.
TakeApart(r) ==
    /\ retry' = retry \o Filtered(r.markets, NotBad)
    /\ pc' = "retrying"
    /\ UNCHANGED <<bad, lost>>

\* KuCoin's error 400 about a topic.  Unless it names one market it stands for the
\* request with its id; a single request has none, and then nothing is named.
Refuse(r) ==
    /\ \E S \in Named(r) :
          IF \E m \in S : S = {m} THEN \E m \in S : Blacklist(r, m)
          ELSE IF r.pending THEN TakeApart(r)
          ELSE /\ lost' = lost \cup (KnownOf(r) \ subs)
               /\ UNCHANGED <<pc, bad, retry>>
    /\ UNCHANGED <<subs, wanted>>

\* An answer to the oldest request is read.
ReadAnswer ==
    /\ pc = "reading" /\ link = "up" /\ asked # <<>>
    /\ asked' = Tail(asked)
    /\ Heard
    /\ UNCHANGED <<prof, link, hbVars, bufferVars, todo>>

\* A request with an unknown market is accepted by the exchanges that ignore it.
Accepted ==
    /\ ReadAnswer
    /\ LET r == Head(asked)
       IN /\ Members(r) \subseteq Listed \/ prof.subscribe.refused = "ignored"
          /\ Accept(r)

\* An unknown market may be refused, and for other reasons any request.
Refused ==
    /\ ReadAnswer
    /\ LET r == Head(asked)
           HasUnknown == ~(Members(r) \subseteq Listed)
       IN \/ LogRefusal(r)
          \/ HasUnknown /\ prof.subscribe.refused = "dropped" /\ Drop(r)
          \/ HasUnknown /\ prof.subscribe.refused = "retried" /\ Refuse(r)

Answer == Accepted \/ Refused

\* One turn of _drain_single_subscribe, which pops a market before it sends.
Retry ==
    /\ pc = "retrying"
    /\ \/ /\ retry = <<>>
          /\ pc' = "reading" /\ UNCHANGED <<retry, asked>>
       \/ /\ retry # <<>>
          /\ retry' = Tail(retry)
          /\ \/ Head(retry) \in bad /\ UNCHANGED <<pc, asked>>
             \/ /\ Head(retry) \notin bad /\ link # "down"
                /\ asked' = Append(asked, [markets |-> <<Head(retry)>>, pending |-> FALSE])
                /\ UNCHANGED pc
             \/ /\ Head(retry) \notin bad /\ link = "down"
                /\ pc' = "reading" /\ UNCHANGED asked
    /\ UNCHANGED <<prof, linkVars, hbVars, bufferVars, todo, subs, wanted, bad, lost>>

-----------------------------------------------------------------------------
(* Frames and the end of a link.                                           *)

\* The commands for one market, of which the frame has some sides.
SideCommands(m, sides) ==
    LET order == IF sides = Sides THEN <<"bids", "asks">> ELSE <<CHOOSE s \in sides : TRUE>>
    IN [i \in DOMAIN order |-> [key |-> <<m, order[i]>>, version |-> version + 1]]

\* A frame with one market, or with two where a frame may hold many.  Frames of
\* blacklisted markets are ignored.
FrameCommands ==
    LET One == {SideCommands(m, s) : m \in subs \ bad,
                   s \in IF prof.frame.sides = "both" THEN {Sides} ELSE (SUBSET Sides) \ {{}}}
    IN One \cup (IF prof.frame.rows = "many"
                 THEN {a \o b : a \in One, b \in One} ELSE {})

\* on_message with a depth frame.  Frames that lack what is required change nothing.
Receive ==
    /\ prof.frame.sides # "book"
    /\ pc = "reading" /\ link = "up" /\ version < MaxFrames
    /\ \E cmds \in FrameCommands : Store(cmds)
    /\ version' = version + 1
    /\ Heard
    /\ UNCHANGED <<prof, pc, link, hbVars, since, requestVars>>

\* A link is lost: run_forever returns when it is broken, Binance's loop raises
\* when its buffer stays empty, websocket-client raises when pongs stay away.
Close ==
    /\ pc = "reading"
    /\ link = "down" \/ (quiet /\ prof.heartbeat.dead \in {"buffer", "library"})
    /\ pc' = "pause" /\ link' = "none" /\ quiet' = FALSE
    /\ hbStop' = (hbStop \/ prof.heartbeat.thread # "none")
    /\ FlushOnClose
    /\ subs' = {} /\ asked' = <<>> /\ lost' = {}
    /\ UNCHANGED <<prof, hb, version, since, todo, wanted, bad, retry>>

\* Supervisor, or the watchdog through it, ends the process and starts another.
\* KuCoin reads its blacklist back, without the markets whose SADD had failed.
Restart ==
    /\ pc' = "pause" /\ link' = "none" /\ quiet' = FALSE
    /\ hb' = "none" /\ hbStop' = FALSE
    /\ pipe' = <<>> /\ cnt' = 0
    /\ todo' = <<>> /\ asked' = <<>> /\ subs' = {} /\ retry' = <<>> /\ lost' = {}
    /\ wanted' = Markets
    /\ bad' \in SUBSET bad
    /\ UNCHANGED <<prof, version, since, store>>

Worker == Connect \/ Send \/ Answer \/ Retry \/ Receive \/ Close
Heartbeat == HeartbeatChecks \/ HeartbeatWakes \/ HeartbeatClosed
Environment == FallSilent \/ Resume \/ Break \/ GoQuiet \/ Pong \/ Restart

Next == Worker \/ Heartbeat \/ Environment

Spec == Init /\ [][Next]_vars

-----------------------------------------------------------------------------
(* Properties.                                                             *)

\* The buffer stays below PIPELINE_BATCH between callbacks: pipe_cnt counts the
\* commands that are queued, for each collector in its way.
BufferIsBounded == Len(pipe) < PipelineBatch

\* What is in Redis never goes back to an older frame: commands reach it in the
\* order of their frames, and none is repeated after a failed execute.
StoredNeverOlder == [][\A k \in Keys : store'[k] >= store[k]]_vars

\* Nothing received over an earlier link is written after a later one is made.
\* Binance's buffer outlives its links.
NothingFromEarlierLink ==
    [][\A k \in Keys :
        store'[k] # store[k] => store'[k] > since \/ prof.buffer.keep]_vars

\* Nothing waits in the buffer for a minute: the threshold of 80 ms is there "to
\* avoid that nothing is written when frames are rare" (mec.py:64).
QuietBufferIsEmpty == quiet => pipe = <<>>

\* As long as the texts of refusals are exact, only markets the exchange does not
\* know are dropped or blacklisted: the one-by-one requests find them.
OnlyUnknownDropped ==
    prof.subscribe.exact =>
        /\ bad \cap Listed = {}
        /\ \A m \in Listed : \E i \in DOMAIN wanted : wanted[i] = m

\* m is in one of the requests.
Among(m, requests) ==
    \E i \in DOMAIN requests : \E j \in DOMAIN requests[i] : requests[i][j] = m

\* m is in one of the requests on their way.
AskedFor(m, asks) == \E i \in DOMAIN asks : m \in Members(asks[i])

\* A refusal that named m took it off the worker's list.
TakenOff(m) == m \in bad \/ ~\E i \in DOMAIN wanted : wanted[i] = m

\* Until its link is lost, a worker has every market the exchange knows subscribed
\* or in hand: in a request to be sent, on its way or asked for again, in whatever
\* order answers, refusals, retries and the requests of its heartbeat thread come.
\* It gives one up only where its request was refused and not taken apart, or by name.
NoMarketForgotten ==
    link \in {"up", "silent"} =>
        \A m \in Listed :
            \/ m \in subs \/ Among(m, todo) \/ AskedFor(m, asked)
            \/ pc = "retrying" /\ \E i \in DOMAIN retry : retry[i] = m
            \/ m \in lost \/ TakenOff(m)

\* A thread started for each link watches its link as long as that is open: no
\* earlier thread, late to end, and no stop meant for one is taken for it.
OpenLinksAreWatched ==
    prof.heartbeat.thread = "fresh" /\ link \in {"up", "silent"} =>
        ~hbStop /\ hb \in {"check", "wait", "resub", "discard"}

\* A collector that looks for dead links leaves one.  KuCoin may lose its
\* heartbeat: its thread can outlive the pause in ws.close().
SilentLinksAreLeft ==
    (/\ link = "silent"
     /\ prof.heartbeat.dead # "never" /\ prof.heartbeat.thread # "reused")
        ~> link # "silent"

\* On a link that stays up every market the exchange knows is subscribed in the
\* end, whatever else is in the requests, but for those given up as above.
KnownMarketsServed ==
    <>[](link = "up") => <>[](\A m \in Listed : m \in subs \cup lost \/ TakenOff(m))
=============================================================================
