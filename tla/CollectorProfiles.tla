-------------------------- MODULE CollectorProfiles --------------------------
(***************************************************************************)
(* What the collectors of app/python do differently.  Each is a thread     *)
(* that subscribes to order books over a websocket and copies the frames   *)
(* to Redis; the scripts share one skeleton (DepthCollector) and differ in *)
(* the four respects below.  A record stands for the handler of one file.  *)
(***************************************************************************)

\* rows: a frame holds one market or many.  sides: what it must hold to be
\* stored.  A book is kept locally and stored when it changes.
FrameRules == [rows : {"one", "many"}, sides : {"each", "both", "book"}]

\* direct: each command goes to Redis at once.  timed: a buffer is also
\* written PIPELINE_FLUSH_MS after the last time.  keep: nothing happens to it
\* when the link is lost.
BufferRules == [direct : BOOLEAN, timed : BOOLEAN, keep : BOOLEAN]

\* thread: a heartbeat for each link, or none, or one that is not started while
\* the last one lives.  dead: what must be missing for a minute before a link
\* that is not closed is given up.
HeartbeatRules ==
    [thread : {"none", "fresh", "reused"},
     dead : {"never", "message", "pong", "buffer", "library"}]

\* requests: one for each market, or for a batch, or none (the library asks).
\* refused: what becomes of a market the exchange does not know.
\* exact: the exchange's refusals name what they are about (DepthCollector.Named).
\* carryOn: the next request is tried after one that could not be sent.
SubscribeRules ==
    [requests : {"single", "batch", "library"},
     refused : {"ignored", "dropped", "retried"},
     exact : BOOLEAN,
     carryOn : BOOLEAN]

Profile ==
    [frame : FrameRules, buffer : BufferRules,
     heartbeat : HeartbeatRules, subscribe : SubscribeRules]

Buffered == [direct |-> FALSE, timed |-> TRUE, keep |-> FALSE]
InBatches ==
    [requests |-> "batch", refused |-> "ignored", exact |-> TRUE, carryOn |-> FALSE]
OneByOne == [InBatches EXCEPT !.requests = "single"]
NoHeartbeat == [thread |-> "none", dead |-> "never"]

-----------------------------------------------------------------------------
(* Bybit, Bitget and BitMart: a heartbeat thread for each connection.      *)

BybitFrame == [rows |-> "one", sides |-> "each"]
BybitBuffer == Buffered
BybitHeartbeat == [thread |-> "fresh", dead |-> "message"]
BybitSubscribe == InBatches
Bybit == [frame |-> BybitFrame, buffer |-> BybitBuffer,
          heartbeat |-> BybitHeartbeat, subscribe |-> BybitSubscribe]

BitgetFrame == [rows |-> "one", sides |-> "each"]
BitgetBuffer == Buffered
BitgetHeartbeat == [thread |-> "fresh", dead |-> "pong"]
BitgetSubscribe == InBatches
Bitget == [frame |-> BitgetFrame, buffer |-> BitgetBuffer,
           heartbeat |-> BitgetHeartbeat, subscribe |-> BitgetSubscribe]

BitmartFrame == [rows |-> "many", sides |-> "each"]
BitmartBuffer == Buffered
BitmartHeartbeat == [thread |-> "fresh", dead |-> "message"]
BitmartSubscribe == InBatches
Bitmart == [frame |-> BitmartFrame, buffer |-> BitmartBuffer,
            heartbeat |-> BitmartHeartbeat, subscribe |-> BitmartSubscribe]

(* OKX, Gate and Huobi answer the exchange's pings and check nothing.      *)

OkxFrame == [rows |-> "many", sides |-> "each"]
OkxBuffer == Buffered
OkxSubscribe == InBatches
Okx == [frame |-> OkxFrame, buffer |-> OkxBuffer,
        heartbeat |-> NoHeartbeat, subscribe |-> OkxSubscribe]

GateFrame == [rows |-> "one", sides |-> "each"]
GateBuffer == [Buffered EXCEPT !.timed = FALSE]
GateSubscribe == OneByOne
Gate == [frame |-> GateFrame, buffer |-> GateBuffer,
         heartbeat |-> NoHeartbeat, subscribe |-> GateSubscribe]

HuobiFrame == [rows |-> "one", sides |-> "both"]
HuobiBuffer == Buffered
HuobiSubscribe == OneByOne
Huobi == [frame |-> HuobiFrame, buffer |-> HuobiBuffer,
          heartbeat |-> NoHeartbeat, subscribe |-> HuobiSubscribe]

(* MEXC only pings, and drops the markets the exchange has refused.        *)

MexcFrame == [rows |-> "one", sides |-> "both"]
MexcBuffer == Buffered
MexcSubscribe == [InBatches EXCEPT !.refused = "dropped"]
Mexc == [frame |-> MexcFrame, buffer |-> MexcBuffer,
         heartbeat |-> NoHeartbeat, subscribe |-> MexcSubscribe]

(* KuCoin asks again, one by one, when a batch is refused.                 *)

KucoinFrame == [rows |-> "one", sides |-> "each"]
KucoinBuffer == Buffered
KucoinHeartbeat == [thread |-> "reused", dead |-> "message"]
KucoinSubscribe == [InBatches EXCEPT !.refused = "retried", !.carryOn = TRUE]
Kucoin == [frame |-> KucoinFrame, buffer |-> KucoinBuffer,
           heartbeat |-> KucoinHeartbeat, subscribe |-> KucoinSubscribe]

(* Binance reads the buffer of a library that keeps the link itself.       *)

BinanceFrame == [rows |-> "one", sides |-> "both"]
BinanceBuffer == [Buffered EXCEPT !.keep = TRUE]
Binance == [frame |-> BinanceFrame, buffer |-> BinanceBuffer,
            heartbeat |-> [thread |-> "none", dead |-> "buffer"],
            subscribe |-> [InBatches EXCEPT !.requests = "library"]]

(* BigONE keeps books, and its heartbeat asks again for broken ones.       *)

BigoneBuffer == Buffered
BigoneHeartbeat == [thread |-> "fresh", dead |-> "message"]
BigoneSubscribe == OneByOne
Bigone == [frame |-> [rows |-> "one", sides |-> "book"], buffer |-> BigoneBuffer,
           heartbeat |-> BigoneHeartbeat, subscribe |-> BigoneSubscribe]

(* The scripts without a buffer.  websocket-client pings for them; when it *)
(* returns the process ends, and supervisor starts another.                *)

DirectBuffer == [direct |-> TRUE, timed |-> FALSE, keep |-> FALSE]
LibraryPing == [thread |-> "none", dead |-> "library"]

LbankFrame == [rows |-> "one", sides |-> "each"]
Lbank == [frame |-> LbankFrame, buffer |-> DirectBuffer,
          heartbeat |-> LibraryPing, subscribe |-> OneByOne]

HotcoinFrame == [rows |-> "one", sides |-> "each"]
Hotcoin == [frame |-> HotcoinFrame, buffer |-> DirectBuffer,
            heartbeat |-> LibraryPing, subscribe |-> OneByOne]

AexFrame == [rows |-> "one", sides |-> "each"]
Aex == [frame |-> AexFrame, buffer |-> DirectBuffer,
        heartbeat |-> LibraryPing, subscribe |-> OneByOne]

CoinexFrame == [rows |-> "one", sides |-> "both"]
Coinex == [frame |-> CoinexFrame, buffer |-> DirectBuffer,
           heartbeat |-> LibraryPing, subscribe |-> InBatches]

-----------------------------------------------------------------------------
\* The exchange's texts leave out or add names.
Inexact(p) == [p EXCEPT !.subscribe.exact = FALSE]

Exchanges ==
    {Bybit, Bitget, Bitmart, Okx, Gate, Huobi, Mexc, Kucoin, Binance, Bigone,
     Lbank, Hotcoin, Aex, Coinex, Inexact(Kucoin), Inexact(Mexc)}
=============================================================================
