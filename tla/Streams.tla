------------------------------ MODULE Streams ------------------------------
(***************************************************************************)
(* The streams of AsyncTWSClient: the generators stream_real_time_bars,    *)
(* stream_tick_by_tick and stream_historical_data, and get_market_depth,   *)
(* which drains a stream of its own.                                       *)
(*                                                                         *)
(* A stream is named by its request id: ids are distinct, as Correlation   *)
(* shows.  Callbacks put items on the queue registered under the id; the   *)
(* generator takes them out as its consumer asks for them.  A step is what *)
(* happens between two awaits, or one callback.                            *)
(***************************************************************************)
EXTENDS Integers, Sequences

CONSTANTS
  Streams,   \* the streams, by request id
  Items,     \* Items[s], bound: items TWS sends on s
  Depth      \* num_rows: the rows of one side of a market depth book

\* Bars and ticks go on until they are cancelled, history ends by itself, and
\* depth is drained for a while.
Kinds == {"live", "history", "depth"}
Rows == 0..Depth - 1

ASSUME BoundsAssumption == (\A s \in Streams : Items[s] \in Nat) /\ Depth \in Nat \ {0}

VARIABLES
  connected,    \* isConnected()
  kind,         \* the method that opened each stream
  pc,           \* where each generator is
  registered,   \* streams with a queue in _stream_queues
  queue,        \* the queue of each of them
  received,     \* what the consumer was given
  srv,          \* TWS's side of each stream
  sent,         \* item callbacks dispatched
  verdict,      \* the first terminating callback dispatched
  cancelled,    \* streams whose cancel was sent
  historical_data, \* bars accumulated under the id, for want of a queue
  market_depth, \* the book: row -> number of the update it holds, 0 if none
  levels,       \* the rows TWS holds, best first
  shifted       \* history: streams whose TWS moved a row to another position

consumer == <<pc, registered, queue, received, cancelled>>
tws == <<srv, sent, verdict>>
books == <<market_depth, levels, shifted>>
vars == <<connected, kind, consumer, tws, historical_data, books>>

Item(n) == [mark |-> "item", n |-> n]
\* Faulty: the end is marked by None, as if nothing had come.
EndsWithNone == [mark |-> "none", n |-> 0]
HistoricalEnd == [mark |-> "end", n |-> 0]
Error == [mark |-> "error", n |-> 0]

\* The generator is suspended in queue.get(), has yielded, was dropped by its
\* consumer but not closed yet, or drains updates for the settle time.
Active == {"pulling", "yielded", "dropped", "settling"}
Finished == {"raised", "ended", "timed_out", "closed", "returned"}

TypeOK ==
  /\ connected \in BOOLEAN
  /\ kind \in [Streams -> Kinds]
  /\ pc \in [Streams -> {"idle"} \cup Active \cup Finished]
  /\ registered \subseteq Streams
  /\ queue \in [Streams -> Seq([mark : {"item", "end", "error"}, n : Nat])]
  /\ received \in [Streams -> Seq(Nat)]
  /\ srv \in [Streams -> {"none", "open", "over", "failed"}]
  /\ sent \in [Streams -> Nat]
  /\ verdict \in [Streams -> {"none", "end", "error"}]
  /\ cancelled \subseteq Streams
  /\ historical_data \in [Streams -> Nat]
  /\ market_depth \in [Streams -> [Rows -> Nat]]
  /\ levels \in [Streams -> Seq(Nat)]
  /\ shifted \subseteq Streams

Init ==
  /\ connected = TRUE
  /\ kind \in [Streams -> Kinds]
  /\ pc = [s \in Streams |-> "idle"]
  /\ registered = {}
  /\ queue = [s \in Streams |-> <<>>]
  /\ received = [s \in Streams |-> <<>>]
  /\ srv = [s \in Streams |-> "none"]
  /\ sent = [s \in Streams |-> 0]
  /\ verdict = [s \in Streams |-> "none"]
  /\ cancelled = {}
  /\ historical_data = [s \in Streams |-> 0]
  /\ market_depth = [s \in Streams |-> [p \in Rows |-> 0]]
  /\ levels = [s \in Streams |-> <<>>]
  /\ shifted = {}

(***************************************************************************)
(* The generators                                                          *)
(***************************************************************************)

\* The first step: register the queue, send the request, and wait for an item.
Open(s) ==
  /\ pc[s] = "idle"
  /\ connected
  /\ pc' = [pc EXCEPT ![s] = "pulling"]
  /\ registered' = registered \cup {s}
  /\ srv' = [srv EXCEPT ![s] = "open"]
  /\ UNCHANGED <<connected, kind, queue, received, cancelled, sent, verdict,
                 historical_data, books>>

\* With no connection EClient reports error 504 from inside the request: the
\* queue is there already, and the first get() raises it.
OpenRefused(s) ==
  /\ pc[s] = "idle"
  /\ ~connected
  /\ pc' = [pc EXCEPT ![s] = "raised"]
  /\ UNCHANGED <<connected, kind, registered, queue, received, cancelled, tws,
                 historical_data, books>>

\* The finally clause: cancel, unless TWS is known to have ended the stream,
\* and forget the queue.  With no connection the cancel is refused.
Finish(s, outcome, cancels) ==
  /\ pc' = [pc EXCEPT ![s] = outcome]
  /\ cancelled' = IF cancels /\ connected THEN cancelled \cup {s} ELSE cancelled
  /\ registered' = registered \ {s}
  /\ queue' = [queue EXCEPT ![s] = <<>>]
  /\ historical_data' = [historical_data EXCEPT ![s] = 0]
  /\ UNCHANGED <<connected, kind, received, tws, books>>

\* queue.get() has an item: its caller was waiting for it, or calls it now.
Gets(s, mark) ==
  /\ pc[s] \in {"pulling", "yielded", "settling"}
  /\ queue[s] # <<>> /\ Head(queue[s]).mark = mark

\* The consumer asks for the next item and there is none yet.
Pull(s) ==
  /\ pc[s] = "yielded"
  /\ queue[s] = <<>>
  /\ pc' = [pc EXCEPT ![s] = "pulling"]
  /\ UNCHANGED <<connected, kind, registered, queue, received, cancelled, tws,
                 historical_data, books>>

\* Yield the item; get_market_depth only counts on the callback's bookkeeping.
TakeItem(s) ==
  /\ Gets(s, "item")
  /\ pc' = [pc EXCEPT ![s] = IF kind[s] = "depth" THEN "settling" ELSE "yielded"]
  /\ received' = [received EXCEPT ![s] = Append(@, Head(queue[s]).n)]
  /\ queue' = [queue EXCEPT ![s] = Tail(@)]
  /\ UNCHANGED <<connected, kind, registered, cancelled, tws, historical_data, books>>

\* Faulty: the end of the history is taken for the end of the subscription.
EndNeedsNoCancel(s) == Gets(s, "end") /\ Finish(s, "ended", FALSE)

\* _HISTORICAL_END: leave the loop.
TakeEnd(s) == Gets(s, "end") /\ Finish(s, "ended", TRUE)

\* Faulty: server_terminated is not set.
CancelsFailed(s) == Gets(s, "error") /\ Finish(s, "raised", TRUE)

\* A TWSError: raise it.
TakeError(s) == Gets(s, "error") /\ Finish(s, "raised", FALSE)

\* The timer of wait_for fires: before every bar of a history, before the
\* first update of a book.  It may win over an item put in the same pass of
\* the event loop.
Timeout(s) ==
  /\ pc[s] = "pulling"
  /\ kind[s] # "live"
  /\ Finish(s, "timed_out", TRUE)

\* The settle time of get_market_depth is over, whatever the queue holds.
SettleOver(s) ==
  /\ pc[s] = "settling"
  /\ Finish(s, "returned", TRUE)

\* The consumer breaks out of its loop, or fails: the event loop is told to
\* close the generator, and does so in a task of its own.
Break(s) ==
  /\ pc[s] = "yielded"
  /\ pc' = [pc EXCEPT ![s] = "dropped"]
  /\ UNCHANGED <<connected, kind, registered, queue, received, cancelled, tws,
                 historical_data, books>>

Close(s) == pc[s] = "dropped" /\ Finish(s, "closed", TRUE)

\* The consumer's task is cancelled while it waits for an item.
TaskCancelled(s) ==
  /\ pc[s] \in {"pulling", "settling"}
  /\ Finish(s, "closed", TRUE)

(***************************************************************************)
(* Callbacks                                                               *)
(***************************************************************************)

\* Faulty: the newest item overtakes the others.
PutFirst(s, x) ==
  queue' = IF s \in registered THEN [queue EXCEPT ![s] = <<x>> \o @] ELSE queue

\* put_nowait on the queue registered under the id, if there is one.
Put(s, x) ==
  queue' = IF s \in registered THEN [queue EXCEPT ![s] = Append(@, x)] ELSE queue

\* TWS may send another item of s.
Sends(s) ==
  /\ connected
  /\ srv[s] = "open" /\ verdict[s] = "none"
  /\ sent[s] < Items[s]
  /\ sent' = [sent EXCEPT ![s] = @ + 1]
  /\ UNCHANGED <<connected, kind, pc, registered, received, cancelled, srv, verdict>>

\* realtimeBar, tickByTickAllLast, tickByTickBidAsk, tickByTickMidPoint.
LiveCallback(s) ==
  /\ kind[s] = "live"
  /\ Sends(s)
  /\ Put(s, Item(sent[s] + 1))
  /\ UNCHANGED <<historical_data, books>>

\* Faulty: bars are accumulated for streams as well.
AccumulatesToo(s) ==
  /\ kind[s] = "history"
  /\ Sends(s)
  /\ Put(s, Item(sent[s] + 1))
  /\ historical_data' = [historical_data EXCEPT ![s] = @ + 1]
  /\ UNCHANGED books

\* historicalData: queue the bar, or accumulate it if nobody streams.
HistoricalData(s) ==
  /\ kind[s] = "history"
  /\ Sends(s)
  /\ Put(s, Item(sent[s] + 1))
  /\ historical_data' = IF s \in registered THEN historical_data
                        ELSE [historical_data EXCEPT ![s] = @ + 1]
  /\ UNCHANGED books

\* historicalDataEnd.  With keep_up_to_date the request stays open at TWS.
HistoricalDataEnd(s) ==
  /\ kind[s] = "history"
  /\ connected
  /\ srv[s] = "open" /\ verdict[s] = "none"
  /\ verdict' = [verdict EXCEPT ![s] = "end"]
  /\ srv' \in {srv, [srv EXCEPT ![s] = "over"]}
  /\ Put(s, HistoricalEnd)
  /\ UNCHANGED <<connected, kind, pc, registered, received, cancelled, sent,
                 historical_data, books>>

\* What an update does to the rows TWS holds: one inserted or deleted above
\* others moves them, and one pushed off the end of the book is gone.
Without(rows, p) == SubSeq(rows, 1, p) \o SubSeq(rows, p + 2, Len(rows))
With(rows, p, n) ==
  SubSeq(SubSeq(rows, 1, p) \o <<n>> \o SubSeq(rows, p + 1, Len(rows)),
         1, IF Len(rows) < Depth THEN Len(rows) + 1 ELSE Depth)

TwsChanges(s, p, operation, n) ==
  LET rows == levels[s] IN
  CASE operation = "insert" -> p <= Len(rows) /\ levels' = [levels EXCEPT ![s] = With(rows, p, n)]
    [] operation = "update" -> p < Len(rows) /\ levels' = [levels EXCEPT ![s][p + 1] = n]
    [] operation = "delete" -> p < Len(rows) /\ levels' = [levels EXCEPT ![s] = Without(rows, p)]

\* Faulty: a delete leaves the row where it is.
NeverDeletes(s, p, operation, n) ==
  market_depth' = IF operation = "delete" THEN market_depth
                  ELSE [market_depth EXCEPT ![s][p] = n]

\* The book of the client: set the row, or remove it.
BookChanges(s, p, operation, n) ==
  market_depth' = [market_depth EXCEPT ![s][p] = IF operation = "delete" THEN 0 ELSE n]

\* updateMktDepth, updateMktDepthL2: the book changes whoever listens.
UpdateMktDepth(s) ==
  /\ kind[s] = "depth"
  /\ Sends(s)
  /\ Put(s, Item(sent[s] + 1))
  /\ \E p \in Rows, operation \in {"insert", "update", "delete"} :
       /\ TwsChanges(s, p, operation, sent[s] + 1)
       /\ BookChanges(s, p, operation, sent[s] + 1)
       /\ shifted' = IF \/ operation = "insert" /\ p < Len(levels[s])
                        \/ operation = "delete" /\ p + 1 < Len(levels[s])
                       THEN shifted \cup {s} ELSE shifted
  /\ UNCHANGED historical_data

\* Faulty: streaming consumers are not told.
ErrorNotQueued(s, code) ==
  /\ connected
  /\ srv[s] = "open"
  /\ srv' = [srv EXCEPT ![s] = "failed"]
  /\ verdict' = IF verdict[s] = "none" THEN [verdict EXCEPT ![s] = "error"] ELSE verdict
  /\ UNCHANGED <<connected, kind, consumer, sent, historical_data, books>>

\* error: an informational code is only recorded; any other ends the request
\* at TWS, and is queued behind the items.
ErrorCallback(s, code) ==
  /\ connected
  /\ srv[s] = "open"
  /\ IF code = "info" THEN UNCHANGED <<srv, verdict, queue>>
     ELSE /\ srv' = [srv EXCEPT ![s] = "failed"]
          /\ verdict' = IF verdict[s] = "none" THEN [verdict EXCEPT ![s] = "error"] ELSE verdict
          /\ Put(s, Error)
  /\ UNCHANGED <<connected, kind, pc, registered, received, cancelled, sent,
                 historical_data, books>>

(***************************************************************************)
(* TWS and the network                                                     *)
(***************************************************************************)

ServerCancels(s) ==
  /\ connected
  /\ s \in cancelled
  /\ srv[s] = "open"
  /\ srv' = [srv EXCEPT ![s] = "over"]
  /\ UNCHANGED <<connected, kind, consumer, sent, verdict, historical_data, books>>

\* Nobody puts anything on a queue when the connection drops.
Drop ==
  /\ connected
  /\ connected' = FALSE
  /\ UNCHANGED <<kind, consumer, tws, historical_data, books>>

\* What the event loop and a consumer that goes on do for a stream.
Advance(s) ==
  \/ Pull(s) \/ TakeItem(s) \/ TakeEnd(s) \/ TakeError(s)
  \/ Timeout(s) \/ SettleOver(s) \/ Break(s) \/ Close(s)

Next ==
  \/ \E s \in Streams :
       \/ Open(s) \/ OpenRefused(s) \/ Advance(s) \/ TaskCancelled(s)
       \/ LiveCallback(s) \/ HistoricalData(s) \/ HistoricalDataEnd(s)
       \/ UpdateMktDepth(s)
       \/ \E code \in {"info", "fatal"} : ErrorCallback(s, code)
       \/ ServerCancels(s)
  \/ Drop

Spec == Init /\ [][Next]_vars

\* The event loop runs every ready task and every timer that is due, and a
\* consumer that was given an item asks for another or leaves.  Nothing is
\* assumed of TWS.
FairSpec == Spec /\ \A s \in Streams : WF_vars(Advance(s))

(***************************************************************************)
(* Properties                                                              *)
(***************************************************************************)

Outcome(s) ==
  CASE pc[s] = "raised" -> IF srv[s] = "none" THEN "refused" ELSE "error"
    [] pc[s] = "ended" -> "end"
    [] pc[s] = "returned" -> "snapshot"
    [] pc[s] \in {"timed_out", "closed"} -> "stopped"
    [] OTHER -> "none"

Contract == INSTANCE StreamContract WITH outcome <- [s \in Streams |-> Outcome(s)]

\* Queues, end marks and exceptions implement a stream: nothing is lost,
\* repeated or reordered, and an error or an end comes after the last item.
ImplementsContract == Contract!Spec

\* However a stream ends, and whenever, it leaves no queue behind, and no
\* request that TWS still serves, unless there is no connection to cancel it.
NothingLeftRunning ==
  \A s \in Streams :
    pc[s] \in Finished =>
      /\ s \notin registered /\ queue[s] = <<>>
      /\ srv[s] = "open" => s \in cancelled \/ ~connected

\* TWS is asked to cancel a request it has failed only by a generator that
\* does not know: the error is in its queue, and it leaves for another reason.
CancelsBlindly ==
  [][\A s \in cancelled' \ cancelled :
       srv[s] = "failed" =>
         /\ pc'[s] # "raised"
         /\ \E i \in 1..Len(queue[s]) : queue[s][i] = Error]_vars

\* A stream does not fill the accumulator of get_historical_data.  Only bars
\* that come after its consumer has left do, and nothing removes them.
AccumulatesOnlyLate ==
  \A s \in Streams :
    historical_data[s] > 0 => pc[s] \in {"closed", "timed_out"} /\ kind[s] = "history"

\* The book holds the rows TWS holds, each at its position, as long as TWS
\* neither inserts nor deletes a row above another one.
BookIsExactUnlessShifted ==
  \A s \in Streams \ shifted : \A p \in Rows :
    market_depth[s][p] = IF p < Len(levels[s]) THEN levels[s][p + 1] ELSE 0

\* A stream that TWS failed, a history, a book and a dropped generator come
\* to an end, if the consumer goes on.  Bars and ticks need not: when the
\* connection drops nobody tells them.
StreamsEnd ==
  \A s \in Streams :
    pc[s] \in Active /\ (kind[s] # "live" \/ srv[s] = "failed" \/ pc[s] = "dropped")
      ~> pc[s] \in Finished

(***************************************************************************)
(* Statements of the documentation that the code does not keep             *)
(***************************************************************************)

\* _safe_cancel "should NOT be called after the server has already terminated
\* the subscription with an error" (docstring).
NoCancelAfterError ==
  [][\A s \in cancelled' \ cancelled : srv[s] # "failed"]_vars
=============================================================================
