---------------------------- MODULE Correlation ----------------------------
(***************************************************************************)
(* Request/response correlation of AsyncTWSClient (tws_client.py).         *)
(*                                                                         *)
(* A call is one invocation of a one-shot get_* method.  It takes a        *)
(* request id, resets the accumulator its callbacks fill, sends the        *)
(* request, registers a success event and an error event under string      *)
(* keys, and waits for either one or for its timeout.  EWrapper callbacks, *)
(* run by the read loop on the same event loop, fill the accumulators and  *)
(* set the events.                                                         *)
(*                                                                         *)
(* A step of the model is what one asyncio task does between two awaits,   *)
(* or one callback dispatched by the read loop.  TWS is the environment:   *)
(* a callback is the dispatch of a message TWS sent, so that every delay   *)
(* of the network is a delay of the callback.                              *)
(***************************************************************************)
EXTENDS Integers

CONSTANTS
  Calls,        \* the invocations of get_* methods
  Method,       \* Method[c]: the event name the invoked method waits for
  Items,        \* Items[c]: item callbacks TWS answers the request of c with
  Updates,      \* bound: callbacks of a live subscription after its answer
  MaxId,        \* bound: the largest request id
  StaleNextId,  \* TRUE iff TWS may announce an id that was already used
  NoCall,       \* absence of an event, a call or an object
  Push          \* source of the managedAccounts sent at the handshake

(***************************************************************************)
(* The methods, named by the event each waits for.                         *)
(***************************************************************************)

\* Requests that carry a fresh request id.
ByReqId ==
  {"contract_details", "executions", "account_summary", "market_data",
   "historical_data", "historical_schedule", "head_timestamp",
   "matching_symbols", "option_chain", "histogram", "historical_ticks",
   "pnl", "fundamental_data"}

\* Requests without an id: all of them wait under id 0.
Shared ==
  {"current_time", "open_orders", "portfolio", "positions",
   "managed_accounts", "news_providers", "scanner_parameters",
   "completed_orders"}

Methods == ByReqId \cup Shared

\* Answered by item callbacks that fill an accumulator, then an end callback.
Accumulates ==
  {"contract_details", "executions", "account_summary", "market_data",
   "historical_data", "option_chain", "historical_ticks", "open_orders",
   "portfolio", "positions", "completed_orders"}

\* The last item callback is the end callback (done=True).
EndsWithItem == {"historical_ticks"}

\* Subscriptions: TWS goes on sending after the answer, until cancelled.
Subscribes == {"account_summary", "pnl", "portfolio", "positions"}

\* A successful call sends the matching cancel before it returns.
PairedCancel == Subscribes \cup {"head_timestamp", "histogram", "fundamental_data"}

Ids == 0..MaxId
None == 0                  \* next_valid_id_value before any nextValidId
NoValidId == -1            \* reqId of the errors TWS cannot correlate
ErrIds == {NoValidId} \cup Ids
\* managed_accounts is always a key: TWS answers it unasked.
Keys == ({Method[c] : c \in Calls} \cup {"managed_accounts"}) \X Ids
Sources == Calls \cup {Push}

ASSUME CallsAssumption == Push \notin Calls /\ NoCall \notin Calls
ASSUME MethodAssumption == Method \in [Calls -> Methods]
ASSUME ItemsAssumption ==
  /\ Items \in [Calls -> Nat]
  /\ \A c \in Calls : Method[c] \in EndsWithItem => Items[c] > 0
ASSUME BoundsAssumption == Updates \in Nat /\ MaxId \in Nat
ASSUME StaleNextIdAssumption == StaleNextId \in BOOLEAN

VARIABLES
  connected,             \* isConnected()
  next_valid_id_value,   \* next request id, None before the handshake ends
  managed_accounts_value,\* cached managedAccounts
  response_events,       \* success key -> event, named by the call that created it
  error_events,          \* error key   -> event, idem
  response_data,         \* success key -> data stored by the callback
  error_data,            \* error key   -> call whose request failed
  fired,                 \* events that are set
  accumulators,          \* key -> list or dict the item callbacks fill
  contents,              \* object -> how many items of each source it holds
  pc,                    \* where each call is
  id,                    \* request id of each call
  waits,                 \* the two events each call awaits
  done,                  \* waiter tasks of each call that have completed
  result,                \* what each call returned or raised
  srv,                   \* TWS's side of each request
  sent,                  \* item or payload callbacks dispatched per request
  cancelled,             \* requests whose paired cancel was sent
  overlapped             \* history: id-0 calls that met another of their kind

client == <<next_valid_id_value, managed_accounts_value>>
tables == <<response_events, error_events, response_data, error_data, fired>>
objects == <<accumulators, contents>>
tasks == <<pc, id, waits, done, result>>
tws == <<srv, sent, cancelled>>
vars == <<connected, client, tables, objects, tasks, tws, overlapped>>

(***************************************************************************)
(* Data.  A list or dict is an object, named by the call that reset the    *)
(* accumulator; its contents are counted per source.  A callback stores    *)
(* either a reference to an object or a value of its own.                  *)
(***************************************************************************)
Zero == [s \in Sources |-> 0]
One(s) == [Zero EXCEPT ![s] = 1]

NoData == [kind |-> "none", obj |-> NoCall, bag |-> Zero]
Ref(o) == [kind |-> "ref", obj |-> o, bag |-> Zero]
Val(b) == [kind |-> "val", obj |-> NoCall, bag |-> b]
Fault(s) == [kind |-> "fault", obj |-> s, bag |-> Zero]

Data ==
  [kind : {"none", "ref", "val", "fault"}, obj : Calls \cup {NoCall},
   bag : [Sources -> Nat]]

Value(d) == IF d.kind = "ref" THEN contents[d.obj] ELSE d.bag

Key(c) == <<Method[c], id[c]>>
\* Faulty: an error TWS cannot correlate is taken for one of id 0.
UncorrelatedIsZero(c) == id[c]

ErrId(c) == IF Method[c] \in ByReqId THEN id[c] ELSE NoValidId

TypeOK ==
  /\ connected \in BOOLEAN
  /\ next_valid_id_value \in 0..MaxId + 1
  /\ managed_accounts_value \in Data
  /\ response_events \in [Keys -> Calls \cup {NoCall}]
  /\ error_events \in [ErrIds -> Calls \cup {NoCall}]
  /\ response_data \in [Keys -> Data]
  /\ error_data \in [ErrIds -> Calls \cup {NoCall}]
  /\ fired \subseteq {"ok", "err"} \X Calls
  /\ accumulators \in [Keys -> Calls \cup {NoCall}]
  /\ contents \in [Calls -> [Sources -> Nat]]
  /\ pc \in [Calls -> {"idle", "need_id", "waiting", "returned",
                       "tws_error", "timed_out", "no_id"}]
  /\ id \in [Calls -> Ids]
  /\ waits \in [Calls -> [ok : Calls \cup {NoCall}, err : Calls \cup {NoCall}]]
  /\ done \in [Calls -> SUBSET {"ok", "err"}]
  /\ result \in [Calls -> Data]
  /\ srv \in [Calls -> {"none", "open", "live", "ended", "failed", "gone"}]
  /\ sent \in [Calls -> Nat]
  /\ cancelled \subseteq Calls
  /\ overlapped \subseteq Calls

Init ==
  /\ connected = TRUE
  /\ next_valid_id_value = None
  /\ managed_accounts_value = NoData
  /\ response_events = [k \in Keys |-> NoCall]
  /\ error_events = [i \in ErrIds |-> NoCall]
  /\ response_data = [k \in Keys |-> NoData]
  /\ error_data = [i \in ErrIds |-> NoCall]
  /\ fired = {}
  /\ accumulators = [k \in Keys |-> NoCall]
  /\ contents = [o \in Calls |-> Zero]
  /\ pc = [c \in Calls |-> "idle"]
  /\ id = [c \in Calls |-> 0]
  /\ waits = [c \in Calls |-> [ok |-> NoCall, err |-> NoCall]]
  /\ done = [c \in Calls |-> {}]
  /\ result = [c \in Calls |-> NoData]
  /\ srv = [c \in Calls |-> "none"]
  /\ sent = [c \in Calls |-> 0]
  /\ cancelled = {}
  /\ overlapped = {}

(***************************************************************************)
(* Signalling                                                              *)
(***************************************************************************)

\* Event.set() of the event found in a table, if there is one.
Fire(kind, event) == IF event = NoCall THEN {} ELSE {<<kind, event>>}

\* _set_event for a success key: store the data, wake whoever is registered.
SetEvent(k, d) ==
  /\ response_data' = [response_data EXCEPT ![k] = d]
  /\ fired' = fired \cup Fire("ok", response_events[k])
  /\ UNCHANGED <<response_events, error_events, error_data>>

\* Faulty: the error is stored but its event is not set.
StoresErrorOnly(i, c) ==
  /\ error_data' = [error_data EXCEPT ![i] = c]
  /\ UNCHANGED fired

\* _set_event for an error key.
SetError(i, c) ==
  /\ error_data' = [error_data EXCEPT ![i] = c]
  /\ fired' = fired \cup Fire("err", error_events[i])

(***************************************************************************)
(* Calls                                                                   *)
(***************************************************************************)

\* Calls of the kind of c that c can meet in the tables or in TWS's answers.
Rivals(c) ==
  {d \in Calls \ {c} : /\ Method[d] = Method[c]
                       /\ Method[c] \in Shared
                       /\ pc[d] = "waiting" \/ srv[d] \in {"open", "live"}}

\* From the request to the first await of _wait_for_response: reset the
\* accumulator, send the request (EClient reports error 504 at once, before
\* any event is registered, when there is no connection), look up or create
\* the two events and create the two waiter tasks.
Issue(c, i) ==
  LET k == <<Method[c], i>>
      e == IF Method[c] \in ByReqId THEN i ELSE NoValidId
      ok == IF response_events[k] = NoCall THEN c ELSE response_events[k]
      err == IF error_events[i] = NoCall THEN c ELSE error_events[i]
  IN /\ IF Method[c] \in Accumulates
          THEN accumulators' = [accumulators EXCEPT ![k] = c]
          ELSE UNCHANGED accumulators
     /\ IF connected
          THEN /\ srv' = [srv EXCEPT ![c] = "open"]
               /\ UNCHANGED <<error_data, fired>>
          ELSE SetError(e, c) /\ UNCHANGED srv
     /\ response_events' = [response_events EXCEPT ![k] = ok]
     /\ error_events' = [error_events EXCEPT ![i] = err]
     /\ waits' = [waits EXCEPT ![c] = [ok |-> ok, err |-> err]]
     /\ id' = [id EXCEPT ![c] = i]
     /\ pc' = [pc EXCEPT ![c] = "waiting"]
     /\ overlapped' = IF Rivals(c) = {} THEN overlapped
                      ELSE overlapped \cup {c} \cup Rivals(c)
     /\ UNCHANGED <<connected, managed_accounts_value, response_data, contents,
                    done, result, sent, cancelled>>

\* Faulty: get_next_valid_id does not advance the counter.
ReusesId(c) ==
  /\ next_valid_id_value \in 1..MaxId
  /\ UNCHANGED next_valid_id_value
  /\ Issue(c, next_valid_id_value)

\* get_next_valid_id hands out the cached id; the request follows at once.
IssueWithId(c) ==
  /\ next_valid_id_value \in 1..MaxId
  /\ next_valid_id_value' = next_valid_id_value + 1
  /\ Issue(c, next_valid_id_value)

\* A get_* method that needs an id is called once the id is known.
CallById(c) ==
  /\ pc[c] = "idle"
  /\ Method[c] \in ByReqId
  /\ IssueWithId(c)

\* The same before nextValidId has arrived: wait for it.
CallEarly(c) ==
  /\ pc[c] = "idle"
  /\ Method[c] \in ByReqId
  /\ next_valid_id_value = None
  /\ pc' = [pc EXCEPT ![c] = "need_id"]
  /\ UNCHANGED <<connected, client, tables, objects, id, waits, done, result,
                 tws, overlapped>>

\* The wait for nextValidId is over.
GotId(c) ==
  /\ pc[c] = "need_id"
  /\ IssueWithId(c)

\* The wait for nextValidId times out (asyncio.TimeoutError).
GaveUpOnId(c) ==
  /\ pc[c] = "need_id"
  /\ pc' = [pc EXCEPT ![c] = "no_id"]
  /\ UNCHANGED <<connected, client, tables, objects, id, waits, done, result,
                 tws, overlapped>>

\* A get_* method without a request id is called.
CallShared(c) ==
  /\ pc[c] = "idle"
  /\ Method[c] \in Shared
  /\ Method[c] = "managed_accounts" => managed_accounts_value = NoData
  /\ Issue(c, 0)
  /\ UNCHANGED next_valid_id_value

\* get_managed_accounts answers from its cache.
CallCached(c) ==
  /\ pc[c] = "idle"
  /\ Method[c] = "managed_accounts"
  /\ managed_accounts_value # NoData
  /\ pc' = [pc EXCEPT ![c] = "returned"]
  /\ result' = [result EXCEPT ![c] = managed_accounts_value]
  /\ UNCHANGED <<connected, client, tables, objects, id, waits, done, tws, overlapped>>

\* A waiter task runs after its event was set.
WaiterDone(c, kind) ==
  /\ pc[c] = "waiting"
  /\ kind \notin done[c]
  /\ <<kind, waits[c][kind]>> \in fired
  /\ done' = [done EXCEPT ![c] = @ \cup {kind}]
  /\ UNCHANGED <<connected, client, tables, objects, pc, id, waits, result,
                 tws, overlapped>>

\* Faulty: only the error key is cleaned up.
KeepsSuccess(c, cancels) ==
  /\ error_events' = [error_events EXCEPT ![id[c]] = NoCall]
  /\ error_data' = [error_data EXCEPT ![id[c]] = NoCall]
  /\ cancelled' = IF cancels THEN cancelled \cup {c} ELSE cancelled
  /\ UNCHANGED <<response_events, response_data>>

\* _cleanup_event of both keys, whoever created the events stored there.
\* The paired cancel of a call that returns is sent in the same step; with
\* no connection EClient reports error 504 for it instead.
Cleanup(c, cancels) ==
  /\ response_events' = [response_events EXCEPT ![Key(c)] = NoCall]
  /\ response_data' = [response_data EXCEPT ![Key(c)] = NoData]
  /\ error_events' = [error_events EXCEPT ![id[c]] = NoCall]
  /\ error_data' = [i \in ErrIds |-> IF cancels /\ ~connected /\ i = ErrId(c) THEN c
                                     ELSE IF i = id[c] THEN NoCall
                                     ELSE error_data[i]]
  /\ cancelled' = IF cancels /\ connected THEN cancelled \cup {c} ELSE cancelled

Finish(c, outcome, data) ==
  /\ pc' = [pc EXCEPT ![c] = outcome]
  /\ result' = [result EXCEPT ![c] = data]
  /\ UNCHANGED <<connected, client, fired, objects, id, waits, done, srv, sent, overlapped>>

\* Faulty: the event is returned in place of the data.
ReturnsEvent(c) ==
  /\ pc[c] = "waiting"
  /\ "ok" \in done[c]
  /\ Finish(c, "returned", response_events[Key(c)])
  /\ Cleanup(c, Method[c] \in PairedCancel)

\* The success task is done: it wins even if the error task is done too.
ReturnData(c) ==
  /\ pc[c] = "waiting"
  /\ "ok" \in done[c]
  /\ Finish(c, "returned", response_data[Key(c)])
  /\ Cleanup(c, Method[c] \in PairedCancel)

\* Only the error task is done.
RaiseTWSError(c) ==
  /\ pc[c] = "waiting"
  /\ done[c] = {"err"}
  /\ Finish(c, "tws_error",
            IF error_data[id[c]] = NoCall THEN NoData ELSE Fault(error_data[id[c]]))
  /\ Cleanup(c, FALSE)

\* Faulty: every method that accumulates returns a part of its answer.
PartialOnTimeout(c) ==
  /\ pc[c] = "waiting"
  /\ done[c] = {}
  /\ Method[c] \in Accumulates /\ accumulators[Key(c)] # NoCall
  /\ Finish(c, "returned", Ref(accumulators[Key(c)]))
  /\ Cleanup(c, FALSE)

\* Faulty: the wait has no timeout.
NoTimeout(c) == c \notin Calls

\* The timeout expires before a waiter task is done.  get_executions then
\* returns what it has accumulated; every other method raises.
Timeout(c) ==
  /\ pc[c] = "waiting"
  /\ done[c] = {}
  /\ IF Method[c] = "executions"
       THEN Finish(c, "returned", IF contents[accumulators[Key(c)]] = Zero
                                    THEN Val(Zero) ELSE Ref(accumulators[Key(c)]))
       ELSE Finish(c, "timed_out", NoData)
  /\ Cleanup(c, FALSE)

(***************************************************************************)
(* Callbacks                                                               *)
(***************************************************************************)

\* nextValidId: the cached id is overwritten by what TWS announces.
NextValidId(v) ==
  /\ connected
  /\ StaleNextId \/ v >= next_valid_id_value
  /\ next_valid_id_value' = v
  /\ UNCHANGED <<connected, managed_accounts_value, tables, objects, tasks, tws, overlapped>>

\* managedAccounts sent by TWS at the first handshake.  What later ones repeat
\* no call can see: with the value cached none waits for it.
PushManagedAccounts ==
  /\ connected
  /\ managed_accounts_value = NoData
  /\ managed_accounts_value' = Val(One(Push))
  /\ SetEvent(<<"managed_accounts", 0>>, Val(One(Push)))
  /\ UNCHANGED <<connected, next_valid_id_value, objects, tasks, tws, overlapped>>

\* Item callbacks TWS may still send for c: those of the answer, then the
\* updates of a subscription.
MoreItems(c) ==
  \/ /\ srv[c] = "open"
     /\ sent[c] < IF Method[c] \in EndsWithItem THEN Items[c] - 1 ELSE Items[c]
  \/ srv[c] = "live" /\ sent[c] < Items[c] + Updates

AddItem(c) ==
  /\ contents' = [contents EXCEPT ![accumulators[Key(c)]][c] = @ + 1]
  /\ sent' = [sent EXCEPT ![c] = @ + 1]

\* contractDetails, execDetails, accountSummary, tickPrice, historicalData,
\* position, updatePortfolio, openOrder, ...: add to the current accumulator.
ItemCallback(c) ==
  /\ connected
  /\ Method[c] \in Accumulates
  /\ MoreItems(c)
  /\ AddItem(c)
  /\ UNCHANGED <<connected, client, tables, accumulators, tasks, srv, cancelled, overlapped>>

AfterAnswer(c) == IF Method[c] \in Subscribes THEN "live" ELSE "ended"

\* What the end callback hands to _set_event: a list copy for completed
\* orders, the live accumulator of an id-0 request, or the accumulator
\* looked up by reqId with an empty default.
Accumulated(c) ==
  LET o == accumulators[Key(c)]
  IN IF Method[c] = "completed_orders" THEN Val(contents[o])
     ELSE IF Method[c] \in ByReqId /\ contents[o] = Zero THEN Val(Zero)
     ELSE Ref(o)

\* contractDetailsEnd, execDetailsEnd, accountSummaryEnd, positionEnd, ...
EndCallback(c) ==
  /\ connected
  /\ Method[c] \in Accumulates \ EndsWithItem
  /\ srv[c] = "open"
  /\ sent[c] = Items[c]
  /\ SetEvent(Key(c), Accumulated(c))
  /\ srv' = [srv EXCEPT ![c] = AfterAnswer(c)]
  /\ UNCHANGED <<connected, client, objects, tasks, sent, cancelled, overlapped>>

\* historicalTicks with done=True: extend the list and signal, in one callback.
LastTicksCallback(c) ==
  /\ connected
  /\ Method[c] \in EndsWithItem
  /\ srv[c] = "open"
  /\ sent[c] = Items[c] - 1
  /\ AddItem(c)
  /\ SetEvent(Key(c), Ref(accumulators[Key(c)]))
  /\ srv' = [srv EXCEPT ![c] = "ended"]
  /\ UNCHANGED <<connected, client, accumulators, tasks, cancelled, overlapped>>

\* headTimestamp, histogramData, historicalSchedule, symbolSamples, pnl,
\* fundamentalData, currentTime, newsProviders, scannerParameters,
\* managedAccounts: one callback carries the whole answer.
PayloadCallback(c) ==
  /\ connected
  /\ Method[c] \notin Accumulates
  /\ \/ srv[c] = "open"
     \/ srv[c] = "live" /\ sent[c] < 1 + Updates
  /\ SetEvent(Key(c), Val(One(c)))
  /\ managed_accounts_value' = IF Method[c] = "managed_accounts" THEN Val(One(c))
                               ELSE managed_accounts_value
  /\ sent' = [sent EXCEPT ![c] = @ + 1]
  /\ srv' = [srv EXCEPT ![c] = AfterAnswer(c)]
  /\ UNCHANGED <<connected, next_valid_id_value, objects, tasks, cancelled, overlapped>>

\* Faulty: informational codes are not told apart.
InfoIsFatal(c, code) ==
  /\ connected
  /\ srv[c] \in {"open", "live"}
  /\ SetError(ErrId(c), c)
  /\ srv' = IF code = "info" THEN srv ELSE [srv EXCEPT ![c] = "failed"]
  /\ UNCHANGED <<connected, client, response_events, error_events, response_data,
                 objects, tasks, sent, cancelled, overlapped>>

\* error: an informational code is only recorded, any other one ends the
\* request at TWS and signals the error key of the reqId it carries.
ErrorCallback(c, code) ==
  /\ connected
  /\ srv[c] \in {"open", "live"}
  /\ IF code = "info"
       THEN UNCHANGED <<error_data, fired, srv>>
       ELSE SetError(ErrId(c), c) /\ srv' = [srv EXCEPT ![c] = "failed"]
  /\ UNCHANGED <<connected, client, response_events, error_events, response_data,
                 objects, tasks, sent, cancelled, overlapped>>

(***************************************************************************)
(* TWS and the network                                                     *)
(***************************************************************************)

\* TWS processes a cancel.
ServerCancels(c) ==
  /\ connected
  /\ c \in cancelled
  /\ srv[c] \in {"open", "live"}
  /\ srv' = [srv EXCEPT ![c] = "ended"]
  /\ UNCHANGED <<connected, client, tables, objects, tasks, sent, cancelled, overlapped>>

\* The connection drops.  No waiting call is told.
Drop ==
  /\ connected
  /\ connected' = FALSE
  /\ UNCHANGED <<client, tables, objects, tasks, tws, overlapped>>

\* connect() is called again.  TWS has forgotten the requests of the connection
\* that dropped; those it was not sent are in the write queue and go out now.
Reconnect ==
  /\ ~connected
  /\ connected' = TRUE
  /\ \E queued \in SUBSET {c \in Calls : srv[c] = "open" /\ sent[c] = 0} :
       srv' = [c \in Calls |-> IF srv[c] \in {"open", "live"} /\ c \notin queued
                                 THEN "gone" ELSE srv[c]]
  /\ UNCHANGED <<client, tables, objects, tasks, sent, cancelled, overlapped>>

Awaken(c) ==
  \/ GotId(c) \/ GaveUpOnId(c)
  \/ \E kind \in {"ok", "err"} : WaiterDone(c, kind)
  \/ ReturnData(c) \/ RaiseTWSError(c) \/ Timeout(c)

Next ==
  \/ \E c \in Calls :
       \/ CallById(c) \/ CallEarly(c) \/ CallShared(c) \/ CallCached(c)
       \/ Awaken(c)
       \/ ItemCallback(c) \/ EndCallback(c) \/ LastTicksCallback(c)
       \/ PayloadCallback(c)
       \/ \E code \in {"info", "fatal"} : ErrorCallback(c, code)
       \/ ServerCancels(c)
  \/ \E v \in 1..MaxId : NextValidId(v)
  \/ PushManagedAccounts
  \/ Drop \/ Reconnect

Spec == Init /\ [][Next]_vars

\* The event loop runs every ready task and every timer that is due; nothing
\* is assumed of TWS.
FairSpec == Spec /\ \A c \in Calls : WF_vars(Awaken(c))

(***************************************************************************)
(* Properties                                                              *)
(***************************************************************************)

ById == {c \in Calls : Method[c] \in ByReqId}
AnswerSize(c) == IF Method[c] \in Accumulates THEN Items[c] ELSE 1

\* d holds nothing that another call, or the handshake, was sent.
OnlyOf(c, d) == d # NoData /\ \A s \in Sources \ {c} : Value(d)[s] = 0

\* A call that carries a request id never returns data of another request:
\* the keys, events and accumulators looked up under its id are its own.
AnswerIsOwn ==
  \A c \in ById : pc[c] = "returned" => OnlyOf(c, result[c])

\* It returns no prefix of its answer either: the event is set by the end
\* callback.  Only get_executions may, having timed out.
AnswerIsComplete ==
  \A c \in ById :
    pc[c] = "returned" =>
      \/ Value(result[c])[c] >= AnswerSize(c)
      \/ Method[c] = "executions" /\ <<"ok", c>> \notin fired

\* TWSError is raised by the call whose request TWS refused, with the error
\* given for it, and never for an informational code or a cleaned-up key.
ErrorIsOwn ==
  \A c \in Calls :
    pc[c] = "tws_error" => /\ c \in ById
                           /\ srv[c] = "failed"
                           /\ result[c] = Fault(c)

\* No two calls are ever given the same request id.
IdsAreDistinct ==
  \A c, d \in ById : c # d /\ id[c] # 0 => id[c] # id[d]

\* No wakeup is lost: once the callback that ends the answer, or refuses the
\* request, has run, the event a waiting call awaits is set.
NoLostWakeup ==
  \A c \in ById :
    pc[c] = "waiting" =>
      /\ srv[c] \in {"live", "ended"} => <<"ok", waits[c].ok>> \in fired
      /\ srv[c] = "failed" => <<"err", waits[c].err>> \in fired

\* Every event in the tables is awaited by a call that is still waiting, so
\* that finished calls leave no events behind under any interleaving.
RegisteredIsAwaited ==
  /\ \A k \in Keys :
       response_events[k] # NoCall =>
         \E c \in Calls : pc[c] = "waiting" /\ waits[c].ok = response_events[k]
  /\ \A i \in ErrIds :
       error_events[i] # NoCall =>
         \E c \in Calls : pc[c] = "waiting" /\ waits[c].err = error_events[i]

\* A method without an id returns its own whole answer provided no other
\* call of its kind, waiting or abandoned, was unsettled at TWS or here.
SharedAnswerIsOwn ==
  \A c \in Calls \ ById :
    pc[c] = "returned" /\ c \notin overlapped =>
      \/ OnlyOf(c, result[c]) /\ Value(result[c])[c] >= AnswerSize(c)
      \/ Method[c] = "managed_accounts" /\ result[c].kind = "val"

\* Whatever TWS and the connection do, a call ends: it never waits forever
\* for an id, an answer, or an event another call removed from the tables.
EveryCallEnds ==
  \A c \in Calls :
    pc[c] \in {"need_id", "waiting"}
      ~> pc[c] \in {"returned", "tws_error", "timed_out", "no_id"}

\* The correlation layer implements the contract of each call by id.
Outcome(c) ==
  CASE pc[c] = "returned" ->
         IF ~OnlyOf(c, result[c]) THEN "corrupt"
         ELSE IF <<"ok", c>> \notin fired THEN "partial"
         ELSE IF Value(result[c])[c] >= AnswerSize(c) THEN "answer"
         ELSE "corrupt"
    [] pc[c] = "tws_error" -> IF result[c] = Fault(c) THEN "error" ELSE "corrupt"
    [] pc[c] \in {"timed_out", "no_id"} -> "gave_up"
    [] OTHER -> "none"

Contract == INSTANCE RequestContract WITH
  Callers <- ById,
  Lenient <- {c \in ById : Method[c] = "executions"},
  asked <- {c \in ById : pc[c] # "idle"},
  answered <- {c \in ById : <<"ok", c>> \in fired},
  failed <- {c \in ById : <<"err", c>> \in fired},
  outcome <- [c \in ById |-> Outcome(c)]

ImplementsContract == Contract!Spec

(***************************************************************************)
(* Statements of the documentation that the code does not keep             *)
(***************************************************************************)

\* _wait_for_response "then returns the stored data" (docstring): a call that
\* returns has been given data, not the None of a key another call cleaned up.
ReturnsStoredData ==
  \A c \in Calls : pc[c] = "returned" => result[c] # NoData
=============================================================================
