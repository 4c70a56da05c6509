# A formal model of ibapi-async

`ibapi_async` puts an asyncio client on top of Interactive Brokers' `ibapi`. Its own
logic is small, and all of it is about order: which callback wakes which coroutine,
which id belongs to whom, who takes a connection down and in what state it is left.
This directory holds TLA+ modules for that logic, TLC configurations that check them
on small instances, and proofs for any instance.

Paths below are relative to the package, `src/ibapi_async/`.

## The system

| Part | State | Operations | Hard behaviour |
|---|---|---|---|
| `AsyncTWSClient` correlation (`tws_client.py`) | `_response_events`, `_response_data`, one accumulator per kind of answer, `next_valid_id_value`, `managed_accounts_value` | `get_*` methods, `_wait_for_response`, `_set_event`, `_cleanup_event`, EWrapper callbacks | concurrent calls under one key, late answers, success and error together, timeouts, dropped connections |
| `AsyncTWSClient` orders | `order_status`, `open_orders` | `place_order`, `cancel_order`, `orderStatus`, `cancel_all_orders` | one key per order shared by placing, cancelling and unasked updates |
| `AsyncTWSClient` streams | `_stream_queues`, `market_depth` | `stream_*` generators, `get_market_depth`, streaming callbacks | errors queued behind items, early exit, consumers without a timeout |
| `AsyncEClient` (`client.py`) | `connState`, `conn`, `_write_queue`, `_write_task`, `_read_task`, `_connection_lost` | `connect`, `disconnect`, `_write_loop`, `sendMsg` | every task may run `disconnect`, tasks that cancel themselves, reconnecting |
| `AsyncConnection` (`connection.py`) | the stream's reader and writer | `connect`, `disconnect`, `isConnected` | a transport that is closing, a stream that breaks |
| `_read_loop` (`reader.py`) | its buffer | framing, `_dispatch_message` | partial and joined messages, EOF, resets, cancellation |
| `create()` (`tws_client.py`) | the race of `_next_valid_id_received` and `_connection_lost` | the handshake | failing fast, cleaning up, reporting |

Everything runs on one event loop. A request method of `ibapi` calls `sendMsg`, which
puts a frame on `_write_queue`; the write loop hands it to the transport. The read loop
takes chunks from the stream and dispatches messages to `ibapi`'s decoder, which calls
the EWrapper callbacks; those fill accumulators and set events. A `get_*` coroutine
takes an id, resets its accumulator, sends its request and waits for a success event or
an error event. Between two awaits nothing else runs, so that is the grain of the
models: an action is what one task does from one await to the next, or one callback.

What makes each part correct:

- correlation: a caller gets the whole answer to its own request, or the error TWS gave
  for it, or a timeout; no wakeup is lost; nothing is left in the tables;
- lifecycle: each `disconnect()` returns and the last one leaves nothing open; no loop
  outlives its connection; a drop is noticed and reported; accepted requests are sent
  once, in order, behind START_API, and on the connection they were meant for;
- streams: items arrive in order, an error ends the stream, the subscription is
  cancelled unless TWS ended it;
- orders: each caller sees a status of its own order that answers what it asked;
- framing: messages are what was sent, however the bytes were split.

## Modules

| Module | Content |
|---|---|
| `Correlation` | the `get_*` methods, their events, accumulators and callbacks |
| `RequestContract` | what a `get_*` call by id promises, without tables, keys or events |
| `CorrelationProofs` | theorems about calls by id, with their inductive invariant `IInv` |
| `SharedProofs` | theorems about registered events and about the calls that share id 0 |
| `ContractProofs` | every step of `Correlation` is one of `RequestContract`, or changes nothing of it |
| `MCCorrelation` | the calls, methods and answers of the runs |
| `Lifecycle` | `connect`, `disconnect`, `create`, both loops, the stream, the write queue |
| `LifecycleProofs` | types, the event `create()` waits for, the order of requests, for any overlap |
| `TeardownProofs` | what a `disconnect()` leaves, what becomes of the queue, and START_API, without overlap |
| `MCLifecycle` | the users of the runs |
| `Streams` | the `stream_*` generators, `get_market_depth`, their queues, callbacks and book |
| `StreamContract` | what a stream promises its consumer, without queues or generators |
| `StreamsProofs` | theorems about both: cleanup, the book, the refinement |
| `MCStreams` | the streams of the run |
| `Orders` | `place_order`, `cancel_order`, `cancel_all_orders` and the reports on one order |
| `OrdersProofs` | theorems about the calls on one order |
| `MCOrders` | the calls of the runs |
| `Framing` | the bytes of a connection, the handshake's buffer, `_read_loop`'s, the dispatch |
| `FrameChannel` | a channel of messages, without bytes or chunks |
| `FramingProofs` | theorems about both: alignment, promptness, the refinement |
| `MCFraming` | the messages of the run |

The modules meet in few places, which is what lets each be checked by itself:

- `connected`, `Drop` and `Reconnect` of `Correlation` (and `connected` and `Drop` of
  `Streams` and `Orders`) stand for everything `Lifecycle` models, and `nvi` of
  `Lifecycle` for its `NextValidId`;
- `Lifecycle` dispatches a chunk in one step (`Dispatch`); what a chunk holds is
  `Framing`'s;
- streams and orders take their ids from the same counter as calls. That ids differ is
  a theorem about `Correlation`, so that a stream meets no other stream, no call and no
  order, and one order no other order. The wait for the first id is `CallEarly` there.

Definitions marked "Faulty" in a module are plausible bugs of the definition that
follows them. They are used by no specification; with one in place of the real
definition, the property `PROJECT.json` names for it is violated.

### Correlation

A call `c` is one invocation of a method, `Method[c]`, named by the event it waits for
(21 methods: 13 by request id, 8 without, which all wait under id 0). The methods differ
in what the sets at the head of the module say: whether they carry an id, accumulate,
are subscriptions, send a paired cancel.

- `_response_events` is split into `response_events` and `error_events`, and
  `_response_data` likewise, by the two kinds of string keys the code forms. An event is
  named by the call that created it. `error_0` and `error_-1` are different keys, which
  is why an error TWS cannot correlate never reaches a call that waits under id 0.
- A list or dict is an object named by the call that reset the accumulator, and
  `contents` counts its items per request they answer: enough to tell a call's own items,
  another's, and how many. A stored answer is a reference to an object where the code
  stores the accumulator itself (later callbacks still change it) and a value where it
  stores a copy.
- `Issue` is everything from the request to the first await: reset, send (EClient reports
  error 504 from inside the request method when not connected), register both events,
  create the two waiter tasks. `WaiterDone` is the step of such a task. `ReturnData`,
  `RaiseTWSError` and `Timeout` are the three ends of `_wait_for_response` with the
  cleanup and the paired cancel that follow without an await.
- `NextValidId`, `PushManagedAccounts`, `ItemCallback`, `EndCallback`,
  `LastTicksCallback`, `PayloadCallback` and `ErrorCallback` are the callbacks, enabled by
  what TWS may send next (`srv`, `sent`). `ServerCancels` and `Drop` are the environment.
- The event `next_valid_id` is set exactly when `next_valid_id_value` is not None, so
  that it needs no variable. nextValidId also stores data under `next_valid_id_0`, which
  nobody waits for, and `error` appends to the `errors` log: both are left out. The
  per-id accumulators that a finished call leaves behind are kept, as in the code.
- `Reconnect` is a `connect()` on the same client after a drop: tables, ids and waiting
  calls are as they were, requests TWS was not sent yet are still in the write queue and
  go out, the rest is `gone`. A second handshake may announce any id `NextValidId` may.
- TWS is assumed to answer a request it knows, not one it has ended or failed, and to
  send errors only for requests that are open or live. It may do so at any delay, or never.
  The one callback left out is the `openOrder` that TWS sends unasked after `place_order`,
  which also lands in `open_orders` (`tws_client.py:393-406`). So `SharedAnswerIsOwn` says
  of `get_open_orders` that no other call's answer gets into its list, not that an order
  placed meanwhile does not.

### Lifecycle

A process is a user task or one of the two loops of a connection; `at` says where it
is. `disconnect()` is `BeginDisconnect`, then `WriteTaskEnded`, `ReadTaskEnded` and
`Closed` for its three awaits; `then` is where its caller goes on. A task that awaits
itself, or that is cancelled while it awaits, goes on at once, as the code swallows
CancelledError there.

- `connect()` is `OpenConnection`, then `OpenFails` or `Opened`, then one of the
  `Handshake*` actions. `create()` is the same followed by a wait for `nvi`, `lost` or the
  timeout. `creator` is the user inside it: nobody else has the client yet.
- Streams have numbers and are `open`, `broken` (reset), `closing` or `closed`;
  `AsyncConnection.isConnected` is `open`, as asyncio marks a transport as closing when it
  breaks. `peer` records what the server or the network did.
- The write queue is shared by all connections of a client and survives them, and
  `written` records what each transport was handed.
- A message written and drained is one step: a pause in drain changes the moment of a
  cancellation, not what is in the queue. A write that fails loses its message; a drain
  that fails behind a message handed over before leaves the queue as it was (`WriteFails`).
  The model does not tell a loop in drain from one that waits for a message, so that any
  loop that has written may fail in drain once its stream is not open. The two-second limit on awaiting a loop is
  the `flushing` case of `WriteTaskEnded`; no other step of a loop waits.
- `Python311` lets a loop that was cancelled while its `wait_for` had a result go on
  with the result, which Python 3.11 does and 3.12 does not; `pyproject.toml` admits both.
- `Overlap` lets `connect()` and `disconnect()` be in progress together: a caller that
  reconnects while a loop is still disconnecting. Without it loops and users still
  disconnect together.
- `connect()` is called on a disconnected client. The loops it starts have had their first
  step before the next one is answered (`FirstStepsDone`): they are ready when it begins.
- Cancellation of a user's call from outside is not modelled.

### Streams

A stream `s` is a request id with a queue; `kind` is the method that opened it: `live`
(bars and ticks), `history` or `depth`.

- `Open` is the first step of a generator up to its first `queue.get()`; `OpenRefused`
  the same without a connection, where EClient queues error 504 from inside the request.
  `TakeItem`, `TakeEnd` and `TakeError` are what `get()` may return, `Pull` a consumer
  that finds the queue empty. `Finish` is the `finally` clause: cancel unless
  `server_terminated`, forget the queue and what was accumulated.
- A consumer that leaves its loop only drops the generator (`Break`); the event loop
  closes it later in a task of its own (`Close`). A cancelled consumer closes it at once
  (`TaskCancelled`).
- `LiveCallback`, `HistoricalData`, `HistoricalDataEnd`, `UpdateMktDepth` and
  `ErrorCallback` are the callbacks. `levels` is one side of the book TWS holds, which an
  insert or delete shifts; `market_depth` the client's, which it does not shift.
- TWS is assumed to send nothing on a request it has ended, and to end a request it sends
  a code for that is not informational.

### Orders

One order, the call that places it and calls that cancel it. All wait for
`order_status_<id>` and `error_<id>`, as in `Correlation`, but here several calls share
both keys, and `OrderStatus` and the errors (`RejectOrWarn`, `AnswerCancel`) come
whether a call waits or not. Every callback on the order is numbered, so that a result
says when it was made. `overlapped` marks calls that waited while another did. The codes
TWS uses for orders (201, 202, 161, 399) are not in `INFO_ERROR_CODES`: each is an error.

### Framing

Units stand for bytes: a length prefix is four of them, the high one first (`Digits`,
`Size`), and a unit is a digit in `Base`, 256 in the code. Bodies may be as long as such a
prefix can say (`BodiesAssumption`). `wire` is what was sent and not read, and a read takes
any number of units (`Reads`). `HandshakeRead` is one turn of the loop in `connect()`, one
message per read; `Read`, `Dispatch` and `StopExtracting` are the outer and inner loops of
`_read_loop`. The inner loop has no await, and no other
action of the client is enabled in it. `Decodable` and `MaxMsgLen` say which messages the
dispatch hands on; the others it swallows. `comm.read_msg` is `ibapi`'s: `Complete`,
`Body` and `Rest`. A message of length zero has its prefix consumed, and stops the inner
loop as if it were incomplete (`stalled`). TWS may send messages before the hello, for
which `connect()` loops, and sends none between its hello and START_API.

## Runs

| Run | Instance | Shows |
|---|---|---|
| `by_id` | 3 calls: 2 `executions`, 1 `historical_ticks` of 2 items | private correlation over drops and reconnections, and that `IInv` is an invariant before it is proved |
| `contract` | `executions` of 2 items, `pnl` | refinement of `RequestContract`; every call ends |
| `shared` | 2 `positions` of 1 item, `managed_accounts`; the first two symmetric | what id-0 calls still guarantee; the cache |
| `lifecycle` | 2 users, 2 connections, 2 requests, Python 3.11 | loops, sockets, the handshake event, what is sent where and in which order |
| `lifecycle_live` | 1 user, 2 connections, overlapping | EOF is cleaned up; calls end |
| `streams` | 2 streams of any kind, of 3 items and 1, a book of 2 rows | refinement of `StreamContract`; cleanup; which streams end |
| `orders` | 1 placing, 2 cancelling calls, 2 reports | what a call that waits alone can rely on; that calls that meet end |
| `framing` | base 3, 3 messages of 6 kinds, 1 before the hello, reads of up to 12 units | refinement of `FrameChannel`; alignment; delivery |

The bounds. Two calls of a kind are enough for any two to meet under a key, and the third
in `by_id` takes part in races on ids. `Updates = 1` lets one callback of a subscription
come after its answer; in `shared` it is 0, as updates only reach calls that overlap, of
which nothing is claimed. `MaxId` gives each call an id. Two connections let what one
leaves behind meet the next; two requests let one be in `wait_for`'s hands while another
is in the queue. In `lifecycle` the two users are symmetric. Streams do not meet, so that
one long enough to be ahead of its consumer and one short one show what a shared table
could do. Three calls on an order let one create the event that a second, which waited
with the first, then removes; two reports let one come too early and one in time. Three
messages and reads of 12 units let a chunk end in a prefix or a body, or hold two messages
and a part of a third, behind one that is empty, malformed or too long. In base 3 the
two longest have lengths of two digits; the unit values are lengths of other messages, so
that a reader out of step finds something to take.
Deadlock is not checked: a program whose calls have all ended, or that TWS does not
answer, may stop.

Runs that must be violated, each with the statement of the documentation it refutes
(`findings` in `PROJECT.json`):

| Run | Statement | What the code does |
|---|---|---|
| `concurrent_doc` | `_wait_for_response` returns the stored data | of two concurrent `get_completed_orders`, the second returns None |
| `drop_doc` | `_connection_lost` is set when the connection drops | both loops end by their condition, nobody disconnects |
| `cancel_doc` | `_safe_cancel` is not called after the server ended a subscription with an error | a generator that is closed with the error still queued calls it |
| `orders_doc` | `cancel_order` returns the resulting status | it returns any status reported after it asked |

What else the models show of the code, and a reader should know:

- A late end marker of an id-0 request that timed out completes the next one, even with
  calls made one at a time: `overlapped` counts abandoned calls too.
- On Python 3.11 a cancellation swallowed by `wait_for` makes the write loop end with the
  rest of the queue unsent. `FlushedBeforeClose` and `StaleOnlyAfterFailure` except the
  connections it happened on (`ran`), and only those.
- A second `disconnect()` returns while the first is still closing the stream.
- A `connect()` made while a loop is still disconnecting has its new connection closed
  (the last case of `EofIsCleanedUp`).
- `get_executions` returns what it has accumulated when it times out, not the `[]` of its
  docstring (`partial` in `RequestContract`, which allows it to no other method).
- When TWS answers and then fails a request before the caller wakes, success wins and the
  paired cancel follows the error.
- The ten-second handshake wait raises asyncio.TimeoutError out of `create()`
  (`HandshakeRaises`, `escaped`), where the docstring promises ResponseTimeout; so does
  `get_market_depth` when no update comes.
- A hello that arrives in one chunk behind another message is looked at only after the
  next read, for which TWS has no reason to send anything. `Prompt` says that `connect()`
  waits with a whole message in its buffer only then.
- A handshake that raises leaves the client CONNECTING with its stream open, and nothing
  else (`NothingLeftOpen`).
- A message behind one of length zero waits for the next chunk, against the comment at
  `reader.py:119` (`Prompt` excepts it).
- A reconnection makes ids meet again if the nextValidId of the new connection lies below
  those used (`StaleNextId`): a waiting call of the old one would share its events.

Hazards of the code that the model shows but no property excludes have no property in
`PROJECT.json` and a note instead: ids that TWS announces again, statuses and warnings that
raise TWSError, bars and ticks after a drop, a code that does not end a subscription,
answers that stay in the tables, a book after a shift.

## Fairness

`FairSpec` of each module assumes that the event loop runs every task that is ready and
every timer that is due, which asyncio does: weak fairness of the steps of each task. In
`Correlation` that includes `Timeout`, since every wait has one; TWS is not fair, and may
never answer. In `Lifecycle` a closing transport is also closed in the end; users need not
call anything and nothing makes TWS answer. In `Streams` a consumer that was given an item
asks for the next or leaves, timers fire, and a dropped generator is closed; nothing ends a
stream of bars or ticks when the connection drops, and `StreamsEnd` does not claim it. In
`Orders` every wait has a timeout. In `Framing` the network delivers what it carries and
the read loop runs; resets may still end it.

## What is proved

Every safety property that a passing run checks is a theorem, and so are the three
refinements, that of `RequestContract` without its fairness. Each holds for all values of the constants
that the named assumptions of its module admit: any calls and methods, users and
connections, streams, bytes and chunks, and any bounds. Two hypotheses appear besides:

- `~StaleNextId`: TWS announces no id it has seen used. Without it two calls may have one
  id, and the properties of calls by id fail (see "What else the models show").
- `~Overlap`: no `connect()` is made while a `disconnect()` is in progress. The client
  does not enforce it. With it reversed TLC finds each of the six properties that need it
  violated: whoever is disconnecting closes and resets the connection that is current
  *then*. `SentInOrder` says less with it reversed, and needs no hypothesis: two write
  loops may then be at work, and a later connection may be handed the older request.

| Module | Hypothesis | Theorems (property) |
|---|---|---|
| `CorrelationProofs` | none | `TypeCorrect` |
| | `~StaleNextId` | `Invariance` (`IInv`), `AnswersAreOwn`, `AnswersAreComplete`, `ErrorsAreOwn`, `IdsStayDistinct`, `NoWakeupIsLost` |
| `SharedProofs` | none | `RegisteredAreAwaited`, `SharedAnswersAreOwn` |
| `ContractProofs` | `~StaleNextId` | `CallsKeepContract` (the contract's initial state and steps) |
| `OrdersProofs` | none | `TypeCorrect`, `OrderEventsAreAwaited`, `AnswersAreFresh`, `NoOrderWakeupLost`, `AnswersAreCurrent` |
| `StreamsProofs` | none | `TypeCorrect`, `NothingIsLeftRunning`, `OnlyLateBarsAccumulate`, `BooksAreExact`, `CancelsAreBlind`, `StreamsImplementContract` |
| `FramingProofs` | none | `TypeCorrect`, `ReadsPromptly`, `StreamStaysAligned`, `ReaderImplementsChannel` |
| `LifecycleProofs` | none | `TypeCorrect`, `DropsWakeCreate` |
| `TeardownProofs` | none | `RequestsStayInOrder` |
| | `~Overlap` | `LoopsDoNotStray`, `NothingIsLeftOpen`, `QueueIsFlushed`, `StaleComesOfFailure`, `RequestsAreSentOnce`, `StartApiComesFirst` |

Except for types, hardly one of these properties is inductive. What each proof adds:

**Calls by id.** That an answer is a call's own depends on who registered the event, who
reset the accumulator and what any earlier call left under the key. `IInv` has `TInv`
(types, and that a request TWS knows has an accumulator), `Untouched` (a call that has
not sent its request has left no trace), `IdsInv` (ids handed out lie below the counter
and differ), `EventsInv` and `ObjectsInv` (what is under an id's keys is of the call that
has the id; id 0 belongs to the others), `WaitingInv` (a waiting call finds its own events
in the tables and its own data once they are set) and `TasksInv`, `ResultInv` (what waiter
tasks and finished calls have seen). One lemma per action proves that it is preserved.
`Consequences` derives the five properties.

**All calls.** `RegisteredIsAwaited` holds for any ids. Which keys a call that ends
cleans up depends on its method and id, so that `RegisteredInv` names the keys of the
call that waits for each event. For id 0, `SharedInv` says who may own what is under a
shared key (`OwnersInv`), that a call that met no other of its kind and is not settled
has no rival whose answer TWS still owes or the tables still hold (`LoneInv`), and that
its accumulator and its stored answer are then its own (`LoneObjectsInv`,
`LoneAnswersInv`).

**The contract of a call.** `CallsKeepContract` maps each step: `Issue` is the contract's
asking, a callback that sets an event settles at most one call, and the three ends of
`_wait_for_response` are its end; a part of an answer ends only a `get_executions`, as any
other call that returns was answered. `IInv` is needed to rule out the contract's impossible
outcome, a corrupt answer.

**Orders.** `OInv` has types, that every registered event has a waiter and that a call
that waits alone has both of its own (`EventsInv`, `AloneInv`), `NoLostWakeup` and
`AnswerIsFresh`. `AnswerIsCurrent` is an action property that follows from it.

**Streams.** `SInv` says for each stream and each place its generator may be at what the
queue, the tables and TWS hold (`StateOK`, `QueueOK`): in the queue, the items that were
not taken yet, in order, then the end or the error. The refinement `StreamsImplementContract` reads
the contract's log off the queue, and maps each step.

**Framing.** `Aligned` says that the buffer and the wire are together the frames of what
was sent and not dispatched. `FInv` adds `HandshakeInv`: what `connect()` may have left of
messages TWS sent before its hello. All of it is about the concatenation of the frames of
a sequence of messages, a recursive function; the few facts needed (`FlattenAppend`,
`FlattenConcat`) are proved by `Induction`, which is stated of a set of naturals and
follows from the well-foundedness of `<`. `Taking` is the heart of the proof: what
`comm.read_msg` cuts off a buffer that begins a sequence of frames is the first of them.
It rests on `Size` undoing `Digits` for every length below the fourth power of the base
(`DigitsProperties`, from `Division`). `ReadsPromptly` takes its clause about the handshake
from `FInv`: without early messages the buffer and the wire are the hello's frame, so that
a whole message in the buffer is the hello.

**Create.** `CreatorInv` says that while `create()` has not returned, nobody else uses
the client, and at most one task waits for an id (`NotYet`, `OneAwaits`, `CreatorAlone`):
then nothing resets the event `_connection_lost` behind its back.

**Teardown.** `PhaseInv` says in what state the client is in each phase of a connection:
at rest, opening, in its handshake, connected, and in each of the three awaits of
`disconnect()` (`AwaitsWrite`, `AwaitsRead`, `AwaitsClose`: which loops still run, which
are cancelled, what is closed). One task at most is in any of them (`OneAtATime`), though
every loop and user may start one; earlier connections are gone with their loops
(`OnlyLast`). On top of it `CarriedInv` follows the messages. A connection whose loop ran
has either a loop that is still running, or a reset, or nothing left in the queue
(`Drained`, `QueueInv`); what goes out elsewhere is of a connection that failed
(`StaleInv`); and a number that was given out is somewhere (`NoneLost`). That it is in
one place only follows from the order of requests.

**The order of requests.** `OrderInv` says that the numbers in the queue ascend, that
those a connection was handed ascend and lie below them, and that no two connections were
handed the same one. It is inductive by itself, for any overlap: `Send` adds the largest
number at the end, and what a write loop or a flush takes is a head of the queue.
`InTurn`, that connections get theirs one after the other, needs `PhaseInv`: the loop that
writes is that of the last connection.

**START_API.** What a connection was handed and what is still queued are read as one
sequence (`Backlog`), in which START_API comes before anything else that is meant for the
connection (`Led`). `GreetInv` claims it while the stream is open, and that START_API is
in it once the client is connected. A message leaves the queue without being handed on
only when the stream is not open, and then nothing more is handed to that connection.

Only model-checked: liveness (`EveryCallEnds`, `StreamsEnd`, `Delivers`, `EofIsCleanedUp`,
`CallsEnd`) and the fairness that `RequestContract` promises, as the prover reasons about
neither fairness nor ENABLED. Under `Overlap` the theorems of `LifecycleProofs` and
`RequestsStayInOrder` hold, and `lifecycle_live` checks liveness.

## Not modelled

The wording of messages and logs, the encoding of requests and the decoding of answers
(`ibapi`'s), the negotiation of the server version, `request_market_data_type` (it sends
a request and keeps no state), the protobuf branch of the dispatch (never negotiated: the
client caps the version below it), the package's exports, examples, scripts and workflow
files. The two sides of a book do not meet, and one is modelled. Cancellation of a user's
task from outside is modelled for streams, where the code has a clause for it, and not for
calls.

## Plan

1. `Correlation`, `RequestContract`, `CorrelationProofs`, `Lifecycle`: done.
2. `Streams` with the depth book, `Orders`, `Framing`, and reconnection in `Correlation`:
   done.
3. Proofs of the safety properties of every module and of the refinements: done.
4. The order of requests, for any overlap, and START_API: done. Other properties of one
   connection that survive `Overlap` may be worth stating: what holds of them now is
   what `LifecycleProofs`, `RequestsStayInOrder` and `lifecycle_live` say.
