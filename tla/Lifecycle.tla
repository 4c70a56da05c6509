----------------------------- MODULE Lifecycle -----------------------------
(***************************************************************************)
(* The life of a connection: AsyncEClient.connect() and disconnect(), the  *)
(* write loop and the read loop, AsyncConnection, and the handshake wait   *)
(* of AsyncTWSClient.create().                                             *)
(*                                                                         *)
(* A process is a task that uses the client, or one of the two loops of a  *)
(* connection.  Any of them may run disconnect().  A step is what one      *)
(* process does between two awaits.                                        *)
(***************************************************************************)
EXTENDS Integers, Sequences, FiniteSets

CONSTANTS
  Users,     \* tasks that call the client
  MaxConns,  \* bound: calls of connect()
  MaxSends,  \* bound: requests sent by the users
  Overlap,   \* TRUE iff a connect() and a disconnect() may be in progress together
  Python311, \* TRUE iff wait_for, cancelled with its result ready, returns the result
  Nobody     \* no user

Conns == 1..MaxConns
None == 0
W(g) == <<"write", g>>
R(g) == <<"read", g>>
Loops == {"write", "read"} \X Conns
Procs == Users \cup Loops

ASSUME UsersAssumption == Users \cap Loops = {} /\ Nobody \notin Procs
ASSUME BoundsAssumption == MaxConns \in Nat \ {0} /\ MaxSends \in Nat
ASSUME SwitchesAssumption == Overlap \in BOOLEAN /\ Python311 \in BOOLEAN

VARIABLES
  connState,   \* EClient.connState
  conn,        \* the AsyncConnection in self.conn, by its number
  made,        \* how many AsyncConnections were made
  stream,      \* the TCP stream of each AsyncConnection
  peer,        \* what TWS or the network did to it
  queue,       \* _write_queue, shared by all connections of the client
  written,     \* messages handed to the transport of each connection
  sends,       \* how many requests the users sent
  write_task,  \* the connection whose loop is in _write_task
  read_task,   \* the connection whose loop is in _read_task
  cancelled,   \* loops with a cancellation to be delivered
  at,          \* where each process is
  then,        \* where it goes when its disconnect() returns
  held,        \* the tasks and the connection its disconnect() works on
  lost,        \* the _connection_lost event
  nvi,         \* the _next_valid_id_received event
  creator,     \* the user inside create(): nobody else has the client yet
  ran          \* history: connections whose write loop entered its loop, and has
               \* not forgotten a cancellation

net == <<stream, peer>>
out == <<queue, written, sends, ran>>
refs == <<write_task, read_task>>
vars == <<connState, conn, made, net, out, refs, cancelled, at, then, held,
          lost, nvi, creator>>

StartApi(g) == [to |-> g, n |-> 0]
Message == [to : Conns, n : 0..MaxSends]

Connecting == {"opening", "handshake"}
Disconnecting == {"d_write", "d_read", "d_close"}

TypeOK ==
  /\ connState \in {"DISCONNECTED", "CONNECTING", "CONNECTED"}
  /\ conn \in 0..MaxConns /\ made \in 0..MaxConns
  /\ stream \in [Conns -> {"none", "open", "broken", "closing", "closed"}]
  /\ peer \in [Conns -> {"up", "eof", "reset"}]
  /\ queue \in Seq(Message)
  /\ written \in [Conns -> Seq(Message)]
  /\ sends \in 0..MaxSends
  /\ write_task \in 0..MaxConns /\ read_task \in 0..MaxConns
  /\ cancelled \subseteq Loops
  /\ at \in [Procs -> {"idle"} \cup Connecting \cup Disconnecting \cup
                      {"awaiting", "failed", "escaped",
                       "none", "created", "running", "woken", "flushing", "done"}]
  /\ then \in [Procs -> {"idle", "awaiting", "failed", "done"}]
  /\ held \in [Procs -> [w : 0..MaxConns, r : 0..MaxConns, c : 0..MaxConns]]
  /\ lost \in BOOLEAN /\ nvi \in BOOLEAN
  /\ creator \in Users \cup {Nobody}
  /\ ran \subseteq Conns

Init ==
  /\ connState = "DISCONNECTED" /\ conn = None /\ made = 0
  /\ stream = [g \in Conns |-> "none"]
  /\ peer = [g \in Conns |-> "up"]
  /\ queue = <<>>
  /\ written = [g \in Conns |-> <<>>]
  /\ sends = 0
  /\ write_task = None /\ read_task = None
  /\ cancelled = {}
  /\ at = [p \in Procs |-> IF p \in Users THEN "idle" ELSE "none"]
  /\ then = [p \in Procs |-> IF p \in Users THEN "idle" ELSE "done"]
  /\ held = [p \in Procs |-> [w |-> None, r |-> None, c |-> None]]
  /\ lost = FALSE /\ nvi = FALSE
  /\ creator = Nobody
  /\ ran = {}

\* AsyncConnection.isConnected and EClient.isConnected.
StreamIsConnected == conn # None /\ stream[conn] = "open"
IsConnected == connState = "CONNECTED" /\ StreamIsConnected

NotDone(t) == at[t] # "done"

(***************************************************************************)
(* disconnect()                                                            *)
(***************************************************************************)

\* Faulty: the connection is dropped with its stream open.
LeavesStreamOpen(p) ==
  /\ write_task' = None /\ read_task' = None
  /\ conn' = None
  /\ at' = [at EXCEPT ![p] = then'[p]]
  /\ UNCHANGED <<stream, held>>

\* Both tasks are dealt with: forget them and close the connection that is
\* current now.  With no open stream reset() follows at once.
Close(p) ==
  /\ write_task' = None
  /\ read_task' = None
  /\ IF StreamIsConnected
       THEN /\ stream' = [stream EXCEPT ![conn] = "closing"]
            /\ held' = [held EXCEPT ![p].c = conn]
            /\ at' = [at EXCEPT ![p] = "d_close"]
            /\ UNCHANGED conn
       ELSE /\ stream' = [g \in Conns |-> IF g = conn /\ stream[g] = "broken"
                                            THEN "closed" ELSE stream[g]]
            /\ conn' = None
            /\ at' = [at EXCEPT ![p] = then'[p]]
            /\ UNCHANGED held

\* Cancel a task and await it.  A loop that cancels itself, and one that was
\* cancelled meanwhile, swallow the CancelledError.
CancelAndAwait(p, t, where, h) ==
  /\ cancelled' = (cancelled \ {p}) \cup ({t} \ {p})
  /\ at' = [at EXCEPT ![p] = where]
  /\ held' = [held EXCEPT ![p] = h]
  /\ UNCHANGED <<conn, stream, refs>>

ReadTaskThenClose(p, r) ==
  IF r # None /\ NotDone(R(r))
    THEN CancelAndAwait(p, R(r), "d_read", [held[p] EXCEPT !.r = r])
    ELSE Close(p) /\ cancelled' = cancelled \ {p}

\* disconnect() called by p, which goes on at k when it returns.
BeginDisconnect(p, k) ==
  /\ then' = [then EXCEPT ![p] = k]
  /\ IF connState = "DISCONNECTED"
       THEN /\ at' = [at EXCEPT ![p] = k]
            /\ UNCHANGED <<connState, conn, stream, refs, cancelled, held, lost>>
       ELSE /\ connState' = "DISCONNECTED"
            /\ lost' = TRUE
            /\ IF write_task # None /\ NotDone(W(write_task))
                 THEN CancelAndAwait(p, W(write_task), "d_write",
                                     [held[p] EXCEPT !.w = write_task, !.r = read_task])
                 ELSE ReadTaskThenClose(p, read_task)

\* reset() runs in the step that ends a disconnect().
ResetIfOver(p) ==
  connState' = IF at'[p] \in Disconnecting THEN connState ELSE "DISCONNECTED"

\* Faulty: the read task is not cancelled.
ForgetsReadTask(p) ==
  /\ at[p] = "d_write"
  /\ at[W(held[p].w)] \in {"done", "flushing"} \/ p = W(held[p].w) \/ p \in cancelled
  /\ UNCHANGED <<then, made, peer, out, lost, nvi, creator>>
  /\ Close(p)
  /\ cancelled' = cancelled \ {p}
  /\ ResetIfOver(p)

\* Faulty: a loop that disconnects waits for itself to end.
AwaitsItself(p) ==
  /\ at[p] = "d_write"
  /\ at[W(held[p].w)] \in {"done", "flushing"}
  /\ UNCHANGED <<then, made, peer, out, lost, nvi, creator>>
  /\ ReadTaskThenClose(p, held[p].r)
  /\ ResetIfOver(p)

\* The write task has ended, or two seconds have passed while it was still
\* draining the messages it flushed.
WriteTaskEnded(p) ==
  /\ at[p] = "d_write"
  /\ at[W(held[p].w)] \in {"done", "flushing"} \/ p = W(held[p].w) \/ p \in cancelled
  /\ UNCHANGED <<then, made, peer, out, lost, nvi, creator>>
  /\ ReadTaskThenClose(p, held[p].r)
  /\ ResetIfOver(p)

\* The read task has ended.
ReadTaskEnded(p) ==
  /\ at[p] = "d_read"
  /\ at[R(held[p].r)] = "done" \/ p = R(held[p].r) \/ p \in cancelled
  /\ UNCHANGED <<then, made, peer, out, lost, nvi, creator>>
  /\ Close(p)
  /\ cancelled' = cancelled \ {p}
  /\ ResetIfOver(p)

\* wait_closed has returned: reset() drops the connection that is current now.
Closed(p) ==
  /\ at[p] = "d_close"
  /\ p \notin cancelled
  /\ stream[held[p].c] = "closed"
  /\ connState' = "DISCONNECTED"
  /\ conn' = None
  /\ at' = [at EXCEPT ![p] = then[p]]
  /\ UNCHANGED <<made, net, out, refs, cancelled, then, held, lost, nvi, creator>>

\* A cancellation breaks out of wait_closed; the write loop then discards the
\* queue, as its stream is closing.
Abort(p) ==
  /\ at[p] = "d_close"
  /\ p \in cancelled
  /\ at' = [at EXCEPT ![p] = "done"]
  /\ cancelled' = cancelled \ {p}
  /\ queue' = IF p[1] = "write" THEN <<>> ELSE queue
  /\ UNCHANGED <<connState, conn, made, net, written, sends, ran, refs, then, held,
                 lost, nvi, creator>>

(***************************************************************************)
(* Users: connect(), create(), disconnect() and requests                   *)
(***************************************************************************)

\* u may call the client: it is in no call, and create() has given it out.
MayCall(u) == at[u] = "idle" /\ creator = Nobody

NobodyIn(places) == \A p \in Procs : at[p] \notin places

\* connect() up to open_connection; users call it on a disconnected client,
\* one at a time.
OpenConnection(u) ==
  /\ MayCall(u)
  /\ connState = "DISCONNECTED"
  /\ NobodyIn(Connecting)
  /\ Overlap \/ NobodyIn(Disconnecting)
  /\ made < MaxConns
  /\ made' = made + 1
  /\ conn' = made + 1
  /\ lost' = FALSE
  /\ at' = [at EXCEPT ![u] = "opening"]
  /\ UNCHANGED <<connState, net, out, refs, cancelled, then, held, nvi>>

Connect(u) == OpenConnection(u) /\ UNCHANGED creator

\* create() makes a client of its own and connects it.
Create(u) ==
  /\ made = 0 /\ \A v \in Users : at[v] = "idle"
  /\ OpenConnection(u)
  /\ creator' = u

\* Where a connect() that returns, or raises, leaves its caller.
AfterConnect(u) == IF creator = u THEN "awaiting" ELSE "idle"
AfterRaise(u) == IF creator = u THEN "escaped" ELSE "idle"

\* Loops just created have had their first step when TCP answers.
FirstStepsDone == \A t \in Loops : at[t] # "created"

\* Faulty: the event is not set.
FailsQuietly(u) ==
  /\ at[u] = "opening" /\ FirstStepsDone
  /\ at' = [at EXCEPT ![u] = AfterConnect(u)]
  /\ UNCHANGED <<connState, conn, made, net, out, refs, cancelled, then, held, lost, nvi, creator>>

\* OSError: report error 502 and wake create().
OpenFails(u) ==
  /\ at[u] = "opening" /\ FirstStepsDone
  /\ lost' = TRUE
  /\ at' = [at EXCEPT ![u] = AfterConnect(u)]
  /\ UNCHANGED <<connState, conn, made, net, out, refs, cancelled, then, held, nvi, creator>>

\* Faulty: the client counts as connected before the handshake.
ConnectedTooEarly(u) ==
  /\ at[u] = "opening" /\ FirstStepsDone
  /\ stream' = [stream EXCEPT ![made] = "open"]
  /\ connState' = "CONNECTED"
  /\ at' = [at EXCEPT ![u] = IF conn = None THEN AfterRaise(u) ELSE "handshake"]
  /\ UNCHANGED <<conn, made, peer, out, refs, cancelled, then, held, lost, nvi, creator>>

\* The stream is open: send the version, unless self.conn was reset meanwhile
\* (AttributeError).
Opened(u) ==
  /\ at[u] = "opening" /\ FirstStepsDone
  /\ stream' = [stream EXCEPT ![made] = "open"]
  /\ connState' = "CONNECTING"
  /\ at' = [at EXCEPT ![u] = IF conn = None THEN AfterRaise(u) ELSE "handshake"]
  /\ UNCHANGED <<conn, made, peer, out, refs, cancelled, then, held, lost, nvi, creator>>

\* The server version arrived: start both loops and enqueue START_API.
HandshakeDone(u) ==
  /\ at[u] = "handshake"
  /\ connState' = "CONNECTED"
  /\ write_task' = made
  /\ read_task' = made
  /\ at' = [at EXCEPT ![u] = AfterConnect(u), ![W(made)] = "created", ![R(made)] = "created"]
  /\ queue' = IF StreamIsConnected THEN Append(queue, StartApi(conn)) ELSE queue
  /\ UNCHANGED <<conn, made, net, written, sends, ran, cancelled, then, held, lost, nvi, creator>>

\* EOF before the server version.
HandshakeEof(u) ==
  /\ at[u] = "handshake"
  /\ peer[made] = "eof" \/ stream[made] \in {"closing", "closed"}
  /\ BeginDisconnect(u, AfterConnect(u))
  /\ UNCHANGED <<made, peer, out, nvi, creator>>

\* No server version within ten seconds, or a reset: connect() raises.
HandshakeRaises(u) ==
  /\ at[u] = "handshake"
  /\ at' = [at EXCEPT ![u] = AfterRaise(u)]
  /\ UNCHANGED <<connState, conn, made, net, out, refs, cancelled, then, held, lost, nvi, creator>>

\* create() has both events to wait for, and a timeout.
GotId(u) ==
  /\ at[u] = "awaiting" /\ nvi
  /\ at' = [at EXCEPT ![u] = "idle"]
  /\ creator' = Nobody
  /\ UNCHANGED <<connState, conn, made, net, out, refs, cancelled, then, held, lost, nvi>>

NoId(u) ==
  /\ at[u] = "awaiting"
  /\ BeginDisconnect(u, "failed")
  /\ UNCHANGED <<made, peer, out, nvi, creator>>

DroppedBeforeId(u) == lost /\ NoId(u)
CreateTimeout(u) == ~lost /\ ~nvi /\ NoId(u)

\* disconnect() called by a user.
Disconnect(u) ==
  /\ MayCall(u)
  /\ Overlap \/ NobodyIn(Connecting)
  /\ BeginDisconnect(u, "idle")
  /\ UNCHANGED <<made, peer, out, nvi, creator>>

\* Faulty: the connection is not checked.
SendsAnyway(u) ==
  /\ MayCall(u)
  /\ sends < MaxSends
  /\ sends' = sends + 1
  /\ queue' = Append(queue, [to |-> conn, n |-> sends + 1])
  /\ UNCHANGED <<connState, conn, made, net, written, ran, refs, cancelled, at, then, held,
                 lost, nvi, creator>>

\* A request method; EClient refuses it (504) when not connected.
Send(u) ==
  /\ MayCall(u)
  /\ IsConnected
  /\ sends < MaxSends
  /\ sends' = sends + 1
  /\ queue' = Append(queue, [to |-> conn, n |-> sends + 1])
  /\ UNCHANGED <<connState, conn, made, net, written, ran, refs, cancelled, at, then, held,
                 lost, nvi, creator>>

(***************************************************************************)
(* The loops of connection g                                               *)
(***************************************************************************)

\* The first step of the write loop: assert that there is a stream.
StartWriting(g) ==
  /\ at[W(g)] = "created" /\ W(g) \notin cancelled
  /\ at' = [at EXCEPT ![W(g)] = IF conn = g /\ IsConnected THEN "running" ELSE "done"]
  /\ ran' = IF conn = g THEN ran \cup {g} ELSE ran
  /\ UNCHANGED <<connState, conn, made, net, queue, written, sends, refs, cancelled,
                 then, held, lost, nvi, creator>>

StartReading(g) ==
  /\ at[R(g)] = "created" /\ R(g) \notin cancelled
  /\ at' = [at EXCEPT ![R(g)] = IF IsConnected THEN "running" ELSE "done"]
  /\ UNCHANGED <<connState, conn, made, net, out, refs, cancelled, then, held, lost, nvi, creator>>

\* A loop cancelled before its first step, or the read loop in its wait, ends.
EndCancelled(t) ==
  /\ t \in cancelled
  /\ at[t] = "created" \/ (at[t] \in {"running", "woken"} /\ t[1] = "read")
  /\ cancelled' = cancelled \ {t}
  /\ at' = [at EXCEPT ![t] = "done"]
  /\ UNCHANGED <<connState, conn, made, net, out, refs, then, held, lost, nvi, creator>>

\* A loop whose wait_for has a result goes on with it.  Python 3.11 forgets a
\* cancellation that comes then.
GoesOn(t) == t \in cancelled => Python311

\* Take a message from the queue, write it and drain.
WriteMessage(g) ==
  /\ at[W(g)] = "running" /\ GoesOn(W(g))
  /\ queue # <<>>
  /\ stream[g] = "open"
  /\ queue' = Tail(queue)
  /\ written' = [written EXCEPT ![g] = Append(@, Head(queue))]
  /\ at' = [at EXCEPT ![W(g)] = IF IsConnected THEN "running" ELSE "done"]
  /\ cancelled' = cancelled \ {W(g)}
  /\ ran' = IF W(g) \in cancelled THEN ran \ {g} ELSE ran
  /\ UNCHANGED <<connState, conn, made, net, sends, refs, then, held, lost, nvi, creator>>

\* Faulty: the message goes back to the queue, behind the others.
PutsBack(g) ==
  /\ at[W(g)] = "running" /\ W(g) \notin cancelled
  /\ queue # <<>>
  /\ stream[g] # "open"
  /\ queue' = Append(Tail(queue), Head(queue))
  /\ BeginDisconnect(W(g), "done")
  /\ UNCHANGED <<made, peer, written, sends, ran, nvi, creator>>

\* The write fails and the message is lost, or the drain fails behind one that
\* WriteMessage handed over ("running" is also the wait in drain), and the queue
\* is left as it was: the loop disconnects.
WriteFails(g) ==
  /\ at[W(g)] = "running" /\ W(g) \notin cancelled
  /\ stream[g] # "open"
  /\ \/ queue # <<>> /\ queue' = Tail(queue)
     \/ written[g] # <<>> /\ queue' = queue
  /\ BeginDisconnect(W(g), "done")
  /\ UNCHANGED <<made, peer, written, sends, ran, nvi, creator>>

\* Faulty: the rest of the queue is left, or discarded.
LeavesQueue(g) ==
  /\ at[W(g)] = "running" /\ W(g) \in cancelled
  /\ cancelled' = cancelled \ {W(g)}
  /\ at' = [at EXCEPT ![W(g)] = "done"]
  /\ UNCHANGED <<connState, conn, made, net, out, refs, then, held, lost, nvi, creator>>

Discards(g) ==
  /\ at[W(g)] = "running" /\ W(g) \in cancelled
  /\ cancelled' = cancelled \ {W(g)}
  /\ queue' = <<>>
  /\ at' = [at EXCEPT ![W(g)] = "done"]
  /\ UNCHANGED <<connState, conn, made, net, written, sends, ran, refs, then, held, lost, nvi, creator>>

\* Cancelled: hand the rest of the queue to the transport, then drain.
Flush(g) ==
  /\ at[W(g)] = "running" /\ W(g) \in cancelled
  /\ cancelled' = cancelled \ {W(g)}
  /\ queue' = <<>>
  /\ IF stream[g] = "open"
       THEN /\ written' = [written EXCEPT ![g] = @ \o queue]
            /\ at' = [at EXCEPT ![W(g)] = "flushing"]
       ELSE /\ at' = [at EXCEPT ![W(g)] = "done"]
            /\ UNCHANGED written
  /\ UNCHANGED <<connState, conn, made, net, sends, ran, refs, then, held, lost, nvi, creator>>

Flushed(g) ==
  /\ at[W(g)] = "flushing"
  /\ at' = [at EXCEPT ![W(g)] = "done"]
  /\ cancelled' = cancelled \ {W(g)}
  /\ UNCHANGED <<connState, conn, made, net, out, refs, then, held, lost, nvi, creator>>

\* The write loop finds, when a second has passed without a message, that the
\* client is not connected: it ends without disconnect().
LeaveLoop(g) ==
  /\ at[W(g)] = "running" /\ W(g) \notin cancelled
  /\ queue = <<>>
  /\ ~IsConnected
  /\ at' = [at EXCEPT ![W(g)] = "done"]
  /\ UNCHANGED <<connState, conn, made, net, out, refs, cancelled, then, held, lost, nvi, creator>>

\* A chunk of data has arrived for the read loop, or a second has passed.
Wake(g) ==
  /\ at[R(g)] = "running" /\ R(g) \notin cancelled
  /\ stream[g] = "open" /\ peer[g] = "up"
  /\ at' = [at EXCEPT ![R(g)] = "woken"]
  /\ UNCHANGED <<connState, conn, made, net, out, refs, cancelled, then, held, lost, nvi, creator>>

\* The read loop dispatches what the chunk holds, nextValidId perhaps, and
\* looks whether the client is connected.  If not, it ends without
\* disconnect(), even if the stream broke since the chunk arrived.
Dispatch(g) ==
  /\ at[R(g)] = "woken" /\ GoesOn(R(g))
  /\ nvi' \in {nvi, TRUE}
  /\ at' = [at EXCEPT ![R(g)] = IF IsConnected THEN "running" ELSE "done"]
  /\ cancelled' = cancelled \ {R(g)}
  /\ UNCHANGED <<connState, conn, made, net, out, refs, then, held, lost, creator>>

\* Faulty: the read loop ends without disconnect().
EndsQuietly(g) ==
  /\ at[R(g)] = "running" /\ R(g) \notin cancelled
  /\ peer[g] = "eof" \/ stream[g] # "open"
  /\ at' = [at EXCEPT ![R(g)] = "done"]
  /\ UNCHANGED <<connState, conn, made, net, out, refs, cancelled, then, held, lost, nvi, creator>>

\* The read loop meets EOF or an error.
ReadFails(g) ==
  /\ at[R(g)] = "running" /\ R(g) \notin cancelled
  /\ peer[g] = "eof" \/ stream[g] # "open"
  /\ BeginDisconnect(R(g), "done")
  /\ UNCHANGED <<made, peer, out, nvi, creator>>

(***************************************************************************)
(* TWS and the network                                                     *)
(***************************************************************************)

ServerCloses(g) ==
  /\ stream[g] = "open" /\ peer[g] = "up"
  /\ peer' = [peer EXCEPT ![g] = "eof"]
  /\ UNCHANGED <<connState, conn, made, stream, out, refs, cancelled, at, then, held,
                 lost, nvi, creator>>

StreamBreaks(g) ==
  /\ stream[g] = "open"
  /\ peer' = [peer EXCEPT ![g] = "reset"]
  /\ stream' = [stream EXCEPT ![g] = "broken"]
  /\ UNCHANGED <<connState, conn, made, out, refs, cancelled, at, then, held, lost, nvi, creator>>

\* The transport has sent what it buffered, or given up, and is closed.
StreamCloses(g) ==
  /\ stream[g] = "closing"
  /\ stream' = [stream EXCEPT ![g] = "closed"]
  /\ UNCHANGED <<connState, conn, made, peer, out, refs, cancelled, at, then, held,
                 lost, nvi, creator>>

\* Steps of a process, of a loop, of a user inside a call.
DisconnectStep(p) == WriteTaskEnded(p) \/ ReadTaskEnded(p) \/ Closed(p) \/ Abort(p)

WriteStep(g) ==
  \/ StartWriting(g) \/ WriteMessage(g) \/ WriteFails(g) \/ Flush(g) \/ Flushed(g)
  \/ EndCancelled(W(g)) \/ LeaveLoop(g)

ReadStep(g) ==
  StartReading(g) \/ Dispatch(g) \/ ReadFails(g) \/ EndCancelled(R(g))

CallStep(u) ==
  \/ OpenFails(u) \/ Opened(u)
  \/ HandshakeDone(u) \/ HandshakeEof(u) \/ HandshakeRaises(u)
  \/ GotId(u) \/ DroppedBeforeId(u) \/ CreateTimeout(u)

Next ==
  \/ \E u \in Users : Connect(u) \/ Create(u) \/ Disconnect(u) \/ Send(u) \/ CallStep(u)
  \/ \E p \in Procs : DisconnectStep(p)
  \/ \E g \in Conns : \/ WriteStep(g) \/ ReadStep(g) \/ Wake(g)
                      \/ ServerCloses(g) \/ StreamBreaks(g) \/ StreamCloses(g)

Spec == Init /\ [][Next]_vars

\* The event loop runs every ready task and every timer that is due, and a
\* closing transport is closed in the end.  Nothing makes TWS answer.
Fairness ==
  /\ \A p \in Procs : WF_vars(DisconnectStep(p))
  /\ \A g \in Conns : /\ WF_vars(WriteStep(g)) /\ WF_vars(ReadStep(g))
                      /\ WF_vars(StreamCloses(g))
  /\ \A u \in Users : WF_vars(CallStep(u))

FairSpec == Spec /\ Fairness

(***************************************************************************)
(* Properties                                                              *)
(***************************************************************************)

\* Only the loops of the last connection act on the client: a loop of an
\* earlier one, cancelled or left behind, never reads, writes or disconnects
\* on behalf of a later one, whose isConnected() it would see.
NoStrayLoop ==
  \A t \in Loops : at[t] \in {"running", "woken"} \cup Disconnecting => t[2] = made

\* A connection that is closed without a reset has sent all that was enqueued
\* for it: cancelling the write loop flushes the queue, if the loop ever ran and
\* Python 3.11 did not make it forget the cancellation.
FlushedBeforeClose ==
  \A g \in ran :
    stream[g] \in {"closing", "closed"} /\ peer[g] # "reset" =>
      \A i \in 1..Len(queue) : queue[i].to # g

\* What is left in the queue goes out on the next connection, ahead of its
\* START_API.  Only a connection that was reset, or whose write loop never ran
\* or forgot its cancellation, leaves anything.
StaleOnlyAfterFailure ==
  \A g \in Conns : \A i \in 1..Len(written[g]) :
    LET h == written[g][i].to
    IN h # g => h \notin ran \/ peer[h] = "reset"

\* A request the client accepted is queued, or was handed to the transport of
\* one connection: in one place, and in none only if a connection broke.
SentOnce ==
  \A n \in 1..sends :
    LET places == UNION {{<<g, i>> : i \in {j \in 1..Len(written[g]) :
                                            written[g][j].n = n}} : g \in Conns}
        queued == {i \in 1..Len(queue) : queue[i].n = n}
    IN \/ Cardinality(places) + Cardinality(queued) = 1
       \/ places = {} /\ queued = {} /\ \E g \in Conns : peer[g] = "reset"

\* Requests leave in the order they were sent, each on one connection at most:
\* _write_queue is drained from its head, through a flush and over a reconnect,
\* even by the loops of two connections at once.  Unless a connect() overlaps a
\* disconnect(), a connection gets none after a later connection got a newer one.
SentInOrder ==
  \A g, h \in Conns : \A i \in 1..Len(written[g]), j \in 1..Len(written[h]) :
    LET m == written[g][i].n
        n == written[h][j].n
    IN n # 0 => /\ g = h /\ i < j => m < n
                /\ g < h => IF Overlap THEN m # n ELSE m < n

\* What a connection is handed for itself comes behind its START_API, before
\* which TWS serves no request: nobody can send while the handshake is on, and
\* when the stream is not open any more to enqueue it, nothing else goes out.
StartApiFirst ==
  \A g \in Conns : \A i \in 1..Len(written[g]) :
    written[g][i].to = g => \E j \in 1..i : written[g][j] = StartApi(g)

\* create() does not sit out its timeout on a dead connection: whoever
\* disconnected, and however connect() failed, the event it races is set.
DropWakesCreate ==
  \A u \in Users : at[u] = "awaiting" /\ connState = "DISCONNECTED" => lost

\* With the client not connected and nobody connecting or disconnecting, no
\* socket is open and no loop runs.  A connect() whose handshake raised leaves
\* the client CONNECTING, and one socket open: its own, which disconnect() still
\* reaches.
NothingLeftOpen ==
  connState # "CONNECTED" /\ NobodyIn(Connecting \cup Disconnecting) =>
    /\ \A g \in Conns :
         stream[g] \in {"none", "closed"} \/ (connState = "CONNECTING" /\ conn = g)
    /\ \A t \in Loops : at[t] \notin {"running", "woken"}

\* A connection that TWS closes is noticed and taken down by the loops alone,
\* down to the end of both loops and of the socket, unless it breaks, or a
\* connect() that overlaps puts another in its place while it is open.
EofIsCleanedUp ==
  \A g \in Conns :
    (connState = "CONNECTED" /\ conn = g /\ peer[g] = "eof")
      ~> \/ stream[g] = "closed" /\ at[W(g)] = "done" /\ at[R(g)] = "done"
         \/ peer[g] = "reset"
         \/ conn # g /\ stream[g] = "open"

\* disconnect() returns whoever calls it, and create() has an outcome.
CallsEnd ==
  /\ \A p \in Procs : at[p] \in Disconnecting ~> at[p] \notin Disconnecting
  /\ \A u \in Users : creator = u ~> creator = Nobody \/ at[u] \in {"failed", "escaped"}

(***************************************************************************)
(* Statements of the documentation that the code does not keep             *)
(***************************************************************************)

\* _connection_lost is "set when the connection drops", so that create() can
\* fail fast: a connection that drops while connected sets it.
DropSetsLost ==
  \A g \in Conns : (connState = "CONNECTED" /\ conn = g /\ peer[g] # "up") ~> lost
=============================================================================
