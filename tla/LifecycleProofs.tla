-------------------------- MODULE LifecycleProofs --------------------------
(***************************************************************************)
(* Proofs about Lifecycle for any callers, who may connect while another   *)
(* disconnects: types, that create() is woken when the connection it made  *)
(* is lost, and the order in which requests stand in the queue and in what *)
(* the transports were handed.                                             *)
(***************************************************************************)
EXTENDS Lifecycle, TLAPS

(***************************************************************************)
(* Processes                                                               *)
(***************************************************************************)

\* Where a process may be, and where its disconnect() may return to.
PlacesOf(p) ==
  Disconnecting \cup
  IF p \in Users THEN {"idle", "awaiting", "failed", "escaped"} \cup Connecting
  ELSE {"none", "created", "running", "done"} \cup
       IF p[1] = "write" THEN {"flushing"} ELSE {"woken"}

ReturnsOf(p) == IF p \in Users THEN {"idle", "awaiting", "failed"} ELSE {"done"}

Places == \A p \in Procs : at[p] \in PlacesOf(p) /\ then[p] \in ReturnsOf(p)

\* Each loop keeps to its places, and each connection has two loops.
LEMMA LoopFacts ==
  ASSUME NEW g \in Conns
  PROVE  /\ W(g) \in Loops /\ R(g) \in Loops
         /\ W(g) \in Procs /\ R(g) \in Procs
         /\ W(g) \notin Users /\ R(g) \notin Users
         /\ W(g)[1] = "write" /\ W(g)[2] = g
         /\ R(g)[1] = "read" /\ R(g)[2] = g
         /\ \A h \in Conns : W(g) # R(h) /\ (W(g) = W(h) => g = h) /\ (R(g) = R(h) => g = h)
<1>1. W(g) \in Loops /\ R(g) \in Loops
  BY DEF W, R, Loops
<1>2. \A h \in Conns : W(g) # R(h) /\ (W(g) = W(h) => g = h) /\ (R(g) = R(h) => g = h)
  BY DEF W, R
<1> QED
  BY <1>1, <1>2, UsersAssumption DEF Procs, W, R

LEMMA EveryLoop == \A t \in Loops : \E g \in Conns : t = W(g) \/ t = R(g)
<1> SUFFICES ASSUME NEW t \in Loops
             PROVE  \E g \in Conns : t = W(g) \/ t = R(g)
  OBVIOUS
<1>1. PICK a \in {"write", "read"}, g \in Conns : t = <<a, g>>
  BY DEF Loops
<1> QED
  BY <1>1 DEF W, R

LEMMA PlaceFacts ==
  /\ \A u \in Users :
       /\ PlacesOf(u) = {"idle", "awaiting", "failed", "escaped"} \cup Connecting
                          \cup Disconnecting
       /\ ReturnsOf(u) = {"idle", "awaiting", "failed"}
  /\ \A g \in Conns :
       /\ PlacesOf(W(g)) = {"none", "created", "running", "flushing", "done"} \cup Disconnecting
       /\ PlacesOf(R(g)) = {"none", "created", "running", "woken", "done"} \cup Disconnecting
       /\ ReturnsOf(W(g)) = {"done"} /\ ReturnsOf(R(g)) = {"done"}
  /\ \A p \in Procs : ReturnsOf(p) \subseteq PlacesOf(p) /\ Disconnecting \subseteq PlacesOf(p)
<1>1. \A u \in Users :
        /\ PlacesOf(u) = {"idle", "awaiting", "failed", "escaped"} \cup Connecting
                           \cup Disconnecting
        /\ ReturnsOf(u) = {"idle", "awaiting", "failed"}
  BY DEF PlacesOf, ReturnsOf
<1>2. ASSUME NEW g \in Conns
      PROVE  /\ PlacesOf(W(g)) = {"none", "created", "running", "flushing", "done"}
                                   \cup Disconnecting
             /\ PlacesOf(R(g)) = {"none", "created", "running", "woken", "done"}
                                   \cup Disconnecting
             /\ ReturnsOf(W(g)) = {"done"} /\ ReturnsOf(R(g)) = {"done"}
  <2>1. W(g) \notin Users /\ R(g) \notin Users /\ W(g)[1] = "write" /\ R(g)[1] = "read"
    BY <1>2, LoopFacts
  <2> QED
    BY <2>1 DEF PlacesOf, ReturnsOf
<1>3. \A p \in Procs : ReturnsOf(p) \subseteq PlacesOf(p) /\ Disconnecting \subseteq PlacesOf(p)
  BY DEF PlacesOf, ReturnsOf
<1> QED
  BY <1>1, <1>2, <1>3

(***************************************************************************)
(* Types                                                                   *)
(***************************************************************************)

TInv == TypeOK /\ Places

Somewhere ==
  {"idle"} \cup Connecting \cup Disconnecting \cup
  {"awaiting", "failed", "escaped",
   "none", "created", "running", "woken", "flushing", "done"}

\* What of TInv a step may put into the variables that disconnect() changes.
AtOK == at \in [Procs -> Somewhere] /\ \A p \in Procs : at[p] \in PlacesOf(p)
ThenOK ==
  /\ then \in [Procs -> {"idle", "awaiting", "failed", "done"}]
  /\ \A p \in Procs : then[p] \in ReturnsOf(p)
HeldOK ==
  /\ conn \in 0..MaxConns /\ write_task \in 0..MaxConns /\ read_task \in 0..MaxConns
  /\ stream \in [Conns -> {"none", "open", "broken", "closing", "closed"}]
  /\ held \in [Procs -> [w : 0..MaxConns, r : 0..MaxConns, c : 0..MaxConns]]
  /\ cancelled \subseteq Loops
RestOK ==
  /\ connState \in {"DISCONNECTED", "CONNECTING", "CONNECTED"}
  /\ made \in 0..MaxConns
  /\ peer \in [Conns -> {"up", "eof", "reset"}]
  /\ queue \in Seq(Message)
  /\ written \in [Conns -> Seq(Message)]
  /\ sends \in 0..MaxSends
  /\ lost \in BOOLEAN /\ nvi \in BOOLEAN
  /\ creator \in Users \cup {Nobody}
  /\ ran \subseteq Conns

LEMMA TInvParts == TInv <=> AtOK /\ ThenOK /\ HeldOK /\ RestOK
BY DEF TInv, TypeOK, Places, AtOK, ThenOK, HeldOK, RestOK, Somewhere

\* A process that moves to one of its places.
LEMMA Moves ==
  ASSUME AtOK, NEW p \in Procs, NEW x \in PlacesOf(p), at' = [at EXCEPT ![p] = x]
  PROVE  AtOK'
<1>1. PlacesOf(p) \subseteq Somewhere
  BY DEF PlacesOf, Somewhere
<1>2. at' \in [Procs -> Somewhere] /\ \A q \in Procs : at'[q] = IF q = p THEN x ELSE at[q]
  BY <1>1 DEF AtOK
<1> QED
  BY <1>2 DEF AtOK

LEMMA CloseType ==
  ASSUME AtOK, HeldOK, ThenOK', NEW p \in Procs, Close(p)
  PROVE  AtOK' /\ (cancelled' \subseteq Loops => HeldOK')
<1>1. CASE StreamIsConnected
  <2>1. conn \in Conns
    BY <1>1 DEF StreamIsConnected, HeldOK, None, Conns
  <2>2. AtOK'
    BY <1>1, PlaceFacts, Moves DEF Close, Disconnecting
  <2>3. /\ held' = [held EXCEPT ![p].c = conn]
        /\ stream' = [stream EXCEPT ![conn] = "closing"]
        /\ write_task' = None /\ read_task' = None /\ conn' = conn
    BY <1>1 DEF Close
  <2>4. held' \in [Procs -> [w : 0..MaxConns, r : 0..MaxConns, c : 0..MaxConns]]
    BY <2>3 DEF HeldOK
  <2>5. stream' \in [Conns -> {"none", "open", "broken", "closing", "closed"}]
    BY <2>3 DEF HeldOK
  <2> QED
    BY <2>2, <2>3, <2>4, <2>5, BoundsAssumption DEF HeldOK, None
<1>2. CASE ~StreamIsConnected
  <2>1. then'[p] \in PlacesOf(p)
    BY PlaceFacts DEF ThenOK
  <2>2. AtOK'
    BY <1>2, <2>1, Moves DEF Close
  <2>3. /\ held' = held /\ conn' = None /\ write_task' = None /\ read_task' = None
        /\ stream' = [g \in Conns |-> IF g = conn /\ stream[g] = "broken"
                                        THEN "closed" ELSE stream[g]]
    BY <1>2 DEF Close
  <2> QED
    BY <2>2, <2>3, BoundsAssumption DEF HeldOK, None
<1> QED
  BY <1>1, <1>2

LEMMA CancelType ==
  ASSUME AtOK, HeldOK, NEW p \in Procs, NEW t \in Loops, NEW where \in Disconnecting,
         NEW h \in [w : 0..MaxConns, r : 0..MaxConns, c : 0..MaxConns],
         CancelAndAwait(p, t, where, h)
  PROVE  AtOK' /\ HeldOK'
<1>1. AtOK'
  BY PlaceFacts, Moves DEF CancelAndAwait
<1>2. HeldOK'
  BY DEF CancelAndAwait, HeldOK, refs
<1> QED
  BY <1>1, <1>2

LEMMA ReadTaskType ==
  ASSUME AtOK, HeldOK, ThenOK', NEW p \in Procs, NEW r \in 0..MaxConns,
         ReadTaskThenClose(p, r)
  PROVE  AtOK' /\ HeldOK'
<1>1. CASE r # None /\ NotDone(R(r))
  <2>1. r \in Conns
    BY <1>1 DEF None, Conns
  <2>2. R(r) \in Loops
    BY <2>1, LoopFacts
  <2>3. [held[p] EXCEPT !.r = r] \in [w : 0..MaxConns, r : 0..MaxConns, c : 0..MaxConns]
    BY DEF HeldOK
  <2>4. CancelAndAwait(p, R(r), "d_read", [held[p] EXCEPT !.r = r])
    BY <1>1 DEF ReadTaskThenClose
  <2>5. "d_read" \in Disconnecting
    BY DEF Disconnecting
  <2> QED
    BY <2>2, <2>3, <2>4, <2>5, CancelType
<1>2. CASE ~(r # None /\ NotDone(R(r)))
  <2>1. Close(p) /\ cancelled' = cancelled \ {p}
    BY <1>2 DEF ReadTaskThenClose
  <2>2. cancelled' \subseteq Loops
    BY <2>1 DEF HeldOK
  <2> QED
    BY <2>1, <2>2, CloseType
<1> QED
  BY <1>1, <1>2

LEMMA BeginType ==
  ASSUME TInv, NEW p \in Procs, NEW k \in ReturnsOf(p), BeginDisconnect(p, k)
  PROVE  /\ AtOK' /\ HeldOK' /\ ThenOK'
         /\ connState' \in {"DISCONNECTED", "CONNECTING", "CONNECTED"} /\ lost' \in BOOLEAN
<1>1. AtOK /\ ThenOK /\ HeldOK /\ RestOK
  BY TInvParts
<1>2. then' = [then EXCEPT ![p] = k]
  BY DEF BeginDisconnect
<1>3. k \in {"idle", "awaiting", "failed", "done"}
  BY DEF ReturnsOf
<1>4. ThenOK'
  <2>1. \A q \in Procs : then'[q] = IF q = p THEN k ELSE then[q]
    BY <1>1, <1>2 DEF ThenOK
  <2> QED
    BY <1>1, <1>2, <1>3, <2>1 DEF ThenOK
<1>5. connState' \in {"DISCONNECTED", "CONNECTING", "CONNECTED"} /\ lost' \in BOOLEAN
  BY <1>1 DEF BeginDisconnect, RestOK
<1>6. CASE connState = "DISCONNECTED"
  <2>1. /\ at' = [at EXCEPT ![p] = k]
        /\ UNCHANGED <<conn, stream, refs, cancelled, held>>
    BY <1>6 DEF BeginDisconnect
  <2>2. AtOK'
    BY <1>1, <2>1, PlaceFacts, Moves
  <2>3. HeldOK'
    BY <1>1, <2>1 DEF HeldOK, refs
  <2> QED
    BY <1>4, <1>5, <2>2, <2>3
<1>7. CASE connState # "DISCONNECTED" /\ write_task # None /\ NotDone(W(write_task))
  <2>1. write_task \in Conns
    BY <1>1, <1>7 DEF HeldOK, None, Conns
  <2>2. W(write_task) \in Loops
    BY <2>1, LoopFacts
  <2>3. CancelAndAwait(p, W(write_task), "d_write",
                       [held[p] EXCEPT !.w = write_task, !.r = read_task])
    BY <1>7 DEF BeginDisconnect
  <2>4. [held[p] EXCEPT !.w = write_task, !.r = read_task]
          \in [w : 0..MaxConns, r : 0..MaxConns, c : 0..MaxConns]
    BY <1>1 DEF HeldOK
  <2>5. "d_write" \in Disconnecting
    BY DEF Disconnecting
  <2> QED
    BY <1>1, <1>4, <1>5, <2>2, <2>3, <2>4, <2>5, CancelType
<1>8. CASE connState # "DISCONNECTED" /\ ~(write_task # None /\ NotDone(W(write_task)))
  <2>1. ReadTaskThenClose(p, read_task)
    BY <1>8 DEF BeginDisconnect
  <2>2. read_task \in 0..MaxConns
    BY <1>1 DEF HeldOK
  <2> QED
    BY <1>1, <1>4, <1>5, <2>1, <2>2, ReadTaskType
<1> QED
  BY <1>6, <1>7, <1>8

\* Steps that move one process to one of its places.
LEMMA MoveType ==
  ASSUME TInv, NEW p \in Procs, NEW x \in PlacesOf(p), at' = [at EXCEPT ![p] = x],
         then' = then, HeldOK', RestOK'
  PROVE  TInv'
<1>1. AtOK /\ ThenOK
  BY TInvParts
<1>2. AtOK'
  BY <1>1, Moves
<1>3. ThenOK'
  BY <1>1 DEF ThenOK
<1>4. (TInv <=> AtOK /\ ThenOK /\ HeldOK /\ RestOK)'
  BY TInvParts, PTL
<1> QED
  BY <1>2, <1>3, <1>4

\* Steps that run disconnect().
LEMMA BeginKeepsType ==
  ASSUME TInv, NEW p \in Procs, NEW k \in ReturnsOf(p), BeginDisconnect(p, k),
         made' = made, peer' = peer, written' = written, sends' = sends, nvi' = nvi,
         ran' = ran, queue' \in Seq(Message), creator' = creator
  PROVE  TInv'
<1>1. RestOK
  BY TInvParts
<1>2. RestOK'
  BY <1>1, BeginType DEF RestOK
<1>4. (TInv <=> AtOK /\ ThenOK /\ HeldOK /\ RestOK)'
  BY TInvParts, PTL
<1> QED
  BY <1>2, <1>4, BeginType

LEMMA DisconnectStepType ==
  ASSUME TInv, NEW p \in Procs, DisconnectStep(p)
  PROVE  TInv'
<1>1. AtOK /\ ThenOK /\ HeldOK /\ RestOK
  BY TInvParts
<1>2. (TInv <=> AtOK /\ ThenOK /\ HeldOK /\ RestOK)'
  BY TInvParts, PTL
<1>3. CASE WriteTaskEnded(p)
  <2>1. ThenOK'
    BY <1>1, <1>3 DEF WriteTaskEnded, ThenOK
  <2>2. held[p].r \in 0..MaxConns
    BY <1>1 DEF HeldOK
  <2>3. AtOK' /\ HeldOK'
    BY <1>1, <1>3, <2>1, <2>2, ReadTaskType DEF WriteTaskEnded
  <2>4. RestOK'
    BY <1>1, <1>3 DEF WriteTaskEnded, ResetIfOver, RestOK, out
  <2> QED
    BY <1>2, <2>1, <2>3, <2>4
<1>4. CASE ReadTaskEnded(p)
  <2>1. ThenOK'
    BY <1>1, <1>4 DEF ReadTaskEnded, ThenOK
  <2>2. cancelled' \subseteq Loops
    BY <1>1, <1>4 DEF ReadTaskEnded, HeldOK
  <2>3. AtOK' /\ HeldOK'
    BY <1>1, <1>4, <2>1, <2>2, CloseType DEF ReadTaskEnded
  <2>4. RestOK'
    BY <1>1, <1>4 DEF ReadTaskEnded, ResetIfOver, RestOK, out
  <2> QED
    BY <1>2, <2>1, <2>3, <2>4
<1>5. CASE Closed(p)
  <2>1. then[p] \in PlacesOf(p)
    BY <1>1, PlaceFacts DEF ThenOK
  <2>2. HeldOK' /\ RestOK'
    BY <1>1, <1>5, BoundsAssumption DEF Closed, HeldOK, RestOK, net, out, refs, None
  <2> QED
    BY <1>5, <2>1, <2>2, MoveType DEF Closed
<1>6. CASE Abort(p)
  <2>1. p \in Loops
    BY <1>1, <1>6 DEF Abort, HeldOK
  <2>2. "done" \in PlacesOf(p)
    BY <2>1, UsersAssumption DEF PlacesOf
  <2>3. HeldOK' /\ RestOK'
    BY <1>1, <1>6 DEF Abort, HeldOK, RestOK, net, refs
  <2> QED
    BY <1>6, <2>2, <2>3, MoveType DEF Abort
<1> QED
  BY <1>3, <1>4, <1>5, <1>6 DEF DisconnectStep

\* A user who is connecting has made a connection.
Begun == \A u \in Users : at[u] \in Connecting => made # None

\* What a user's steps leave, and where they lead.
LEMMA UserStepType ==
  ASSUME TInv, Begun, NEW u \in Users, Connect(u) \/ Create(u) \/ Disconnect(u) \/ Send(u) \/ CallStep(u)
  PROVE  TInv'
<1>1. AtOK /\ ThenOK /\ HeldOK /\ RestOK
  BY TInvParts
<1>2. (TInv <=> AtOK /\ ThenOK /\ HeldOK /\ RestOK)'
  BY TInvParts, PTL
<1>3. u \in Procs
  BY DEF Procs
<1>4. /\ PlacesOf(u) = {"idle", "awaiting", "failed", "escaped"} \cup Connecting
                         \cup Disconnecting
      /\ ReturnsOf(u) = {"idle", "awaiting", "failed"}
  BY PlaceFacts
<1>5. AfterConnect(u) \in {"idle", "awaiting"} /\ AfterRaise(u) \in {"idle", "escaped"}
  BY DEF AfterConnect, AfterRaise
<1>6. CASE Connect(u) \/ Create(u)
  <2>1. creator' \in Users \cup {Nobody}
    BY <1>1, <1>6 DEF Connect, Create, RestOK
  <2>2. OpenConnection(u)
    BY <1>6 DEF Connect, Create
  <2>3. made + 1 \in 0..MaxConns
    BY <1>1, <2>2, BoundsAssumption DEF OpenConnection, RestOK
  <2>4. HeldOK' /\ RestOK'
    BY <1>1, <2>1, <2>2, <2>3 DEF OpenConnection, HeldOK, RestOK, net, out, refs
  <2>5. "opening" \in PlacesOf(u)
    BY <1>4 DEF Connecting
  <2> QED
    BY <1>3, <2>2, <2>4, <2>5, MoveType DEF OpenConnection
<1>7. CASE Disconnect(u)
  <2>1. "idle" \in ReturnsOf(u)
    BY <1>4
  <2> QED
    BY <1>1, <1>3, <1>7, <2>1, BeginKeepsType DEF Disconnect, out, RestOK
<1>8. CASE Send(u)
  <2>1. conn \in Conns
    BY <1>1, <1>8 DEF Send, IsConnected, StreamIsConnected, HeldOK, None, Conns
  <2>2. sends + 1 \in 0..MaxSends
    BY <1>1, <1>8, BoundsAssumption DEF Send, RestOK
  <2>3. [to |-> conn, n |-> sends + 1] \in Message
    BY <2>1, <2>2 DEF Message
  <2>4. queue' \in Seq(Message)
    BY <1>1, <1>8, <2>3 DEF Send, RestOK
  <2>5. RestOK' /\ AtOK' /\ ThenOK' /\ HeldOK'
    BY <1>1, <1>8, <2>2, <2>4 DEF Send, RestOK, AtOK, ThenOK, HeldOK, net, refs
  <2> QED
    BY <1>2, <2>5
<1>9. CASE OpenFails(u)
  <2>1. HeldOK' /\ RestOK'
    BY <1>1, <1>9 DEF OpenFails, HeldOK, RestOK, net, out, refs
  <2> QED
    BY <1>3, <1>4, <1>5, <1>9, <2>1, MoveType DEF OpenFails
<1>10. CASE Opened(u)
  <2>1. HeldOK' /\ RestOK'
    BY <1>1, <1>10 DEF Opened, HeldOK, RestOK, out, refs
  <2>2. (IF conn = None THEN AfterRaise(u) ELSE "handshake") \in PlacesOf(u)
    BY <1>4, <1>5 DEF Connecting
  <2> QED
    BY <1>3, <1>10, <2>1, <2>2, MoveType DEF Opened
<1>11. CASE HandshakeDone(u)
  <2>1. at' = [at EXCEPT ![u] = AfterConnect(u), ![W(made)] = "created", ![R(made)] = "created"]
    BY <1>11 DEF HandshakeDone
  <2>2. AtOK'
    <3>1. ASSUME NEW q \in Procs
          PROVE  at'[q] \in PlacesOf(q) /\ at'[q] \in Somewhere
      <4>1. at'[q] = IF q \in {W(made), R(made)} THEN "created"
                     ELSE IF q = u THEN AfterConnect(u) ELSE at[q]
        BY <1>1, <1>3, <2>1 DEF AtOK
      <4>2. q \in {W(made), R(made)} => q \notin Users
        <5>1. made \in Conns
          BY <1>1, <1>3, <1>11 DEF Begun, HandshakeDone, Connecting, RestOK, None, Conns
        <5> QED
          BY <5>1, LoopFacts
      <4>3. q \notin Users => "created" \in PlacesOf(q)
        BY DEF PlacesOf
      <4>4. at'[q] \in PlacesOf(q)
        BY <1>1, <1>4, <1>5, <4>1, <4>2, <4>3 DEF AtOK
      <4> QED
        BY <4>4 DEF PlacesOf, Somewhere
    <3>2. at' \in [Procs -> Somewhere]
      BY <1>1, <2>1, <3>1 DEF AtOK
    <3> QED
      BY <3>1, <3>2 DEF AtOK
  <2>3. queue' \in Seq(Message)
    <3>1. StreamIsConnected => StartApi(conn) \in Message
      BY <1>1, BoundsAssumption DEF StreamIsConnected, HeldOK, None, Conns, StartApi, Message
    <3> QED
      BY <1>1, <1>11, <3>1 DEF HandshakeDone, RestOK
  <2>4. ThenOK' /\ HeldOK' /\ RestOK'
    BY <1>1, <1>11, <2>3 DEF HandshakeDone, ThenOK, HeldOK, RestOK, net
  <2> QED
    BY <1>2, <2>2, <2>4
<1>12. CASE HandshakeEof(u)
  BY <1>1, <1>3, <1>4, <1>5, <1>12, BeginKeepsType DEF HandshakeEof, out, RestOK
<1>13. CASE HandshakeRaises(u)
  <2>1. HeldOK' /\ RestOK'
    BY <1>1, <1>13 DEF HandshakeRaises, HeldOK, RestOK, net, out, refs
  <2> QED
    BY <1>3, <1>4, <1>5, <1>13, <2>1, MoveType DEF HandshakeRaises
<1>14. CASE GotId(u)
  <2>1. HeldOK' /\ RestOK'
    BY <1>1, <1>14 DEF GotId, HeldOK, RestOK, net, out, refs
  <2> QED
    BY <1>3, <1>4, <1>14, <2>1, MoveType DEF GotId
<1>15. CASE NoId(u)
  BY <1>1, <1>3, <1>4, <1>15, BeginKeepsType DEF NoId, out, RestOK
<1> QED
  BY <1>6, <1>7, <1>8, <1>9, <1>10, <1>11, <1>12, <1>13, <1>14, <1>15
     DEF CallStep, DroppedBeforeId, CreateTimeout

\* The loops.
LEMMA LoopStepType ==
  ASSUME TInv, NEW g \in Conns, WriteStep(g) \/ ReadStep(g) \/ Wake(g)
  PROVE  TInv'
<1> USE DEF net, out, refs
<1>1. AtOK /\ ThenOK /\ HeldOK /\ RestOK
  BY TInvParts
<1>2. W(g) \in Procs /\ R(g) \in Procs
  BY LoopFacts
<1>3. /\ PlacesOf(W(g)) = {"none", "created", "running", "flushing", "done"} \cup Disconnecting
      /\ PlacesOf(R(g)) = {"none", "created", "running", "woken", "done"} \cup Disconnecting
      /\ ReturnsOf(W(g)) = {"done"} /\ ReturnsOf(R(g)) = {"done"}
  BY PlaceFacts
<1>4. Len(queue) \in Nat /\ (queue # <<>> => Tail(queue) \in Seq(Message) /\ Head(queue) \in Message)
  BY <1>1 DEF RestOK
<1>5. CASE StartWriting(g)
  <2>1. HeldOK' /\ RestOK'
    BY <1>1, <1>5 DEF StartWriting, HeldOK, RestOK
  <2> QED
    BY <1>2, <1>3, <1>5, <2>1, MoveType DEF StartWriting
<1>6. CASE WriteMessage(g)
  <2>1. HeldOK' /\ RestOK'
    BY <1>1, <1>4, <1>6 DEF WriteMessage, HeldOK, RestOK
  <2> QED
    BY <1>2, <1>3, <1>6, <2>1, MoveType DEF WriteMessage
<1>7. CASE WriteFails(g)
  <2>1. queue' \in Seq(Message)
    BY <1>1, <1>4, <1>7 DEF WriteFails, RestOK
  <2> QED
    BY <1>1, <1>2, <1>3, <1>7, <2>1, BeginKeepsType DEF WriteFails, RestOK
<1>8. CASE Flush(g)
  <2>1. HeldOK' /\ RestOK'
    <3>1. written[g] \o queue \in Seq(Message) /\ <<>> \in Seq(Message)
      BY <1>1 DEF RestOK
    <3>2. /\ written' \in [Conns -> Seq(Message)]
          /\ queue' \in Seq(Message)
      BY <1>1, <1>8, <3>1 DEF Flush, RestOK
    <3> QED
      BY <1>1, <1>8, <3>2 DEF Flush, HeldOK, RestOK
  <2>2. at' = [at EXCEPT ![W(g)] = IF stream[g] = "open" THEN "flushing" ELSE "done"]
    BY <1>8 DEF Flush
  <2> QED
    BY <1>2, <1>3, <1>8, <2>1, <2>2, MoveType DEF Flush
<1>9. CASE Flushed(g)
  <2>1. HeldOK' /\ RestOK'
    BY <1>1, <1>9 DEF Flushed, HeldOK, RestOK
  <2> QED
    BY <1>2, <1>3, <1>9, <2>1, MoveType DEF Flushed
<1>10. ASSUME NEW t \in {W(g), R(g)}, EndCancelled(t)
       PROVE  TInv'
  <2>1. HeldOK' /\ RestOK'
    BY <1>1, <1>10 DEF EndCancelled, HeldOK, RestOK
  <2> QED
    BY <1>2, <1>3, <1>10, <2>1, MoveType DEF EndCancelled
<1>11. CASE LeaveLoop(g)
  <2>1. HeldOK' /\ RestOK'
    BY <1>1, <1>11 DEF LeaveLoop, HeldOK, RestOK
  <2> QED
    BY <1>2, <1>3, <1>11, <2>1, MoveType DEF LeaveLoop
<1>12. CASE StartReading(g)
  <2>1. HeldOK' /\ RestOK'
    BY <1>1, <1>12 DEF StartReading, HeldOK, RestOK
  <2> QED
    BY <1>2, <1>3, <1>12, <2>1, MoveType DEF StartReading
<1>13. CASE Dispatch(g)
  <2>1. HeldOK' /\ RestOK'
    BY <1>1, <1>13 DEF Dispatch, HeldOK, RestOK
  <2> QED
    BY <1>2, <1>3, <1>13, <2>1, MoveType DEF Dispatch
<1>14. CASE ReadFails(g)
  BY <1>1, <1>2, <1>3, <1>14, BeginKeepsType DEF ReadFails, RestOK
<1>15. CASE Wake(g)
  <2>1. HeldOK' /\ RestOK'
    BY <1>1, <1>15 DEF Wake, HeldOK, RestOK
  <2> QED
    BY <1>2, <1>3, <1>15, <2>1, MoveType DEF Wake
<1> QED
  BY <1>5, <1>6, <1>7, <1>8, <1>9, <1>10, <1>11, <1>12, <1>13, <1>14, <1>15
     DEF WriteStep, ReadStep

\* A disconnect() moves nobody but the process that runs it, and leads it back
\* or to its next await.
LEMMA CloseMoves ==
  ASSUME AtOK, NEW p \in Procs, Close(p)
  PROVE  /\ \A q \in Procs \ {p} : at'[q] = at[q]
         /\ at'[p] \in {then'[p], "d_close"}
BY DEF AtOK, Close

LEMMA ReadTaskMoves ==
  ASSUME AtOK, NEW p \in Procs, NEW r, ReadTaskThenClose(p, r)
  PROVE  /\ \A q \in Procs \ {p} : at'[q] = at[q]
         /\ at'[p] \in {then'[p]} \cup Disconnecting
BY CloseMoves DEF AtOK, ReadTaskThenClose, CancelAndAwait, Disconnecting

LEMMA BeginMoves ==
  ASSUME TInv, NEW p \in Procs, NEW k, BeginDisconnect(p, k)
  PROVE  /\ \A q \in Procs \ {p} : at'[q] = at[q]
         /\ at'[p] \in {k} \cup Disconnecting
<1>1. AtOK /\ then' = [then EXCEPT ![p] = k]
  BY TInvParts DEF BeginDisconnect
<1>2. then'[p] = k
  BY <1>1, TInvParts DEF ThenOK
<1>3. CASE connState = "DISCONNECTED"
  BY <1>1, <1>3 DEF BeginDisconnect, AtOK
<1>4. CASE connState # "DISCONNECTED" /\ write_task # None /\ NotDone(W(write_task))
  BY <1>1, <1>4 DEF BeginDisconnect, AtOK, CancelAndAwait, Disconnecting
<1>5. CASE connState # "DISCONNECTED" /\ ~(write_task # None /\ NotDone(W(write_task)))
  BY <1>1, <1>2, <1>5, ReadTaskMoves DEF BeginDisconnect
<1> QED
  BY <1>3, <1>4, <1>5

LEMMA DisconnectStepMoves ==
  ASSUME TInv, NEW p \in Procs, DisconnectStep(p)
  PROVE  /\ at[p] \in Disconnecting
         /\ \A q \in Procs \ {p} : at'[q] = at[q]
         /\ at'[p] \in {then[p], "done"} \cup Disconnecting
<1>1. AtOK
  BY TInvParts
<1>2. CASE WriteTaskEnded(p)
  BY <1>1, <1>2, ReadTaskMoves DEF WriteTaskEnded, Disconnecting
<1>3. CASE ReadTaskEnded(p)
  BY <1>1, <1>3, CloseMoves DEF ReadTaskEnded, Disconnecting
<1>4. CASE Closed(p) \/ Abort(p)
  BY <1>1, <1>4 DEF Closed, Abort, Disconnecting, AtOK
<1> QED
  BY <1>2, <1>3, <1>4 DEF DisconnectStep

LEMMA StepBegun ==
  ASSUME TInv, Begun, [Next]_vars
  PROVE  Begun'
<1>1. AtOK /\ ThenOK /\ HeldOK /\ RestOK
  BY TInvParts
<1>2. Users \subseteq Procs
  BY DEF Procs
<1>3. SUFFICES ASSUME NEW v \in Users, at'[v] \in Connecting
               PROVE  made' # None
  BY DEF Begun
<1>4. ASSUME made' = made, at'[v] = at[v]
      PROVE  made' # None
  BY <1>3, <1>4 DEF Begun
<1>5. ASSUME NEW p \in Procs, made' = made, \A q \in Procs \ {p} : at'[q] = at[q],
             at'[p] \notin Connecting \/ at[p] \in Connecting
      PROVE  made' # None
  BY <1>2, <1>3, <1>5 DEF Begun
<1>6. \A p \in Procs : \A k \in ReturnsOf(p) \cup {"done"} \cup Disconnecting : k \notin Connecting
  BY DEF ReturnsOf, Disconnecting, Connecting
<1>7. ASSUME NEW u \in Users, Connect(u) \/ Create(u)
      PROVE  made' # None
  BY <1>1, <1>7 DEF Connect, Create, OpenConnection, RestOK, None
<1>8. ASSUME NEW p \in Procs, NEW k \in ReturnsOf(p), BeginDisconnect(p, k), made' = made
      PROVE  made' # None
  BY <1>5, <1>6, <1>8, BeginMoves
<1>9. ASSUME NEW p \in Procs, DisconnectStep(p)
      PROVE  made' # None
  <2>1. made' = made
    BY <1>9 DEF DisconnectStep, WriteTaskEnded, ReadTaskEnded, Closed, Abort
  <2>2. then[p] \in ReturnsOf(p)
    BY <1>1 DEF ThenOK
  <2> QED
    BY <1>5, <1>6, <1>9, <2>1, <2>2, DisconnectStepMoves
<1>10. ASSUME NEW u \in Users, Disconnect(u) \/ Send(u) \/ CallStep(u)
       PROVE  made' # None
  <2>1. u \in Procs /\ {"idle", "failed"} \subseteq ReturnsOf(u) /\ AfterConnect(u) \in ReturnsOf(u)
    BY <1>2 DEF ReturnsOf, AfterConnect
  <2>2. CASE Disconnect(u) \/ HandshakeEof(u) \/ NoId(u)
    BY <1>8, <2>1, <2>2 DEF Disconnect, HandshakeEof, NoId
  <2>3. CASE Send(u)
    BY <1>4, <2>3 DEF Send
  <2>4. CASE OpenFails(u) \/ HandshakeRaises(u) \/ GotId(u) \/ Opened(u)
    <3>1. /\ made' = made /\ \A q \in Procs \ {u} : at'[q] = at[q]
          /\ at'[u] \notin Connecting \/ at[u] \in Connecting
      BY <1>1, <2>1, <2>4 DEF OpenFails, HandshakeRaises, GotId, Opened, AtOK, Connecting
    <3> QED
      BY <1>5, <2>1, <3>1
  <2>5. CASE HandshakeDone(u)
    BY <2>1, <2>5 DEF HandshakeDone, Begun, Connecting
  <2> QED
    BY <1>10, <2>2, <2>3, <2>4, <2>5 DEF CallStep, DroppedBeforeId, CreateTimeout
<1>11. ASSUME NEW g \in Conns, WriteStep(g) \/ ReadStep(g) \/ Wake(g)
       PROVE  made' # None
  <2>1. W(g) \in Procs /\ R(g) \in Procs /\ W(g) # v /\ R(g) # v
    BY LoopFacts
  <2>2. CASE WriteFails(g) \/ ReadFails(g)
    <3>1. /\ made' = made /\ "done" \in ReturnsOf(W(g)) /\ "done" \in ReturnsOf(R(g))
          /\ BeginDisconnect(W(g), "done") \/ BeginDisconnect(R(g), "done")
      BY <2>2, PlaceFacts DEF WriteFails, ReadFails
    <3> QED
      BY <1>8, <2>1, <3>1
  <2>3. CASE ~(WriteFails(g) \/ ReadFails(g))
    <3>1. made' = made /\ at'[v] = at[v]
      BY <1>1, <1>2, <1>11, <2>1, <2>3
         DEF WriteStep, ReadStep, StartWriting, WriteMessage, Flush, Flushed, EndCancelled,
             LeaveLoop, StartReading, Dispatch, Wake, AtOK
    <3> QED
      BY <1>4, <3>1
  <2> QED
    BY <2>2, <2>3
<1>12. ASSUME NEW g \in Conns, ServerCloses(g) \/ StreamBreaks(g) \/ StreamCloses(g)
       PROVE  made' # None
  BY <1>4, <1>12 DEF ServerCloses, StreamBreaks, StreamCloses
<1>13. CASE UNCHANGED vars
  BY <1>4, <1>13 DEF vars
<1> QED
  BY <1>7, <1>9, <1>10, <1>11, <1>12, <1>13 DEF Next

LEMMA StepTInv ==
  ASSUME TInv, Begun, [Next]_vars
  PROVE  TInv'
<1>1. AtOK /\ ThenOK /\ HeldOK /\ RestOK
  BY TInvParts
<1>2. (TInv <=> AtOK /\ ThenOK /\ HeldOK /\ RestOK)'
  BY TInvParts, PTL
<1>3. ASSUME NEW g \in Conns, ServerCloses(g) \/ StreamBreaks(g) \/ StreamCloses(g)
      PROVE  TInv'
  <2>1. AtOK' /\ ThenOK' /\ HeldOK' /\ RestOK'
    BY <1>1, <1>3 DEF ServerCloses, StreamBreaks, StreamCloses, AtOK, ThenOK, HeldOK, RestOK,
                      out, refs
  <2> QED
    BY <1>2, <2>1
<1>4. CASE UNCHANGED vars
  <2>1. AtOK' /\ ThenOK' /\ HeldOK' /\ RestOK'
    BY <1>1, <1>4 DEF vars, AtOK, ThenOK, HeldOK, RestOK, net, out, refs
  <2> QED
    BY <1>2, <2>1
<1> QED
  BY <1>3, <1>4, DisconnectStepType, UserStepType, LoopStepType DEF Next

LEMMA InitTInv == Init => TInv
<1> SUFFICES ASSUME Init PROVE TInv
  OBVIOUS
<1> USE BoundsAssumption DEF Init, None
<1>1. AtOK
  BY DEF AtOK, Somewhere, PlacesOf
<1>2. ThenOK
  BY DEF ThenOK, ReturnsOf
<1>3. HeldOK
  BY DEF HeldOK
<1>4. RestOK
  <2>1. <<>> \in Seq(Message)
    OBVIOUS
  <2>2. queue \in Seq(Message) /\ written \in [Conns -> Seq(Message)]
    BY <2>1
  <2>3. /\ connState = "DISCONNECTED" /\ made = 0 /\ sends = 0 /\ lost = FALSE /\ nvi = FALSE
        /\ creator = Nobody /\ ran = {}
    OBVIOUS
  <2>4. peer \in [Conns -> {"up", "eof", "reset"}]
    OBVIOUS
  <2> HIDE DEF Init
  <2>5. made \in 0..MaxConns /\ sends \in 0..MaxSends
    BY <2>3
  <2> QED
    BY <2>2, <2>3, <2>4, <2>5 DEF RestOK
<1> QED
  BY <1>1, <1>2, <1>3, <1>4, TInvParts

LEMMA TInvariance == Spec => [](TInv /\ Begun)
<1>1. Init => Begun
  BY DEF Init, Begun, Connecting, Procs
<1> QED
  BY <1>1, InitTInv, StepTInv, StepBegun, PTL DEF Spec

\* The client's variables keep their types, whoever calls what and when, and
\* the loops and the users stay where their code is.
THEOREM TypeCorrect == Spec => []TypeOK
<1>1. TInv => TypeOK
  BY DEF TInv
<1> QED
  BY <1>1, TInvariance, PTL

(***************************************************************************)
(* create() and the event that ends its wait                               *)
(***************************************************************************)

\* The loops of a connection not made yet do not exist.
NotYet == \A g \in Conns : g > made => at[W(g)] = "none" /\ at[R(g)] = "none"

\* Only the creator waits in create(), or will when its disconnect() returns.
OneAwaits ==
  \A u \in Users :
    at[u] = "awaiting" \/ (at[u] \in Disconnecting /\ then[u] = "awaiting") => creator = u

\* While the client is being created nobody else has it; no loop runs before
\* the handshake is over, and no disconnect() runs without the event being set.
CreatorAlone ==
  creator # Nobody =>
    /\ \A v \in Users \ {creator} : at[v] = "idle"
    /\ at[creator] \in Connecting => \A g \in Conns : at[W(g)] = "none" /\ at[R(g)] = "none"
    /\ at[creator] = "handshake" => connState # "DISCONNECTED"
    /\ at[creator] = "awaiting" /\ connState = "DISCONNECTED" => lost
    /\ \A p \in Procs : at[p] \in Disconnecting => lost

CreatorInv == NotYet /\ OneAwaits /\ CreatorAlone

\* Every step by which one process goes on, connects apart.
LEMMA CreatorKept ==
  ASSUME TInv, CreatorInv, NEW p \in Procs,
         creator' = creator, made' = made,
         \A q \in Procs \ {p} : at'[q] = at[q] /\ then'[q] = then[q],
         at[p] = "none" => at'[p] = "none",
         at'[p] \in Connecting => at[p] \in Connecting,
         p \in Users /\ creator # Nobody => p = creator,
         p \in Users /\ (at'[p] = "awaiting" \/ (at'[p] \in Disconnecting /\ then'[p] = "awaiting"))
           => creator = p,
         lost => lost',
         creator # Nobody /\ connState' = "DISCONNECTED" /\ connState # "DISCONNECTED" =>
           lost' /\ at'[creator] # "handshake",
         at'[p] = "handshake" => connState' # "DISCONNECTED",
         at'[p] = "awaiting" /\ connState' = "DISCONNECTED" => lost',
         at'[p] \in Disconnecting => at[p] \in Disconnecting \/ lost'
  PROVE  CreatorInv'
<1>1. Users \subseteq Procs /\ \A g \in Conns : W(g) \in Procs /\ R(g) \in Procs
  BY LoopFacts DEF Procs
<1>2. creator \in Users \cup {Nobody}
  BY TInvParts DEF RestOK
<1>3. NotYet'
  BY <1>1 DEF NotYet, CreatorInv
<1>4. OneAwaits'
  BY <1>1 DEF OneAwaits, CreatorInv
<1>5. CreatorAlone'
  <2> SUFFICES ASSUME creator # Nobody
               PROVE  CreatorAlone'
    BY DEF CreatorAlone
  <2>0. creator \in Users /\ creator \in Procs
    BY <1>1, <1>2
  <2>1. \A v \in Users \ {creator} : at'[v] = "idle"
    BY <1>1 DEF CreatorInv, CreatorAlone
  <2>2. at'[creator] \in Connecting => at[creator] \in Connecting
    BY <2>0
  <2>3. at'[creator] \in Connecting => \A g \in Conns : at'[W(g)] = "none" /\ at'[R(g)] = "none"
    BY <1>1, <2>2 DEF CreatorInv, CreatorAlone
  <2>4. at'[creator] = "handshake" => connState' # "DISCONNECTED"
    BY <2>0 DEF CreatorInv, CreatorAlone
  <2>5. at'[creator] = "awaiting" /\ connState' = "DISCONNECTED" => lost'
    BY <2>0 DEF CreatorInv, CreatorAlone
  <2>6. \A q \in Procs : at'[q] \in Disconnecting => lost'
    BY DEF CreatorInv, CreatorAlone
  <2> QED
    BY <2>1, <2>3, <2>4, <2>5, <2>6 DEF CreatorAlone
<1> QED
  BY <1>3, <1>4, <1>5 DEF CreatorInv

\* The beginning of a disconnect().
LEMMA CreatorBegin ==
  ASSUME TInv, CreatorInv, NEW p \in Procs, NEW k \in ReturnsOf(p), BeginDisconnect(p, k),
         at[p] # "none", creator' = creator, made' = made,
         p \in Users /\ creator # Nobody => p = creator,
         k = "awaiting" => creator = p /\ at[p] = "handshake"
  PROVE  CreatorInv'
<1>1. /\ then' = [then EXCEPT ![p] = k] /\ connState' = "DISCONNECTED"
      /\ connState # "DISCONNECTED" => lost'
      /\ lost' = lost \/ lost'
  BY DEF BeginDisconnect
<1>2. \A q \in Procs \ {p} : at'[q] = at[q]
  BY BeginMoves
<1>3. at'[p] \in {k} \cup Disconnecting
  BY BeginMoves
<1>4. \A q \in Procs : then'[q] = IF q = p THEN k ELSE then[q]
  BY <1>1, TInvParts DEF ThenOK
<1>5. connState = "DISCONNECTED" => at'[p] = k /\ lost' = lost
  BY TInvParts DEF BeginDisconnect, AtOK
<1>6. k \notin Connecting /\ k \notin Disconnecting /\ k # "handshake" /\ k # "none"
  BY DEF ReturnsOf, Connecting, Disconnecting
<1>7. at'[p] \notin Connecting
  BY <1>3, <1>6 DEF Disconnecting, Connecting
<1>8. creator \in Users \cup {Nobody}
  BY TInvParts DEF RestOK
<1>9. connState # "DISCONNECTED" => at'[creator] # "handshake" \/ creator = Nobody
  <2> SUFFICES ASSUME connState # "DISCONNECTED", creator # Nobody, at'[creator] = "handshake"
               PROVE  FALSE
    OBVIOUS
  <2>1. p # creator
    BY <1>3, <1>6 DEF Disconnecting
  <2>2. p \in Loops /\ at[creator] = "handshake"
    BY <1>2, <1>8, <2>1 DEF Procs
  <2>3. PICK g \in Conns : p = W(g) \/ p = R(g)
    BY <2>2, EveryLoop
  <2> QED
    BY <2>2, <2>3 DEF CreatorInv, CreatorAlone, Connecting
<1>10. at'[p] # "none" /\ at'[p] # "handshake"
  BY <1>3, <1>6 DEF Disconnecting
<1>11. at'[p] = "awaiting" => creator = p /\ connState # "DISCONNECTED"
  <2> SUFFICES ASSUME at'[p] = "awaiting"
               PROVE  creator = p /\ connState # "DISCONNECTED"
    OBVIOUS
  <2>1. k = "awaiting"
    BY <1>3 DEF Disconnecting
  <2>2. creator = p /\ creator # Nobody
    BY <2>1, UsersAssumption
  <2> QED
    BY <2>1, <2>2 DEF CreatorInv, CreatorAlone
<1>12. p \in Users /\ (at'[p] = "awaiting" \/ (at'[p] \in Disconnecting /\ then'[p] = "awaiting"))
         => creator = p
  BY <1>4, <1>11
<1>13. at'[p] \in Disconnecting => lost'
  BY <1>1, <1>5, <1>6
<1>14. at'[p] = "awaiting" /\ connState' = "DISCONNECTED" => lost'
  BY <1>1, <1>11
<1>15. lost => lost'
  BY <1>1
<1> QED
  BY <1>1, <1>2, <1>4, <1>7, <1>9, <1>10, <1>12, <1>13, <1>14, <1>15, CreatorKept

LEMMA CreatorSame ==
  ASSUME CreatorInv, UNCHANGED <<at, then, creator, made, connState, lost>>
  PROVE  CreatorInv'
BY DEF CreatorInv, NotYet, OneAwaits, CreatorAlone

\* A step of a loop that does not disconnect.
LEMMA CreatorLoop ==
  ASSUME TInv, CreatorInv, NEW g \in Conns, NEW t \in {W(g), R(g)}, at[t] # "none",
         at' = [at EXCEPT ![t] = at'[t]],
         at'[t] \in {"running", "woken", "flushing", "done"},
         UNCHANGED <<then, creator, made, connState, lost>>
  PROVE  CreatorInv'
<1>1. t \in Procs /\ t \notin Users
  BY LoopFacts
<1>2. \A q \in Procs \ {t} : at'[q] = at[q] /\ then'[q] = then[q]
  BY TInvParts DEF AtOK
<1>3. at'[t] \notin Connecting /\ at'[t] \notin Disconnecting
  BY DEF Connecting, Disconnecting
<1> QED
  BY <1>1, <1>2, <1>3, CreatorKept

LEMMA CreatorDisconnectStep ==
  ASSUME TInv, CreatorInv, NEW p \in Procs, DisconnectStep(p)
  PROVE  CreatorInv'
<1>1. UNCHANGED <<then, creator, made, lost>>
  BY DEF DisconnectStep, WriteTaskEnded, ReadTaskEnded, Closed, Abort
<1>2. /\ at[p] \in Disconnecting
      /\ \A q \in Procs \ {p} : at'[q] = at[q]
      /\ at'[p] \in {then[p], "done"} \cup Disconnecting
  BY DisconnectStepMoves
<1>3. then[p] \in ReturnsOf(p)
  BY TInvParts DEF ThenOK
<1>4. at'[p] \notin Connecting /\ at'[p] # "handshake" /\ at[p] # "none"
  BY <1>2, <1>3 DEF ReturnsOf, Connecting, Disconnecting
<1>5. at'[p] = "awaiting" => then[p] = "awaiting"
  BY <1>2 DEF Disconnecting
<1>6. p \in Users /\ creator # Nobody => p = creator
  BY <1>2 DEF CreatorInv, CreatorAlone, Disconnecting
<1>7. p \in Users /\ (at'[p] = "awaiting" \/ (at'[p] \in Disconnecting /\ then'[p] = "awaiting"))
        => creator = p
  BY <1>1, <1>2, <1>5 DEF CreatorInv, OneAwaits
<1>8. creator # Nobody => lost
  BY <1>2 DEF CreatorInv, CreatorAlone
<1>9. at'[p] = "awaiting" => lost
  <2> SUFFICES ASSUME at'[p] = "awaiting" PROVE lost
    OBVIOUS
  <2>1. p \in Users
    BY <1>3, <1>5 DEF ReturnsOf
  <2> QED
    BY <1>7, <1>8, <2>1, UsersAssumption DEF Procs
<1>10. creator # Nobody => at'[creator] # "handshake"
  <2> SUFFICES ASSUME creator # Nobody, at'[creator] = "handshake" PROVE FALSE
    OBVIOUS
  <2>1. creator \in Procs /\ creator \in Users
    BY TInvParts DEF RestOK, Procs
  <2>2. creator # p
    BY <1>4
  <2>3. at[creator] = "handshake" /\ p \in Loops
    BY <1>2, <1>6, <2>1, <2>2 DEF Procs
  <2>4. PICK g \in Conns : p = W(g) \/ p = R(g)
    BY <2>3, EveryLoop
  <2> QED
    BY <1>4, <2>3, <2>4 DEF CreatorInv, CreatorAlone, Connecting
<1> QED
  BY <1>1, <1>2, <1>4, <1>6, <1>7, <1>8, <1>9, <1>10, CreatorKept

LEMMA StepCreator ==
  ASSUME TInv, Begun, CreatorInv, [Next]_vars
  PROVE  CreatorInv'
<1>0. AtOK /\ ThenOK /\ HeldOK /\ RestOK
  BY TInvParts
<1>1. Users \subseteq Procs /\ \A g \in Conns : W(g) \in Procs /\ R(g) \in Procs
  BY LoopFacts DEF Procs
<1>2. Nobody \notin Procs
  BY UsersAssumption
<1>3. \A u \in Users : at[u] # "idle" /\ creator # Nobody => u = creator
  BY DEF CreatorInv, CreatorAlone
<1>4. ASSUME NEW u \in Users, Connect(u) \/ Create(u)
      PROVE  CreatorInv'
  <2>1. /\ OpenConnection(u) /\ creator = Nobody
        /\ at' = [at EXCEPT ![u] = "opening"] /\ then' = then /\ made' = made + 1
    BY <1>4 DEF Connect, Create, OpenConnection, MayCall
  <2>2. \A q \in Procs : at'[q] = IF q = u THEN "opening" ELSE at[q]
    BY <1>0, <2>1 DEF AtOK
  <2>3. NotYet'
    <3>1. ASSUME NEW g \in Conns, g > made + 1
          PROVE  at'[W(g)] = "none" /\ at'[R(g)] = "none"
      <4>1. W(g) # u /\ R(g) # u
        BY LoopFacts
      <4>2. g > made
        BY <3>1, <1>0 DEF RestOK, Conns
      <4> QED
        BY <1>1, <2>2, <4>1, <4>2 DEF CreatorInv, NotYet
    <3> QED
      BY <2>1, <3>1 DEF NotYet
  <2>4. \A v \in Users : ~(at'[v] = "awaiting" \/ (at'[v] \in Disconnecting /\ then'[v] = "awaiting"))
    BY <1>1, <1>2, <2>1, <2>2 DEF CreatorInv, OneAwaits, Disconnecting
  <2>5. CASE Connect(u)
    BY <2>1, <2>3, <2>4, <2>5 DEF Connect, CreatorInv, OneAwaits, CreatorAlone
  <2>6. CASE Create(u)
    <3>1. made = 0 /\ creator' = u /\ \A v \in Users : at[v] = "idle"
      BY <2>6 DEF Create
    <3>2. \A g \in Conns : at[W(g)] = "none" /\ at[R(g)] = "none"
      BY <3>1 DEF CreatorInv, NotYet, Conns
    <3>3. \A g \in Conns : at'[W(g)] = "none" /\ at'[R(g)] = "none"
      BY <1>1, <2>2, <3>2, LoopFacts
    <3>4. \A v \in Users \ {u} : at'[v] = "idle"
      BY <1>1, <2>2, <3>1
    <3>5. \A p \in Procs : at'[p] \notin Disconnecting
      BY <2>2, <3>3, <3>4, EveryLoop DEF Procs, Disconnecting
    <3>6. at'[u] = "opening"
      BY <1>1, <2>2
    <3> QED
      BY <2>3, <2>4, <3>1, <3>3, <3>4, <3>5, <3>6 DEF CreatorInv, OneAwaits, CreatorAlone
  <2> QED
    BY <1>4, <2>5, <2>6
<1>5. ASSUME NEW u \in Users, Disconnect(u) \/ HandshakeEof(u) \/ NoId(u)
      PROVE  CreatorInv'
  <2>1. {"idle", "failed"} \subseteq ReturnsOf(u) /\ AfterConnect(u) \in ReturnsOf(u)
    BY DEF ReturnsOf, AfterConnect
  <2>2. CASE Disconnect(u)
    BY <1>1, <2>1, <2>2, CreatorBegin DEF Disconnect, MayCall
  <2>3. CASE HandshakeEof(u)
    <3>1. AfterConnect(u) = "awaiting" => creator = u
      BY DEF AfterConnect
    <3> QED
      BY <1>1, <1>3, <2>1, <2>3, <3>1, CreatorBegin DEF HandshakeEof
  <2>4. CASE NoId(u)
    BY <1>1, <1>3, <2>1, <2>4, CreatorBegin DEF NoId
  <2> QED
    BY <1>5, <2>2, <2>3, <2>4
<1>6. ASSUME NEW u \in Users, OpenFails(u) \/ Opened(u) \/ HandshakeRaises(u)
      PROVE  CreatorInv'
  <2>1. AfterConnect(u) \in {"idle", "awaiting"} /\ AfterRaise(u) \in {"idle", "escaped"}
        /\ (AfterConnect(u) = "awaiting" => creator = u)
    BY DEF AfterConnect, AfterRaise
  <2>2. /\ at[u] \in Connecting /\ UNCHANGED <<then, creator, made>>
        /\ \A q \in Procs \ {u} : at'[q] = at[q] /\ then'[q] = then[q]
    BY <1>0, <1>1, <1>6 DEF OpenFails, Opened, HandshakeRaises, AtOK, Connecting
  <2>3. /\ at'[u] \in {"idle", "awaiting", "escaped", "handshake"}
        /\ at'[u] = "awaiting" => creator = u /\ lost'
        /\ lost => lost'
        /\ connState' = connState \/ connState' = "CONNECTING"
        /\ at'[u] = "handshake" => connState' = "CONNECTING"
    BY <1>0, <1>1, <1>6, <2>1 DEF OpenFails, Opened, HandshakeRaises, AtOK
  <2>4. at[u] # "idle" /\ at[u] # "none" /\ at'[u] \notin Disconnecting
    BY <2>2, <2>3 DEF Connecting, Disconnecting
  <2> QED
    BY <1>1, <1>3, <2>2, <2>3, <2>4, CreatorKept
<1>7. ASSUME NEW u \in Users, HandshakeDone(u)
      PROVE  CreatorInv'
  <2>1. made \in Conns /\ at[u] = "handshake"
    BY <1>0, <1>7 DEF HandshakeDone, Begun, Connecting, RestOK, None, Conns
  <2>2. /\ W(made) \in Procs /\ R(made) \in Procs /\ W(made) # u /\ R(made) # u
        /\ W(made) \notin Users /\ R(made) \notin Users
    BY <2>1, LoopFacts
  <2>3. \A q \in Procs : at'[q] = IF q \in {W(made), R(made)} THEN "created"
                                  ELSE IF q = u THEN AfterConnect(u) ELSE at[q]
    BY <1>0, <1>1, <1>7, <2>2 DEF HandshakeDone, AtOK
  <2>4. AfterConnect(u) \in {"idle", "awaiting"} /\ (AfterConnect(u) = "awaiting" => creator = u)
    BY DEF AfterConnect
  <2>5. UNCHANGED <<then, creator, made, lost>> /\ connState' = "CONNECTED"
    BY <1>7 DEF HandshakeDone
  <2>6. NotYet'
    <3>1. ASSUME NEW g \in Conns, g > made
          PROVE  at'[W(g)] = "none" /\ at'[R(g)] = "none"
      <4>1. W(g) \notin {W(made), R(made), u} /\ R(g) \notin {W(made), R(made), u}
        BY <2>1, <3>1, LoopFacts DEF Conns
      <4> QED
        BY <1>1, <2>3, <3>1, <4>1 DEF CreatorInv, NotYet
    <3> QED
      BY <2>5, <3>1 DEF NotYet
  <2>7. \A v \in Users : at'[v] = IF v = u THEN AfterConnect(u) ELSE at[v]
    BY <1>1, <2>2, <2>3
  <2>8. OneAwaits'
    BY <2>4, <2>5, <2>7 DEF CreatorInv, OneAwaits, Disconnecting
  <2>9. CreatorAlone'
    <3> SUFFICES ASSUME creator # Nobody PROVE CreatorAlone'
      BY <2>5 DEF CreatorAlone
    <3>1. creator = u
      BY <1>3, <2>1
    <3>2. at'[u] = "awaiting"
      BY <2>7, <3>1 DEF AfterConnect
    <3>3. \A p \in Procs : at'[p] \in Disconnecting => at[p] \in Disconnecting
      BY <2>3, <2>4 DEF Disconnecting
    <3> QED
      BY <2>5, <2>7, <3>1, <3>2, <3>3 DEF CreatorInv, CreatorAlone, Connecting
  <2> QED
    BY <2>6, <2>8, <2>9 DEF CreatorInv
<1>8. ASSUME NEW u \in Users, GotId(u)
      PROVE  CreatorInv'
  <2>1. /\ at[u] = "awaiting" /\ creator' = Nobody /\ UNCHANGED <<then, made>>
        /\ \A q \in Procs : at'[q] = IF q = u THEN "idle" ELSE at[q]
    BY <1>0, <1>1, <1>8 DEF GotId, AtOK
  <2>2. creator = u
    BY <2>1 DEF CreatorInv, OneAwaits
  <2>3. NotYet'
    BY <1>1, <2>1, LoopFacts DEF CreatorInv, NotYet
  <2>4. OneAwaits'
    BY <1>1, <2>1, <2>2 DEF CreatorInv, OneAwaits, Disconnecting
  <2> QED
    BY <2>1, <2>3, <2>4 DEF CreatorInv, CreatorAlone
<1>9. ASSUME NEW u \in Users, Send(u)
      PROVE  CreatorInv'
  BY <1>9, CreatorSame DEF Send
<1>10. ASSUME NEW g \in Conns, WriteStep(g) \/ ReadStep(g) \/ Wake(g)
       PROVE  CreatorInv'
  <2>1. CASE WriteFails(g) \/ ReadFails(g)
    <3>1. W(g) \notin Users /\ R(g) \notin Users /\ W(g) \in Procs /\ R(g) \in Procs
      BY LoopFacts
    <3>2. "done" \in ReturnsOf(W(g)) /\ "done" \in ReturnsOf(R(g))
      BY PlaceFacts
    <3> QED
      BY <2>1, <3>1, <3>2, CreatorBegin DEF WriteFails, ReadFails
  <2>2. CASE EndCancelled(W(g)) \/ EndCancelled(R(g))
    <3>1. PICK t \in {W(g), R(g)} : EndCancelled(t)
      BY <2>2
    <3>2. t \in Procs
      BY <1>1
    <3>3. /\ at[t] # "none" /\ at' = [at EXCEPT ![t] = at'[t]] /\ at'[t] = "done"
          /\ UNCHANGED <<then, creator, made, connState, lost>>
      BY <1>0, <3>1, <3>2 DEF EndCancelled, AtOK
    <3> QED
      BY <3>3, CreatorLoop
  <2>3. CASE StartWriting(g) \/ WriteMessage(g) \/ Flush(g) \/ Flushed(g) \/ LeaveLoop(g)
    <3>1. /\ at[W(g)] # "none" /\ at' = [at EXCEPT ![W(g)] = at'[W(g)]]
          /\ at'[W(g)] \in {"running", "woken", "flushing", "done"}
          /\ UNCHANGED <<then, creator, made, connState, lost>>
      BY <1>0, <1>1, <2>3 DEF StartWriting, WriteMessage, Flush, Flushed, LeaveLoop, AtOK
    <3> QED
      BY <3>1, CreatorLoop
  <2>4. CASE StartReading(g) \/ Dispatch(g) \/ Wake(g)
    <3>1. /\ at[R(g)] # "none" /\ at' = [at EXCEPT ![R(g)] = at'[R(g)]]
          /\ at'[R(g)] \in {"running", "woken", "flushing", "done"}
          /\ UNCHANGED <<then, creator, made, connState, lost>>
      BY <1>0, <1>1, <2>4 DEF StartReading, Dispatch, Wake, AtOK
    <3> QED
      BY <3>1, CreatorLoop
  <2> QED
    BY <1>10, <2>1, <2>2, <2>3, <2>4 DEF WriteStep, ReadStep
<1>11. ASSUME NEW g \in Conns, ServerCloses(g) \/ StreamBreaks(g) \/ StreamCloses(g)
       PROVE  CreatorInv'
  BY <1>11, CreatorSame DEF ServerCloses, StreamBreaks, StreamCloses
<1>12. CASE UNCHANGED vars
  BY <1>12, CreatorSame DEF vars
<1> QED
  BY <1>4, <1>5, <1>6, <1>7, <1>8, <1>9, <1>10, <1>11, <1>12, CreatorDisconnectStep
     DEF Next, CallStep, DroppedBeforeId, CreateTimeout

LEMMA CreatorInvariance == Spec => []CreatorInv
<1>1. Init => CreatorInv
  <2> SUFFICES ASSUME Init PROVE CreatorInv
    OBVIOUS
  <2>1. \A g \in Conns : at[W(g)] = "none" /\ at[R(g)] = "none"
    BY LoopFacts DEF Init
  <2>2. \A u \in Users : at[u] = "idle"
    BY DEF Init, Procs
  <2>3. creator = Nobody
    BY DEF Init
  <2> QED
    BY <2>1, <2>2, <2>3 DEF CreatorInv, NotYet, OneAwaits, CreatorAlone, Disconnecting
<1> QED
  BY <1>1, TInvariance, StepCreator, PTL DEF Spec

\* Whoever takes the connection down, and however connect() failed, create() does
\* not sit out its timeout: the event it races is set. It holds with disconnects
\* and reconnections that overlap, too.
THEOREM DropsWakeCreate == Spec => []DropWakesCreate
<1>1. TInv /\ CreatorInv => DropWakesCreate
  <2> SUFFICES ASSUME TInv, CreatorInv, NEW u \in Users,
                      at[u] = "awaiting", connState = "DISCONNECTED"
               PROVE  lost
    BY DEF DropWakesCreate
  <2>1. creator = u /\ u # Nobody
    BY UsersAssumption DEF CreatorInv, OneAwaits, Procs
  <2> QED
    BY <2>1 DEF CreatorInv, CreatorAlone
<1> QED
  BY <1>1, TInvariance, CreatorInvariance, PTL

(***************************************************************************)
(* The write queue                                                         *)
(***************************************************************************)

Items(s) == {s[i] : i \in 1..Len(s)}

\* Requests come in s in the order of their numbers; START_API has none.
Ascending(s) == \A i, j \in 1..Len(s) : i < j /\ s[j].n # 0 => s[i].n < s[j].n

\* No request of T was sent before one of S; none of T is in S.
Before(S, T) == \A m \in S, k \in T : k.n # 0 => m.n < k.n
Apart(S, T) == \A m \in S, k \in T : k.n # 0 => m.n # k.n

LEMMA NoItems == Items(<<>>) = {} /\ Ascending(<<>>)
BY DEF Items, Ascending

LEMMA AppendItems ==
  ASSUME NEW s \in Seq(Message), NEW m \in Message
  PROVE  /\ Items(Append(s, m)) = Items(s) \cup {m}
         /\ Ascending(s) /\ Before(Items(s), {m}) => Ascending(Append(s, m))
<1>1. /\ Len(s) \in Nat /\ Len(Append(s, m)) = Len(s) + 1
      /\ \A i \in 1..Len(s) : Append(s, m)[i] = s[i]
      /\ Append(s, m)[Len(s) + 1] = m
  OBVIOUS
<1>2. 1..(Len(s) + 1) = (1..Len(s)) \cup {Len(s) + 1}
  BY <1>1
<1>3. Items(Append(s, m)) = Items(s) \cup {m}
  BY <1>1, <1>2 DEF Items
<1>4. ASSUME Ascending(s), Before(Items(s), {m})
      PROVE  Ascending(Append(s, m))
  <2> SUFFICES ASSUME NEW i \in 1..(Len(s) + 1), NEW j \in 1..(Len(s) + 1), i < j,
                      Append(s, m)[j].n # 0
               PROVE  Append(s, m)[i].n < Append(s, m)[j].n
    BY <1>1 DEF Ascending
  <2>1. i \in 1..Len(s) /\ Append(s, m)[i] = s[i]
    BY <1>1
  <2>2. CASE j \in 1..Len(s)
    BY <1>1, <1>4, <2>1, <2>2 DEF Ascending
  <2>3. CASE j = Len(s) + 1
    <3>1. s[i] \in Items(s) /\ Append(s, m)[j] = m
      BY <1>1, <2>1, <2>3 DEF Items
    <3> QED
      BY <1>4, <2>1, <3>1 DEF Before
  <2> QED
    BY <1>2, <2>2, <2>3
<1> QED
  BY <1>3, <1>4

LEMMA TailItems ==
  ASSUME NEW s \in Seq(Message), s # <<>>
  PROVE  /\ Items(s) = Items(Tail(s)) \cup {Head(s)}
         /\ Ascending(s) => Ascending(Tail(s)) /\ Before({Head(s)}, Items(Tail(s)))
<1>1. /\ Len(s) \in Nat \ {0} /\ Len(Tail(s)) = Len(s) - 1 /\ Head(s) = s[1]
      /\ \A i \in 1..(Len(s) - 1) : Tail(s)[i] = s[i + 1]
  OBVIOUS
<1>2. \A i \in 1..Len(s) : i = 1 \/ (i - 1 \in 1..(Len(s) - 1) /\ s[i] = Tail(s)[i - 1])
  BY <1>1
<1>3. \A i \in 1..(Len(s) - 1) : i + 1 \in 1..Len(s) /\ i + 1 # 1
  BY <1>1
<1>4. 1 \in 1..Len(s)
  BY <1>1
<1>5. Items(s) = Items(Tail(s)) \cup {Head(s)}
  <2>1. ASSUME NEW m \in Items(s) PROVE m \in Items(Tail(s)) \cup {Head(s)}
    <3>1. PICK i \in 1..Len(s) : m = s[i]
      BY DEF Items
    <3> QED
      BY <1>1, <1>2, <3>1 DEF Items
  <2>2. ASSUME NEW m \in Items(Tail(s)) PROVE m \in Items(s)
    <3>1. PICK i \in 1..(Len(s) - 1) : m = Tail(s)[i]
      BY <1>1 DEF Items
    <3> QED
      BY <1>1, <1>3, <3>1 DEF Items
  <2>3. Head(s) \in Items(s)
    BY <1>1, <1>4 DEF Items
  <2> QED
    BY <2>1, <2>2, <2>3
<1>6. ASSUME Ascending(s)
      PROVE  Ascending(Tail(s)) /\ Before({Head(s)}, Items(Tail(s)))
  <2>1. Ascending(Tail(s))
    <3> SUFFICES ASSUME NEW i \in 1..(Len(s) - 1), NEW j \in 1..(Len(s) - 1), i < j,
                        Tail(s)[j].n # 0
                 PROVE  Tail(s)[i].n < Tail(s)[j].n
      BY <1>1 DEF Ascending
    <3>1. i + 1 \in 1..Len(s) /\ j + 1 \in 1..Len(s) /\ i + 1 < j + 1
      BY <1>1
    <3>2. Tail(s)[i] = s[i + 1] /\ Tail(s)[j] = s[j + 1]
      BY <1>1
    <3> QED
      BY <1>6, <3>1, <3>2 DEF Ascending
  <2>2. ASSUME NEW k \in Items(Tail(s)), k.n # 0
        PROVE  Head(s).n < k.n
    <3>1. PICK i \in 1..(Len(s) - 1) : k = Tail(s)[i]
      BY <1>1 DEF Items
    <3>2. i + 1 \in 1..Len(s) /\ 1 < i + 1 /\ k = s[i + 1]
      BY <1>1, <3>1
    <3> QED
      BY <1>1, <1>4, <1>6, <2>2, <3>2 DEF Ascending
  <2> QED
    BY <2>1, <2>2 DEF Before
<1> QED
  BY <1>5, <1>6

LEMMA ConcatItems ==
  ASSUME NEW s \in Seq(Message), NEW t \in Seq(Message)
  PROVE  /\ Items(s \o t) = Items(s) \cup Items(t)
         /\ Ascending(s) /\ Ascending(t) /\ Before(Items(s), Items(t)) => Ascending(s \o t)
<1>1. /\ Len(s) \in Nat /\ Len(t) \in Nat /\ Len(s \o t) = Len(s) + Len(t)
      /\ \A i \in 1..Len(s) : (s \o t)[i] = s[i]
      /\ \A i \in 1..Len(t) : (s \o t)[Len(s) + i] = t[i]
  OBVIOUS
<1>2. ASSUME NEW m \in Items(s \o t) PROVE m \in Items(s) \cup Items(t)
  <2>1. PICK i \in 1..(Len(s) + Len(t)) : m = (s \o t)[i]
    BY <1>1 DEF Items
  <2>2. CASE i \in 1..Len(s)
    BY <1>1, <2>1, <2>2 DEF Items
  <2>3. CASE i \notin 1..Len(s)
    <3>1. i - Len(s) \in 1..Len(t) /\ i = Len(s) + (i - Len(s))
      BY <1>1, <2>3
    <3>2. m = t[i - Len(s)]
      BY <1>1, <2>1, <3>1
    <3> QED
      BY <3>1, <3>2 DEF Items
  <2> QED
    BY <2>2, <2>3
<1>3. ASSUME NEW m \in Items(s) PROVE m \in Items(s \o t)
  <2>1. PICK i \in 1..Len(s) : m = s[i]
    BY DEF Items
  <2>2. i \in 1..Len(s \o t)
    BY <1>1
  <2> QED
    BY <1>1, <2>1, <2>2 DEF Items
<1>4. ASSUME NEW m \in Items(t) PROVE m \in Items(s \o t)
  <2>1. PICK i \in 1..Len(t) : m = t[i]
    BY DEF Items
  <2>2. Len(s) + i \in 1..Len(s \o t)
    BY <1>1
  <2> QED
    BY <1>1, <2>1, <2>2 DEF Items
<1>5. ASSUME Ascending(s), Ascending(t), Before(Items(s), Items(t))
      PROVE  Ascending(s \o t)
  <2> SUFFICES ASSUME NEW i \in 1..Len(s \o t), NEW j \in 1..Len(s \o t), i < j,
                      (s \o t)[j].n # 0
               PROVE  (s \o t)[i].n < (s \o t)[j].n
    BY DEF Ascending
  <2>1. \A l \in 1..Len(s \o t) :
          \/ l \in 1..Len(s) /\ (s \o t)[l] = s[l] /\ s[l] \in Items(s)
          \/ /\ l - Len(s) \in 1..Len(t) /\ (s \o t)[l] = t[l - Len(s)]
             /\ t[l - Len(s)] \in Items(t)
    <3> SUFFICES ASSUME NEW l \in 1..Len(s \o t), l \notin 1..Len(s)
                 PROVE  /\ l - Len(s) \in 1..Len(t) /\ (s \o t)[l] = t[l - Len(s)]
                        /\ t[l - Len(s)] \in Items(t)
      BY <1>1 DEF Items
    <3>1. l - Len(s) \in 1..Len(t) /\ l = Len(s) + (l - Len(s))
      BY <1>1
    <3>2. (s \o t)[l] = t[l - Len(s)]
      BY <1>1, <3>1
    <3> QED
      BY <3>1, <3>2 DEF Items
  <2>2. CASE i \in 1..Len(s) /\ j \in 1..Len(s)
    BY <1>1, <1>5, <2>2 DEF Ascending
  <2>3. CASE i \notin 1..Len(s) /\ j \notin 1..Len(s)
    <3>1. i - Len(s) < j - Len(s)
      BY <1>1
    <3> QED
      BY <1>5, <2>1, <2>3, <3>1 DEF Ascending
  <2>4. CASE i \in 1..Len(s) /\ j \notin 1..Len(s)
    BY <1>5, <2>1, <2>4 DEF Before
  <2>5. j \in 1..Len(s) => i \in 1..Len(s)
    BY <1>1
  <2> QED
    BY <2>2, <2>3, <2>4, <2>5
<1> QED
  BY <1>2, <1>3, <1>4, <1>5

LEMMA ItemTypes ==
  ASSUME TInv
  PROVE  /\ queue \in Seq(Message) /\ Items(queue) \subseteq Message
         /\ \A g \in Conns : written[g] \in Seq(Message) /\ Items(written[g]) \subseteq Message
         /\ \A m \in Message : m.to \in Conns /\ m.n \in Nat
         /\ made \in Nat /\ sends \in Nat /\ ran \subseteq Conns
         /\ queue # <<>> => Head(queue) \in Message /\ Tail(queue) \in Seq(Message)
<1>1. RestOK
  BY TInvParts
<1>2. \A s \in Seq(Message) : Items(s) \subseteq Message
  BY DEF Items
<1>3. \A m \in Message : m.to \in Conns /\ m.n \in Nat
  BY BoundsAssumption DEF Message
<1>4. queue \in Seq(Message) /\ \A g \in Conns : written[g] \in Seq(Message)
  BY <1>1 DEF RestOK
<1>5. made \in Nat /\ sends \in Nat /\ ran \subseteq Conns
  BY <1>1, BoundsAssumption DEF RestOK
<1>6. queue # <<>> => Head(queue) \in Message /\ Tail(queue) \in Seq(Message)
  BY <1>4
<1> QED
  BY <1>2, <1>3, <1>4, <1>5, <1>6

(***************************************************************************)
(* The order of the requests, whoever enqueues and however many loops take *)
(* from the queue                                                          *)
(***************************************************************************)

\* Requests are numbered as they are sent. What the loops took from the queue
\* was sent before what is left in it, and no two took the same.
OrderInv ==
  /\ Ascending(queue) /\ \A m \in Items(queue) : m.n <= sends
  /\ \A g \in Conns : /\ Ascending(written[g]) /\ \A m \in Items(written[g]) : m.n <= sends
                      /\ Before(Items(written[g]), Items(queue))
  /\ \A g, h \in Conns : g # h => Apart(Items(written[g]), Items(written[h]))

LEMMA OrderQuiet ==
  ASSUME OrderInv, UNCHANGED <<written, sends>>, queue' = queue \/ queue' = <<>>
  PROVE  OrderInv'
BY NoItems DEF OrderInv, Before

LEMMA OrderEnqueues ==
  ASSUME TInv, OrderInv, NEW m \in Message, queue' = Append(queue, m), written' = written,
         (m.n = 0 /\ sends' = sends) \/ (m.n = sends + 1 /\ sends' = sends + 1)
  PROVE  OrderInv'
<1>1. /\ queue \in Seq(Message) /\ sends \in Nat /\ m.n \in Nat
      /\ \A k \in Items(queue) : k.n \in Nat /\ k.n <= sends
      /\ \A g \in Conns : \A k \in Items(written[g]) : k.n \in Nat /\ k.n <= sends
  BY ItemTypes DEF OrderInv
<1>2. Before(Items(queue), {m}) /\ \A g \in Conns : Before(Items(written[g]), {m})
  BY <1>1 DEF Before
<1>3. Items(queue') = Items(queue) \cup {m} /\ Ascending(queue')
  BY <1>1, <1>2, AppendItems DEF OrderInv
<1>4. /\ \A k \in Items(queue') : k.n <= sends'
      /\ \A g \in Conns : \A k \in Items(written[g]) : k.n <= sends'
  BY <1>1, <1>3
<1>5. \A g \in Conns : Before(Items(written[g]), Items(queue'))
  BY <1>2, <1>3 DEF OrderInv, Before
<1> QED
  BY <1>3, <1>4, <1>5 DEF OrderInv

\* The head of the queue is taken, and handed to the transport of g or lost.
LEMMA OrderTakes ==
  ASSUME TInv, OrderInv, queue # <<>>, queue' = Tail(queue), sends' = sends,
         written' = written \/ \E g \in Conns : written' = [written EXCEPT ![g] = Append(@, Head(queue))]
  PROVE  OrderInv'
<1> DEFINE m == Head(queue)
<1>1. /\ m \in Message /\ Items(queue) = Items(queue') \cup {m}
      /\ Ascending(queue') /\ Before({m}, Items(queue'))
  BY ItemTypes, TailItems DEF OrderInv
<1>2. m.n \in Nat /\ m.n <= sends
  BY <1>1, ItemTypes DEF OrderInv
<1> HIDE DEF m
<1>3. \A h \in Conns : /\ Before(Items(written[h]), Items(queue'))
                       /\ Before(Items(written[h]), {m})
  BY <1>1 DEF OrderInv, Before
<1>4. CASE written' = written
  BY <1>1, <1>3, <1>4 DEF OrderInv
<1>5. ASSUME NEW g \in Conns, written' = [written EXCEPT ![g] = Append(@, Head(queue))]
      PROVE  OrderInv'
  <2>1. \A h \in Conns : written'[h] = IF h = g THEN Append(written[g], m) ELSE written[h]
    BY <1>5, TInvParts DEF RestOK, m
  <2>2. Items(written'[g]) = Items(written[g]) \cup {m} /\ Ascending(written'[g])
    BY <1>1, <1>3, <2>1, ItemTypes, AppendItems DEF OrderInv
  <2>3. \A h \in Conns : /\ Ascending(written'[h]) /\ Before(Items(written'[h]), Items(queue'))
                         /\ \A k \in Items(written'[h]) : k.n <= sends
    <3>1. Before(Items(written'[g]), Items(queue'))
      BY <1>1, <1>3, <2>2 DEF Before
    <3> QED
      BY <1>2, <1>3, <2>1, <2>2, <3>1 DEF OrderInv
  <2>4. ASSUME NEW h \in Conns, h # g
        PROVE  /\ Apart(Items(written[h]), Items(written'[g]))
               /\ Apart(Items(written'[g]), Items(written[h]))
    <3>1. \A k \in Items(written[h]) : k.n \in Nat /\ (m.n # 0 => k.n < m.n)
      BY <1>3, ItemTypes DEF Before
    <3>2. \A k \in Items(written[h]) : k.n # 0 => k.n # m.n
      BY <1>2, <3>1
    <3>3. Apart(Items(written[h]), Items(written[g])) /\ Apart(Items(written[g]), Items(written[h]))
      BY <2>4 DEF OrderInv
    <3> QED
      BY <2>2, <3>2, <3>3 DEF Apart
  <2>5. \A h, i \in Conns : h # i => Apart(Items(written'[h]), Items(written'[i]))
    BY <2>1, <2>4 DEF OrderInv
  <2> QED
    BY <1>1, <2>3, <2>5 DEF OrderInv
<1> QED
  BY <1>4, <1>5

\* All of the queue is handed to the transport of g.
LEMMA OrderFlushes ==
  ASSUME TInv, OrderInv, NEW g \in Conns, queue' = <<>>, sends' = sends,
         written' = [written EXCEPT ![g] = @ \o queue]
  PROVE  OrderInv'
<1>1. \A h \in Conns : written'[h] = IF h = g THEN written[g] \o queue ELSE written[h]
  BY TInvParts DEF RestOK
<1>2. Items(written'[g]) = Items(written[g]) \cup Items(queue) /\ Ascending(written'[g])
  BY <1>1, ItemTypes, ConcatItems DEF OrderInv
<1>3. Items(queue') = {} /\ Ascending(queue')
  BY NoItems
<1>4. \A h \in Conns : /\ Ascending(written'[h]) /\ Before(Items(written'[h]), Items(queue'))
                       /\ \A k \in Items(written'[h]) : k.n <= sends
  BY <1>1, <1>2, <1>3 DEF OrderInv, Before
<1>5. ASSUME NEW h \in Conns, h # g
      PROVE  /\ Apart(Items(written[h]), Items(written'[g]))
             /\ Apart(Items(written'[g]), Items(written[h]))
  <2>1. \A k \in Items(written[h]), m \in Items(queue) :
          k.n \in Nat /\ m.n \in Nat /\ (m.n # 0 => k.n < m.n)
    BY ItemTypes DEF OrderInv, Before
  <2>2. \A k \in Items(written[h]), m \in Items(queue) : k.n = m.n => k.n = 0
    BY <2>1
  <2>3. Apart(Items(written[h]), Items(written[g])) /\ Apart(Items(written[g]), Items(written[h]))
    BY <1>5 DEF OrderInv
  <2> QED
    BY <1>2, <2>2, <2>3 DEF Apart
<1>6. \A h, i \in Conns : h # i => Apart(Items(written'[h]), Items(written'[i]))
  BY <1>1, <1>5 DEF OrderInv
<1> QED
  BY <1>3, <1>4, <1>6 DEF OrderInv

LEMMA StepOrder ==
  ASSUME TInv, OrderInv, [Next]_vars
  PROVE  OrderInv'
<1>0. conn \in 0..MaxConns
  BY TInvParts DEF HeldOK
<1>1. CASE UNCHANGED <<queue, written, sends>>
  BY <1>1, OrderQuiet
<1>2. ASSUME NEW p \in Procs, DisconnectStep(p)
      PROVE  OrderInv'
  <2>1. UNCHANGED <<written, sends>> /\ (queue' = queue \/ queue' = <<>>)
    BY <1>2 DEF DisconnectStep, WriteTaskEnded, ReadTaskEnded, Closed, Abort, out
  <2> QED
    BY <2>1, OrderQuiet
<1>3. ASSUME NEW u \in Users, Send(u)
      PROVE  OrderInv'
  <2>1. /\ conn \in Conns /\ sends < MaxSends /\ sends' = sends + 1 /\ written' = written
        /\ queue' = Append(queue, [to |-> conn, n |-> sends + 1])
    BY <1>0, <1>3 DEF Send, IsConnected, StreamIsConnected, None, Conns
  <2>2. sends + 1 \in 0..MaxSends
    BY <2>1, ItemTypes, BoundsAssumption
  <2> DEFINE m == [to |-> conn, n |-> sends + 1]
  <2>3. m \in Message /\ m.n = sends + 1
    BY <2>1, <2>2 DEF Message
  <2> HIDE DEF m
  <2> QED
    BY <2>1, <2>3, OrderEnqueues DEF m
<1>4. ASSUME NEW u \in Users, HandshakeDone(u)
      PROVE  OrderInv'
  <2>1. UNCHANGED <<written, sends>>
    BY <1>4 DEF HandshakeDone
  <2>2. CASE ~StreamIsConnected
    BY <1>4, <2>1, <2>2, OrderQuiet DEF HandshakeDone
  <2>3. CASE StreamIsConnected
    <3>1. conn \in Conns
      BY <1>0, <2>3 DEF StreamIsConnected, None, Conns
    <3>2. StartApi(conn) \in Message /\ StartApi(conn).n = 0
      BY <3>1, BoundsAssumption DEF StartApi, Message
    <3>3. queue' = Append(queue, StartApi(conn))
      BY <1>4, <2>3 DEF HandshakeDone
    <3> QED
      BY <2>1, <3>2, <3>3, OrderEnqueues
  <2> QED
    BY <2>2, <2>3
<1>5. ASSUME NEW u \in Users, CallStep(u) \/ Connect(u) \/ Create(u) \/ Disconnect(u)
      PROVE  OrderInv'
  <2>1. HandshakeDone(u) \/ UNCHANGED <<queue, written, sends>>
    BY <1>5 DEF CallStep, OpenFails, Opened, HandshakeEof, HandshakeRaises, GotId,
                DroppedBeforeId, CreateTimeout, NoId, Connect, Create, OpenConnection,
                Disconnect, out
  <2> QED
    BY <1>1, <1>4, <2>1
<1>6. ASSUME NEW g \in Conns, WriteStep(g)
      PROVE  OrderInv'
  <2>1. CASE WriteMessage(g)
    BY <2>1, OrderTakes DEF WriteMessage
  <2>2. CASE WriteFails(g)
    <3>1. UNCHANGED <<written, sends>>
      BY <2>2 DEF WriteFails
    <3>2. CASE queue # <<>> /\ queue' = Tail(queue)
      BY <3>1, <3>2, OrderTakes
    <3>3. CASE queue' = queue
      BY <1>1, <3>1, <3>3
    <3> QED
      BY <2>2, <3>2, <3>3 DEF WriteFails
  <2>3. CASE Flush(g)
    <3>1. CASE stream[g] = "open"
      BY <2>3, <3>1, OrderFlushes DEF Flush
    <3>2. CASE stream[g] # "open"
      BY <2>3, <3>2, OrderQuiet DEF Flush
    <3> QED
      BY <3>1, <3>2
  <2>4. CASE StartWriting(g) \/ Flushed(g) \/ EndCancelled(W(g)) \/ LeaveLoop(g)
    BY <1>1, <2>4 DEF StartWriting, Flushed, EndCancelled, LeaveLoop, out
  <2> QED
    BY <1>6, <2>1, <2>2, <2>3, <2>4 DEF WriteStep
<1>7. ASSUME NEW g \in Conns, \/ ReadStep(g) \/ Wake(g)
                              \/ ServerCloses(g) \/ StreamBreaks(g) \/ StreamCloses(g)
      PROVE  UNCHANGED <<queue, written, sends>>
  BY <1>7 DEF ReadStep, StartReading, Dispatch, ReadFails, EndCancelled, Wake, ServerCloses,
              StreamBreaks, StreamCloses, out
<1>8. CASE UNCHANGED vars
  BY <1>1, <1>8 DEF vars, out
<1> QED
  BY <1>1, <1>2, <1>3, <1>5, <1>6, <1>7, <1>8 DEF Next

LEMMA OrderInvariance == Spec => [](TInv /\ OrderInv)
<1>1. Init => OrderInv
  <2> SUFFICES ASSUME Init PROVE OrderInv
    OBVIOUS
  <2>1. queue = <<>> /\ \A g \in Conns : written[g] = <<>>
    BY DEF Init
  <2> QED
    BY <2>1, NoItems DEF OrderInv, Before, Apart
<1>2. TInv /\ OrderInv /\ [Next]_vars => OrderInv'
  BY StepOrder
<1> QED
  BY <1>1, <1>2, TInvariance, PTL DEF Spec

\* A request is in one place: at one point of the queue, or of what one
\* connection was handed.
LEMMA NumberedOnce ==
  ASSUME TInv, OrderInv
  PROVE  /\ \A i, j \in 1..Len(queue) : queue[i].n = queue[j].n /\ queue[i].n # 0 => i = j
         /\ \A g, h \in Conns : \A m \in Items(written[g]), k \in Items(written[h]) :
              m.n = k.n /\ k.n # 0 => g = h
         /\ \A g \in Conns : \A i, j \in 1..Len(written[g]) :
              written[g][i].n = written[g][j].n /\ written[g][i].n # 0 => i = j
         /\ \A g \in Conns : \A m \in Items(written[g]), k \in Items(queue) : m.n = k.n => k.n = 0
<1>1. ASSUME NEW s \in Seq(Message), Ascending(s),
             NEW i \in 1..Len(s), NEW j \in 1..Len(s), s[i].n = s[j].n, s[i].n # 0
      PROVE  i = j
  <2>1. s[i].n \in Nat /\ s[j].n \in Nat
    BY ItemTypes
  <2>2. ~(i < j) /\ ~(j < i)
    BY <1>1, <2>1 DEF Ascending
  <2> QED
    BY <2>2
<1>2. queue \in Seq(Message) /\ \A g \in Conns : written[g] \in Seq(Message)
  BY ItemTypes
<1>3. \A g \in Conns : \A m \in Items(written[g]), k \in Items(queue) : m.n = k.n => k.n = 0
  BY ItemTypes DEF OrderInv, Before
<1> QED
  BY <1>1, <1>2, <1>3 DEF OrderInv, Apart

=============================================================================
