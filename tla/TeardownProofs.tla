--------------------------- MODULE TeardownProofs ---------------------------
(***************************************************************************)
(* Proofs about Lifecycle where connect() and disconnect() do not overlap: *)
(* who may be taking a connection down, in what state it is then, and what *)
(* becomes of the loops, the sockets, the write queue and START_API.  That *)
(* requests stay in order holds of all calls, overlapping ones included.   *)
(***************************************************************************)
EXTENDS LifecycleProofs, FiniteSetTheorems, SequenceTheorems

(***************************************************************************)
(* The state of a connection at each point of its life                     *)
(***************************************************************************)

Over == {"none", "done", "flushing"}
InUse == {"open", "broken"}
Gone == {"none", "closed"}
Busy == Connecting \cup Disconnecting

\* Earlier connections are gone, with their loops; later ones are not made yet.
OnlyLast ==
  /\ conn \in {None, made}
  /\ \A g \in Conns : g # made => stream[g] \in Gone /\ at[W(g)] \in Over /\ at[R(g)] \in Over
  /\ \A g \in Conns : g > made => stream[g] = "none"

OneAtATime == \A p, q \in Procs : at[p] \in Busy /\ at[q] \in Busy => p = q

OpeningInv ==
  \A u \in Users : at[u] = "opening" =>
    /\ connState = "DISCONNECTED" /\ conn = made /\ made # None
    /\ stream[made] = "none" /\ at[W(made)] = "none"

HandshakeInv == \A u \in Users : at[u] = "handshake" => connState = "CONNECTING"

\* At rest.
DisconnectedInv ==
  connState = "DISCONNECTED" /\ NobodyIn(Disconnecting) =>
    /\ write_task = None /\ read_task = None /\ cancelled = {}
    /\ \A g \in Conns : stream[g] \in Gone /\ at[W(g)] \in Over /\ at[R(g)] \in Over

\* During the handshake, and after one that raised.
ConnectingInv ==
  connState = "CONNECTING" =>
    /\ write_task = None /\ read_task = None /\ cancelled = {}
    /\ conn = made /\ made # None /\ stream[made] \in InUse
    /\ \A g \in Conns : at[W(g)] \in Over /\ at[R(g)] \in Over
    /\ at[W(made)] = "none"

ConnectedInv ==
  connState = "CONNECTED" =>
    /\ write_task = made /\ read_task = made /\ cancelled = {}
    /\ conn = made /\ made # None /\ stream[made] \in InUse
    /\ at[W(made)] \in {"created", "running", "done"}

\* The three awaits of disconnect().
AwaitsWrite(p) ==
  /\ write_task = made /\ read_task = made
  /\ held[p].w = made /\ held[p].r = made
  /\ stream[made] \in InUse
  /\ cancelled \subseteq {W(made)}
  /\ W(made) \in cancelled <=> at[W(made)] \in {"created", "running"}

AwaitsRead(p) ==
  /\ held[p].r = made
  /\ stream[made] \in InUse
  /\ at[W(made)] \in Over \/ p = W(made)
  /\ cancelled \subseteq {R(made)}
  /\ R(made) \in cancelled => at[R(made)] \in {"none", "created", "running", "woken"}
  /\ at[R(made)] \in {"created", "running", "woken"} => R(made) \in cancelled

AwaitsClose(p) ==
  /\ write_task = None /\ read_task = None /\ cancelled = {}
  /\ held[p].c = made
  /\ stream[made] \in {"closing", "closed"}
  /\ at[W(made)] \in Over \/ p = W(made)
  /\ at[R(made)] \in Over \/ p = R(made)

DisconnectingInv ==
  \A p \in Procs : at[p] \in Disconnecting =>
    /\ connState = "DISCONNECTED" /\ conn = made /\ made # None
    /\ p \in Users \/ p = W(made) \/ p = R(made)
    /\ at[p] = "d_write" => AwaitsWrite(p)
    /\ at[p] = "d_read" => AwaitsRead(p)
    /\ at[p] = "d_close" => AwaitsClose(p)

PhaseInv ==
  /\ OnlyLast /\ OneAtATime /\ OpeningInv /\ HandshakeInv
  /\ DisconnectedInv /\ ConnectingInv /\ ConnectedInv /\ DisconnectingInv

phase == <<connState, conn, made, stream, write_task, read_task, cancelled, held>>

LEMMA PhaseSame ==
  ASSUME PhaseInv, UNCHANGED <<phase, at>>
  PROVE  PhaseInv'
<1> USE DEF PhaseInv, phase
<1>1. OnlyLast' /\ OneAtATime' /\ OpeningInv' /\ HandshakeInv'
  BY DEF OnlyLast, OneAtATime, OpeningInv, HandshakeInv
<1>2. DisconnectedInv' /\ ConnectingInv' /\ ConnectedInv'
  BY DEF DisconnectedInv, ConnectingInv, ConnectedInv, NobodyIn
<1>3. DisconnectingInv'
  BY DEF DisconnectingInv, AwaitsWrite, AwaitsRead, AwaitsClose
<1> QED
  BY <1>1, <1>2, <1>3

LEMMA BusyFacts ==
  /\ Connecting = {"opening", "handshake"} /\ Disconnecting = {"d_write", "d_read", "d_close"}
  /\ \A x \in Connecting \cup Disconnecting : x \notin Over
  /\ Connecting \cap Disconnecting = {}
BY DEF Connecting, Disconnecting, Over

\* A user leaves a call, or goes on to an await that concerns no connection.
LEMMA UserRests ==
  ASSUME TInv, PhaseInv, NEW u \in Users, NEW x \in {"idle", "awaiting", "failed", "escaped"},
         at[u] \notin Disconnecting, at' = [at EXCEPT ![u] = x], UNCHANGED phase
  PROVE  PhaseInv'
<1> USE DEF phase
<1>0. /\ u \in Procs
      /\ \A g \in Conns : W(g) \in Procs /\ R(g) \in Procs /\ W(g) # u /\ R(g) # u
  BY LoopFacts DEF Procs
<1>1. \A q \in Procs : at'[q] = IF q = u THEN x ELSE at[q]
  BY <1>0, TInvParts DEF AtOK
<1>2. \A g \in Conns : at'[W(g)] = at[W(g)] /\ at'[R(g)] = at[R(g)]
  BY <1>0, <1>1
<1>3. \A q \in Procs : at'[q] \in Busy => at'[q] = at[q]
  BY <1>1 DEF Busy, Connecting, Disconnecting
<1>4. NobodyIn(Disconnecting)' => NobodyIn(Disconnecting)
  BY <1>1 DEF NobodyIn
<1>5. made \in 0..MaxConns /\ (made # None => made \in Conns)
  BY TInvParts DEF RestOK, None, Conns
<1>6. OnlyLast'
  BY <1>2 DEF PhaseInv, OnlyLast
<1>7. OneAtATime'
  BY <1>3 DEF PhaseInv, OneAtATime
<1>8. OpeningInv' /\ HandshakeInv'
  <2>1. \A v \in Users : at'[v] \in Connecting => at'[v] = at[v]
    BY <1>3 DEF Busy, Procs
  <2>2. made # None => at'[W(made)] = at[W(made)]
    BY <1>2, <1>5
  <2> QED
    BY <2>1, <2>2 DEF PhaseInv, OpeningInv, HandshakeInv, Connecting
<1>9. DisconnectedInv'
  BY <1>2, <1>4 DEF PhaseInv, DisconnectedInv
<1>10. ConnectingInv' /\ ConnectedInv'
  BY <1>2, <1>5 DEF PhaseInv, ConnectingInv, ConnectedInv
<1>11. DisconnectingInv'
  <2> SUFFICES ASSUME NEW p \in Procs, at'[p] \in Disconnecting
               PROVE  /\ connState = "DISCONNECTED" /\ conn = made /\ made # None
                      /\ p \in Users \/ p = W(made) \/ p = R(made)
                      /\ at'[p] = "d_write" => AwaitsWrite(p)'
                      /\ at'[p] = "d_read" => AwaitsRead(p)'
                      /\ at'[p] = "d_close" => AwaitsClose(p)'
    BY DEF DisconnectingInv
  <2>1. at'[p] = at[p]
    BY <1>3 DEF Busy
  <2>2. made \in Conns
    BY <1>5, <2>1 DEF PhaseInv, DisconnectingInv
  <2> QED
    BY <1>2, <2>1, <2>2 DEF PhaseInv, DisconnectingInv, AwaitsWrite, AwaitsRead, AwaitsClose
<1> QED
  BY <1>6, <1>7, <1>8, <1>9, <1>10, <1>11 DEF PhaseInv

\* A loop starts, works, or ends without a disconnect().  Once cancelled it
\* does nothing but flush and end.
LEMMA LoopMoves ==
  ASSUME TInv, PhaseInv, NEW g \in Conns, NEW t \in {W(g), R(g)},
         NEW x \in {"running", "woken", "flushing", "done"},
         at[t] \in {"created", "running", "woken", "flushing"},
         at' = [at EXCEPT ![t] = x],
         x \in {"running", "woken"} =>
           t \notin cancelled /\ at[t] # "flushing" /\ cancelled' = cancelled,
         x \in {"done", "flushing"} => cancelled' = cancelled \ {t},
         x = "flushing" => t \in cancelled,
         at[t] = "flushing" => x = "done",
         t = W(g) => x # "woken", t = R(g) => x # "flushing" /\ at[t] # "flushing",
         UNCHANGED <<connState, conn, made, stream, write_task, read_task, held>>
  PROVE  PhaseInv'
<1>0. /\ t \in Procs /\ t \notin Users
      /\ \A h \in Conns : W(h) \in Procs /\ R(h) \in Procs /\ W(h) # R(h)
      /\ \A h, i \in Conns : W(h) # R(i) /\ (W(h) = W(i) => h = i) /\ (R(h) = R(i) => h = i)
  BY LoopFacts
<1>1. \A q \in Procs : at'[q] = IF q = t THEN x ELSE at[q]
  BY <1>0, TInvParts DEF AtOK
<1>2. \A u \in Users : at'[u] = at[u]
  BY <1>0, <1>1 DEF Procs
<1>3. at'[t] = x /\ x \notin Busy /\ at[t] \notin Busy
  BY <1>0, <1>1 DEF Busy, Connecting, Disconnecting
<1>4. \A q \in Procs : at'[q] \in Busy => at'[q] = at[q] /\ q # t
  BY <1>1, <1>3
<1>5. NobodyIn(Disconnecting)' <=> NobodyIn(Disconnecting)
  BY <1>1, <1>3 DEF NobodyIn, Busy
<1>6. made \in 0..MaxConns /\ (made # None => made \in Conns)
  BY TInvParts DEF RestOK, None, Conns
<1>7. at[t] \in Over => x = "done"
  BY DEF Over
<1>8. \A h \in Conns : /\ at[W(h)] \in Over => at'[W(h)] \in Over
                       /\ at[R(h)] \in Over => at'[R(h)] \in Over
                       /\ at[W(h)] = "none" => at'[W(h)] = "none"
  BY <1>0, <1>1, <1>7 DEF Over
<1>9. OnlyLast'
  BY <1>8 DEF PhaseInv, OnlyLast
<1>10. OneAtATime'
  BY <1>4 DEF PhaseInv, OneAtATime
<1>11. OpeningInv' /\ HandshakeInv'
  BY <1>2, <1>6, <1>8 DEF PhaseInv, OpeningInv, HandshakeInv
<1>12. DisconnectedInv'
  <2> SUFFICES ASSUME connState = "DISCONNECTED", NobodyIn(Disconnecting)
               PROVE  DisconnectedInv'
    BY <1>5 DEF DisconnectedInv
  <2>1. cancelled = {} /\ write_task = None /\ read_task = None
    BY DEF PhaseInv, DisconnectedInv
  <2>2. cancelled' = {}
    BY <2>1
  <2> QED
    BY <1>8, <2>1, <2>2 DEF PhaseInv, DisconnectedInv
<1>13. ConnectingInv'
  <2> SUFFICES ASSUME connState = "CONNECTING"
               PROVE  ConnectingInv'
    BY DEF ConnectingInv
  <2>1. cancelled' = {}
    BY DEF PhaseInv, ConnectingInv
  <2> QED
    BY <1>6, <1>8, <2>1 DEF PhaseInv, ConnectingInv
<1>14. ConnectedInv'
  <2> SUFFICES ASSUME connState = "CONNECTED"
               PROVE  ConnectedInv'
    BY DEF ConnectedInv
  <2>1. cancelled = {} /\ cancelled' = {}
    BY DEF PhaseInv, ConnectedInv
  <2>2. at'[W(made)] \in {"created", "running", "done"}
    BY <1>0, <1>1, <1>6, <2>1 DEF PhaseInv, ConnectedInv
  <2> QED
    BY <2>1, <2>2 DEF PhaseInv, ConnectedInv
<1>15. DisconnectingInv'
  <2> SUFFICES ASSUME NEW p \in Procs, at'[p] \in Disconnecting
               PROVE  /\ connState = "DISCONNECTED" /\ conn = made /\ made # None
                      /\ p \in Users \/ p = W(made) \/ p = R(made)
                      /\ at'[p] = "d_write" => AwaitsWrite(p)'
                      /\ at'[p] = "d_read" => AwaitsRead(p)'
                      /\ at'[p] = "d_close" => AwaitsClose(p)'
    BY DEF DisconnectingInv
  <2>1. at'[p] = at[p] /\ p # t
    BY <1>4 DEF Busy
  <2>2. made \in Conns
    BY <1>6, <2>1 DEF PhaseInv, DisconnectingInv
  <2>3. /\ at'[W(made)] = IF W(made) = t THEN x ELSE at[W(made)]
        /\ at'[R(made)] = IF R(made) = t THEN x ELSE at[R(made)]
        /\ W(made) # R(made)
    BY <1>0, <1>1, <2>2
  <2>4. at[p] = "d_write" => AwaitsWrite(p)'
    <3> SUFFICES ASSUME at[p] = "d_write" PROVE AwaitsWrite(p)'
      OBVIOUS
    <3>1. AwaitsWrite(p)
      BY <2>1 DEF PhaseInv, DisconnectingInv
    <3>2. cancelled' \subseteq {W(made)}
      BY <3>1 DEF AwaitsWrite
    <3>3. W(made) \in cancelled' <=> at'[W(made)] \in {"created", "running"}
      <4>1. CASE t # W(made)
        BY <2>3, <3>1, <4>1 DEF AwaitsWrite
      <4>2. CASE t = W(made)
        <5>1. x # "woken" /\ at[t] # "woken"
          BY <1>0, <2>2, <4>2, TInvParts, PlaceFacts DEF AtOK, Disconnecting
        <5> QED
          BY <2>3, <3>1, <4>2, <5>1 DEF AwaitsWrite
      <4> QED
        BY <4>1, <4>2
    <3> QED
      BY <3>1, <3>2, <3>3 DEF AwaitsWrite
  <2>5. at[p] = "d_read" => AwaitsRead(p)'
    <3> SUFFICES ASSUME at[p] = "d_read" PROVE AwaitsRead(p)'
      OBVIOUS
    <3>1. AwaitsRead(p)
      BY <2>1 DEF PhaseInv, DisconnectingInv
    <3>2. cancelled' \subseteq {R(made)}
      BY <3>1 DEF AwaitsRead
    <3>3. at'[W(made)] \in Over \/ p = W(made)
      BY <1>8, <2>2, <3>1 DEF AwaitsRead
    <3>4. /\ R(made) \in cancelled' => at'[R(made)] \in {"none", "created", "running", "woken"}
          /\ at'[R(made)] \in {"created", "running", "woken"} => R(made) \in cancelled'
      BY <2>3, <3>1 DEF AwaitsRead
    <3> QED
      BY <3>1, <3>2, <3>3, <3>4 DEF AwaitsRead
  <2>6. at[p] = "d_close" => AwaitsClose(p)'
    <3> SUFFICES ASSUME at[p] = "d_close" PROVE AwaitsClose(p)'
      OBVIOUS
    <3>1. AwaitsClose(p)
      BY <2>1 DEF PhaseInv, DisconnectingInv
    <3>2. cancelled' = {}
      BY <3>1 DEF AwaitsClose
    <3> QED
      BY <1>8, <2>2, <3>1, <3>2 DEF AwaitsClose
  <2> QED
    BY <2>1, <2>4, <2>5, <2>6 DEF PhaseInv, DisconnectingInv
<1> QED
  BY <1>9, <1>10, <1>11, <1>12, <1>13, <1>14, <1>15 DEF PhaseInv

(***************************************************************************)
(* disconnect()                                                            *)
(***************************************************************************)

\* Only p is at work on the connection.
Working(p) ==
  /\ conn = made /\ made # None /\ cancelled = {}
  /\ p \in Users \/ p = W(made) \/ p = R(made)
  /\ \A q \in Procs \ {p} : at[q] \notin Busy

\* The stream is there, and the write loop is over or is p.
Ready(p) ==
  /\ Working(p)
  /\ stream[made] \in InUse
  /\ at[W(made)] \in Over \/ p = W(made)

\* What makes PhaseInv when everything is taken down or being taken down by p.
LEMMA Disconnects ==
  ASSUME PhaseInv, NEW p \in Procs, made \in Conns, Working(p),
         made' = made, connState' = "DISCONNECTED",
         \A q \in Procs \ {p} : at'[q] = at[q],
         conn' \in {None, made},
         \A g \in Conns \ {made} : stream'[g] = stream[g],
         at'[p] \notin Connecting,
         at'[p] \in Disconnecting => conn' = made,
         at'[p] = "d_write" => AwaitsWrite(p)',
         at'[p] = "d_read" => AwaitsRead(p)',
         at'[p] = "d_close" => AwaitsClose(p)',
         at'[p] \notin Disconnecting =>
           /\ write_task' = None /\ read_task' = None /\ cancelled' = {}
           /\ stream'[made] \in Gone
           /\ at'[W(made)] \in Over /\ at'[R(made)] \in Over
  PROVE  PhaseInv'
<1>0. \A g \in Conns : /\ W(g) \in Procs /\ R(g) \in Procs
                       /\ W(g) = W(made) => g = made
                       /\ R(g) = R(made) => g = made
                       /\ W(g) # R(made) /\ R(g) # W(made)
                       /\ W(g) \notin Users /\ R(g) \notin Users
  BY LoopFacts
<1>1. \A g \in Conns \ {made} : at'[W(g)] = at[W(g)] /\ at'[R(g)] = at[R(g)]
  BY <1>0 DEF Working
<1>2. \A q \in Procs \ {p} : at'[q] \notin Busy
  BY DEF Working
<1>3. Users \subseteq Procs
  BY DEF Procs
<1>4. OnlyLast'
  <2>1. \A g \in Conns : g # made => stream'[g] \in Gone /\ at'[W(g)] \in Over /\ at'[R(g)] \in Over
    BY <1>1 DEF PhaseInv, OnlyLast
  <2>2. \A g \in Conns : g > made => stream'[g] = "none"
    BY DEF PhaseInv, OnlyLast, Conns
  <2> QED
    BY <2>1, <2>2 DEF OnlyLast
<1>5. OneAtATime'
  BY <1>2 DEF OneAtATime
<1>6. OpeningInv' /\ HandshakeInv'
  BY <1>2, <1>3 DEF OpeningInv, HandshakeInv, Busy, Connecting
<1>7. ConnectingInv' /\ ConnectedInv'
  BY DEF ConnectingInv, ConnectedInv
<1>8. DisconnectedInv'
  <2> SUFFICES ASSUME NobodyIn(Disconnecting)'
               PROVE  DisconnectedInv'
    BY DEF DisconnectedInv
  <2>1. at'[p] \notin Disconnecting
    BY DEF NobodyIn
  <2> QED
    BY <1>1, <2>1 DEF PhaseInv, OnlyLast, DisconnectedInv
<1>9. DisconnectingInv'
  <2> SUFFICES ASSUME NEW q \in Procs, at'[q] \in Disconnecting
               PROVE  /\ connState' = "DISCONNECTED" /\ conn' = made /\ made # None
                      /\ q \in Users \/ q = W(made) \/ q = R(made)
                      /\ at'[q] = "d_write" => AwaitsWrite(q)'
                      /\ at'[q] = "d_read" => AwaitsRead(q)'
                      /\ at'[q] = "d_close" => AwaitsClose(q)'
    BY DEF DisconnectingInv
  <2>1. q = p
    BY <1>2 DEF Busy
  <2> QED
    BY <2>1 DEF Working
<1> QED
  BY <1>4, <1>5, <1>6, <1>7, <1>8, <1>9 DEF PhaseInv

LEMMA CloseKeeps ==
  ASSUME TInv, PhaseInv, NEW p \in Procs, Ready(p), at[R(made)] \in Over \/ p = R(made),
         Close(p), cancelled' = {}, made' = made, connState' = "DISCONNECTED",
         then'[p] \in ReturnsOf(p)
  PROVE  PhaseInv'
<1>0. AtOK /\ HeldOK /\ RestOK
  BY TInvParts
<1>w. Working(p)
  BY DEF Ready
<1>1. made \in Conns
  BY <1>0 DEF Ready, Working, RestOK, None, Conns
<1>2. /\ W(made) \in Procs /\ R(made) \in Procs /\ W(made) # R(made)
      /\ W(made) \notin Users /\ R(made) \notin Users
  BY <1>1, LoopFacts
<1>3. /\ \A q \in Procs \ {p} : at'[q] = at[q]
      /\ at'[p] \in {then'[p], "d_close"}
  BY <1>0, CloseMoves
<1>4. then'[p] \notin Busy /\ (p \notin Users => then'[p] = "done")
  BY DEF ReturnsOf, Busy, Connecting, Disconnecting
<1>5. write_task' = None /\ read_task' = None
  BY DEF Close
<1>6. CASE StreamIsConnected
  <2>1. /\ stream' = [stream EXCEPT ![made] = "closing"] /\ conn' = made
        /\ held' = [held EXCEPT ![p].c = made]
        /\ at' = [at EXCEPT ![p] = "d_close"]
    BY <1>6 DEF Close, Ready, Working
  <2>2. at'[p] = "d_close" /\ stream'[made] = "closing" /\ held'[p].c = made
    BY <1>0, <1>1, <2>1 DEF AtOK, HeldOK
  <2>3. \A g \in Conns \ {made} : stream'[g] = stream[g]
    BY <1>0, <2>1 DEF HeldOK
  <2>4. AwaitsClose(p)'
    BY <1>2, <1>3, <1>5, <2>2 DEF AwaitsClose, Ready, Working
  <2> QED
    BY <1>1, <1>3, <1>w, <2>1, <2>2, <2>3, <2>4, Disconnects DEF Connecting, Disconnecting
<1>7. CASE ~StreamIsConnected
  <2>1. /\ conn' = None /\ at' = [at EXCEPT ![p] = then'[p]]
        /\ stream' = [g \in Conns |-> IF g = made /\ stream[g] = "broken"
                                        THEN "closed" ELSE stream[g]]
    BY <1>7 DEF Close, Ready, Working
  <2>2. at'[p] = then'[p]
    BY <1>0, <2>1 DEF AtOK
  <2>3. stream[made] = "broken"
    BY <1>7 DEF StreamIsConnected, Ready, Working, InUse
  <2>4. stream'[made] \in Gone /\ \A g \in Conns \ {made} : stream'[g] = stream[g]
    BY <1>1, <2>1, <2>3 DEF Gone
  <2>5. at'[W(made)] \in Over /\ at'[R(made)] \in Over
    BY <1>2, <1>3, <1>4, <2>2 DEF Ready, Working, Over
  <2>6. at'[p] \notin Connecting /\ at'[p] \notin Disconnecting
    BY <1>4, <2>2 DEF Busy
  <2>7. at'[p] \notin {"d_write", "d_read", "d_close"}
    BY <2>6 DEF Disconnecting
  <2> QED
    BY <1>1, <1>3, <1>5, <1>w, <2>1, <2>4, <2>5, <2>6, <2>7, Disconnects
<1> QED
  BY <1>6, <1>7

LEMMA ReadTaskKeeps ==
  ASSUME TInv, PhaseInv, NEW p \in Procs, Ready(p), NEW r,
         r = made \/ (r = None /\ at[R(made)] \in Over),
         ReadTaskThenClose(p, r), made' = made, connState' = "DISCONNECTED",
         then'[p] \in ReturnsOf(p)
  PROVE  PhaseInv'
<1>0. AtOK /\ HeldOK /\ RestOK
  BY TInvParts
<1>w. Working(p)
  BY DEF Ready
<1>1. made \in Conns /\ made # None
  BY <1>0 DEF Ready, Working, RestOK, None, Conns
<1>2. W(made) \in Procs /\ R(made) \in Procs /\ W(made) # R(made)
  BY <1>1, LoopFacts
<1>3. CASE r # None /\ NotDone(R(r))
  <2>1. r = made
    BY <1>3
  <2>2. CancelAndAwait(p, R(made), "d_read", [held[p] EXCEPT !.r = made])
    BY <1>3, <2>1 DEF ReadTaskThenClose
  <2>3. /\ cancelled' = {R(made)} \ {p}
        /\ at' = [at EXCEPT ![p] = "d_read"]
        /\ held' = [held EXCEPT ![p] = [held[p] EXCEPT !.r = made]]
        /\ UNCHANGED <<conn, stream>>
    BY <2>2 DEF CancelAndAwait, Ready, Working
  <2>4. \A q \in Procs : at'[q] = IF q = p THEN "d_read" ELSE at[q]
    BY <1>0, <2>3 DEF AtOK
  <2>5. held'[p].r = made
    BY <1>0, <2>3 DEF HeldOK
  <2>6. p # R(made) => at[R(made)] \in {"none", "created", "running", "woken"}
    BY <1>0, <1>1, <1>2, <1>3, <2>1, PlaceFacts DEF AtOK, NotDone, Ready, Working, Busy
  <2>7. AwaitsRead(p)'
    <3>1. at'[W(made)] \in Over \/ p = W(made)
      BY <1>2, <2>4 DEF Ready, Working
    <3>2. /\ R(made) \in cancelled' => at'[R(made)] \in {"none", "created", "running", "woken"}
          /\ at'[R(made)] \in {"created", "running", "woken"} => R(made) \in cancelled'
      BY <1>2, <2>3, <2>4, <2>6
    <3>3. stream'[made] \in InUse
      BY <2>3 DEF Ready, Working
    <3> QED
      BY <2>3, <2>5, <3>1, <3>2, <3>3 DEF AwaitsRead
  <2>8. at'[p] = "d_read" /\ conn' = made
    BY <2>3, <2>4 DEF Ready, Working
  <2> QED
    BY <1>1, <1>w, <2>3, <2>4, <2>7, <2>8, Disconnects DEF Connecting, Disconnecting
<1>4. CASE ~(r # None /\ NotDone(R(r)))
  <2>1. Close(p) /\ cancelled' = {}
    BY <1>4 DEF ReadTaskThenClose, Ready, Working
  <2>2. at[R(made)] \in Over
    BY <1>1, <1>4 DEF NotDone, Over
  <2> QED
    BY <2>1, <2>2, CloseKeeps
<1> QED
  BY <1>3, <1>4

\* Only one task takes a connection down; for the others it is done already.
LEMMA BeginKeeps ==
  ASSUME TInv, PhaseInv, NEW p \in Procs, NEW k \in ReturnsOf(p), BeginDisconnect(p, k),
         made' = made, at[p] \notin Disconnecting,
         connState # "DISCONNECTED" => \A q \in Procs \ {p} : at[q] \notin Connecting,
         p \notin Users => at[p] = "running" /\ p \notin cancelled
  PROVE  PhaseInv'
<1>0. AtOK /\ ThenOK /\ HeldOK /\ RestOK
  BY TInvParts
<1>1. then' = [then EXCEPT ![p] = k]
  BY DEF BeginDisconnect
<1>2. then'[p] = k /\ then'[p] \in ReturnsOf(p)
  BY <1>0, <1>1 DEF ThenOK
<1>3. p \notin Users => \E g \in Conns : p = W(g) \/ p = R(g)
  BY EveryLoop DEF Procs
<1>4. CASE connState = "DISCONNECTED"
  <2>1. /\ at' = [at EXCEPT ![p] = k]
        /\ UNCHANGED <<connState, conn, stream, write_task, read_task, cancelled, held>>
    BY <1>4 DEF BeginDisconnect, refs
  <2>2. CASE p \in Users
    <3>1. k \in {"idle", "awaiting", "failed", "escaped"}
      BY <2>2 DEF ReturnsOf
    <3> QED
      BY <2>1, <2>2, <3>1, UserRests DEF phase
  <2>3. CASE p \notin Users
    <3>1. k = "done"
      BY <2>3 DEF ReturnsOf
    <3>2. PICK g \in Conns : p \in {W(g), R(g)}
      BY <1>3, <2>3
    <3>3. cancelled' = cancelled \ {p}
      BY <2>1, <2>3
    <3> QED
      BY <2>1, <2>3, <3>1, <3>2, <3>3, LoopMoves
  <2> QED
    BY <2>2, <2>3
<1>5. CASE connState # "DISCONNECTED"
  <2>1. connState' = "DISCONNECTED"
    BY <1>5 DEF BeginDisconnect
  <2>2. \A q \in Procs \ {p} : at[q] \notin Busy
    BY <1>5 DEF PhaseInv, DisconnectingInv, Busy
  <2>3. /\ conn = made /\ made # None /\ stream[made] \in InUse /\ cancelled = {}
    BY <1>0, <1>5 DEF PhaseInv, ConnectingInv, ConnectedInv, RestOK
  <2>4. made \in Conns
    BY <1>0, <2>3 DEF RestOK, None, Conns
  <2>5. p \in Users \/ p = W(made) \/ p = R(made)
    <3> SUFFICES ASSUME p \notin Users PROVE p = W(made) \/ p = R(made)
      OBVIOUS
    <3>1. PICK g \in Conns : p = W(g) \/ p = R(g)
      BY <1>3
    <3>2. g = made
      BY <3>1 DEF PhaseInv, OnlyLast, Over
    <3> QED
      BY <3>1, <3>2
  <2>6. /\ W(made) \in Procs /\ R(made) \in Procs /\ W(made) # R(made)
        /\ W(made) \notin Users /\ R(made) \notin Users
    BY <2>4, LoopFacts
  <2>7. CASE connState = "CONNECTING"
    <3>1. write_task = None /\ read_task = None /\ at[W(made)] \in Over /\ at[R(made)] \in Over
      BY <2>4, <2>7 DEF PhaseInv, ConnectingInv
    <3>2. ReadTaskThenClose(p, None)
      BY <1>5, <3>1 DEF BeginDisconnect
    <3>3. Ready(p)
      BY <2>2, <2>3, <2>5, <3>1 DEF Ready, Working
    <3> QED
      BY <1>2, <2>1, <3>1, <3>2, <3>3, ReadTaskKeeps
  <2>8. CASE connState = "CONNECTED" /\ at[W(made)] = "done"
    <3>1. write_task = made /\ read_task = made
      BY <2>8 DEF PhaseInv, ConnectedInv
    <3>2. ReadTaskThenClose(p, made)
      BY <1>5, <2>8, <3>1 DEF BeginDisconnect, NotDone
    <3>3. Ready(p)
      BY <2>2, <2>3, <2>5, <2>8 DEF Ready, Working, Over
    <3> QED
      BY <1>2, <2>1, <3>2, <3>3, ReadTaskKeeps
  <2>9. CASE connState = "CONNECTED" /\ at[W(made)] # "done"
    <3>1. /\ write_task = made /\ read_task = made
          /\ at[W(made)] \in {"created", "running"}
      BY <2>9 DEF PhaseInv, ConnectedInv
    <3>2. CancelAndAwait(p, W(made), "d_write", [held[p] EXCEPT !.w = made, !.r = made])
      BY <1>5, <2>3, <2>9, <3>1 DEF BeginDisconnect, NotDone
    <3>3. /\ cancelled' = {W(made)} \ {p}
          /\ at' = [at EXCEPT ![p] = "d_write"]
          /\ held' = [held EXCEPT ![p] = [held[p] EXCEPT !.w = made, !.r = made]]
          /\ conn' = made /\ stream' = stream /\ write_task' = made /\ read_task' = made
      BY <2>3, <3>1, <3>2 DEF CancelAndAwait, refs
    <3>4. \A q \in Procs : at'[q] = IF q = p THEN "d_write" ELSE at[q]
      BY <1>0, <3>3 DEF AtOK
    <3>5. held'[p].w = made /\ held'[p].r = made
      BY <1>0, <3>3 DEF HeldOK
    <3>6. W(made) \in cancelled' <=> at'[W(made)] \in {"created", "running"}
      BY <2>6, <3>1, <3>3, <3>4
    <3>7. AwaitsWrite(p)'
      BY <2>3, <3>3, <3>5, <3>6 DEF AwaitsWrite
    <3>8. at'[p] = "d_write"
      BY <3>4
    <3>9. Working(p)
      BY <2>2, <2>3, <2>5 DEF Working
    <3> QED
      BY <2>1, <2>4, <3>3, <3>4, <3>7, <3>8, <3>9, Disconnects DEF Connecting, Disconnecting
  <2> QED
    BY <1>0, <1>5, <2>7, <2>8, <2>9 DEF RestOK
<1> QED
  BY <1>4, <1>5

LEMMA DisconnectStepKeeps ==
  ASSUME TInv, PhaseInv, NEW p \in Procs, DisconnectStep(p)
  PROVE  PhaseInv'
<1>0. AtOK /\ ThenOK /\ HeldOK /\ RestOK
  BY TInvParts
<1>1. /\ UNCHANGED <<then, made>> /\ at[p] \in Disconnecting
      /\ then'[p] \in ReturnsOf(p)
  BY <1>0 DEF DisconnectStep, WriteTaskEnded, ReadTaskEnded, Closed, Abort, Disconnecting, ThenOK
<1>2. /\ connState = "DISCONNECTED" /\ conn = made /\ made # None
      /\ p \in Users \/ p = W(made) \/ p = R(made)
      /\ \A q \in Procs \ {p} : at[q] \notin Busy
  BY <1>1 DEF PhaseInv, DisconnectingInv, OneAtATime, Busy
<1>3. made \in Conns
  BY <1>0, <1>2 DEF RestOK, None, Conns
<1>4. /\ W(made) \in Procs /\ R(made) \in Procs /\ W(made) # R(made)
      /\ W(made) \notin Users /\ R(made) \notin Users
  BY <1>3, LoopFacts
<1>5. CASE WriteTaskEnded(p)
  <2>1. AwaitsWrite(p) /\ at[p] = "d_write"
    BY <1>5 DEF PhaseInv, DisconnectingInv, WriteTaskEnded, Disconnecting
  <2>2. p \notin cancelled
    BY <2>1 DEF AwaitsWrite
  <2>3. at[W(made)] \in {"done", "flushing"} \/ p = W(made)
    BY <1>5, <2>1, <2>2 DEF WriteTaskEnded, AwaitsWrite
  <2>4. cancelled = {}
    BY <2>1, <2>3 DEF AwaitsWrite
  <2>5. Ready(p)
    BY <1>2, <2>1, <2>3, <2>4 DEF Ready, Working, AwaitsWrite, Over
  <2>6. ReadTaskThenClose(p, made) /\ connState' = "DISCONNECTED"
    BY <1>2, <1>5, <2>1 DEF WriteTaskEnded, ResetIfOver, AwaitsWrite
  <2> QED
    BY <1>1, <2>5, <2>6, ReadTaskKeeps
<1>6. CASE ReadTaskEnded(p)
  <2>1. AwaitsRead(p) /\ at[p] = "d_read"
    BY <1>6 DEF PhaseInv, DisconnectingInv, ReadTaskEnded, Disconnecting
  <2>2. p \notin cancelled
    BY <2>1 DEF AwaitsRead
  <2>3. at[R(made)] = "done" \/ p = R(made)
    BY <1>6, <2>1, <2>2 DEF ReadTaskEnded, AwaitsRead
  <2>4. cancelled = {}
    BY <2>1, <2>2, <2>3 DEF AwaitsRead
  <2>5. Ready(p) /\ (at[R(made)] \in Over \/ p = R(made))
    BY <1>2, <2>1, <2>3, <2>4 DEF Ready, Working, AwaitsRead, Over
  <2>6. Close(p) /\ connState' = "DISCONNECTED" /\ cancelled' = {}
    BY <1>2, <1>6, <2>4 DEF ReadTaskEnded, ResetIfOver
  <2> QED
    BY <1>1, <2>5, <2>6, CloseKeeps
<1>7. CASE Closed(p)
  <2>1. AwaitsClose(p) /\ at[p] = "d_close"
    BY <1>7 DEF PhaseInv, DisconnectingInv, Closed, Disconnecting
  <2>2. Working(p)
    BY <1>2, <2>1 DEF Working, AwaitsClose
  <2>3. /\ connState' = "DISCONNECTED" /\ conn' = None
        /\ at' = [at EXCEPT ![p] = then[p]]
        /\ UNCHANGED <<stream, write_task, read_task, cancelled>>
        /\ stream[made] = "closed"
    BY <1>7, <2>1 DEF Closed, AwaitsClose, net, refs
  <2>4. \A q \in Procs : at'[q] = IF q = p THEN then[p] ELSE at[q]
    BY <1>0, <2>3 DEF AtOK
  <2>5. then[p] \notin Busy /\ (p \notin Users => then[p] = "done")
    BY <1>1 DEF ReturnsOf, Busy, Connecting, Disconnecting
  <2>6. at'[W(made)] \in Over /\ at'[R(made)] \in Over
    BY <1>4, <2>1, <2>4, <2>5 DEF AwaitsClose, Over
  <2>7. /\ write_task' = None /\ read_task' = None /\ cancelled' = {}
        /\ stream'[made] \in Gone
    BY <2>1, <2>3 DEF AwaitsClose, Gone
  <2>8. at'[p] \notin Connecting /\ at'[p] \notin Disconnecting
        /\ at'[p] \notin {"d_write", "d_read", "d_close"}
    BY <2>4, <2>5 DEF Busy, Disconnecting
  <2> QED
    BY <1>1, <1>3, <2>2, <2>3, <2>4, <2>6, <2>7, <2>8, Disconnects
<1>8. ~Abort(p)
  BY DEF PhaseInv, DisconnectingInv, AwaitsClose, Abort, Disconnecting
<1> QED
  BY <1>5, <1>6, <1>7, <1>8 DEF DisconnectStep

(***************************************************************************)
(* connect(), and the network                                              *)
(***************************************************************************)

LEMMA OpenKeeps ==
  ASSUME ~Overlap, TInv, NotYet, PhaseInv, NEW u \in Users, OpenConnection(u)
  PROVE  PhaseInv'
<1>0. AtOK /\ ThenOK /\ HeldOK /\ RestOK /\ u \in Procs
  BY TInvParts DEF Procs
<1>1. /\ connState = "DISCONNECTED" /\ NobodyIn(Connecting) /\ NobodyIn(Disconnecting)
      /\ made' = made + 1 /\ conn' = made + 1 /\ made < MaxConns
      /\ at' = [at EXCEPT ![u] = "opening"]
      /\ UNCHANGED <<connState, stream, write_task, read_task, cancelled, held>>
  BY DEF OpenConnection, net, refs
<1>2. /\ write_task = None /\ read_task = None /\ cancelled = {}
      /\ \A g \in Conns : stream[g] \in Gone /\ at[W(g)] \in Over /\ at[R(g)] \in Over
  BY <1>1 DEF PhaseInv, DisconnectedInv
<1>3. /\ made \in Nat /\ made + 1 \in Conns /\ made + 1 # None
      /\ \A g \in Conns : g > made + 1 => g > made
  BY <1>0, <1>1, BoundsAssumption DEF RestOK, Conns, None
<1>4. \A q \in Procs : at'[q] = IF q = u THEN "opening" ELSE at[q]
  BY <1>0, <1>1 DEF AtOK
<1>5. \A g \in Conns : at'[W(g)] = at[W(g)] /\ at'[R(g)] = at[R(g)]
  BY <1>4, LoopFacts
<1>6. \A q \in Procs \ {u} : at'[q] \notin Busy
  BY <1>1, <1>4 DEF NobodyIn, Busy
<1>7. at'[u] = "opening"
  BY <1>0, <1>4
<1>8. stream[made + 1] = "none" /\ at[W(made + 1)] = "none"
  BY <1>3 DEF PhaseInv, OnlyLast, NotYet
<1>9. OnlyLast'
  BY <1>1, <1>2, <1>3, <1>5 DEF PhaseInv, OnlyLast
<1>10. OneAtATime'
  BY <1>6 DEF OneAtATime
<1>11. OpeningInv'
  BY <1>1, <1>3, <1>5, <1>6, <1>8 DEF OpeningInv, Busy, Connecting, Procs
<1>12. HandshakeInv'
  BY <1>6, <1>7 DEF HandshakeInv, Busy, Connecting, Procs
<1>13. DisconnectedInv' /\ ConnectingInv' /\ ConnectedInv'
  BY <1>1, <1>2, <1>5 DEF DisconnectedInv, ConnectingInv, ConnectedInv
<1>14. DisconnectingInv'
  BY <1>6, <1>7 DEF DisconnectingInv, Busy, Disconnecting
<1> QED
  BY <1>9, <1>10, <1>11, <1>12, <1>13, <1>14 DEF PhaseInv

\* While one user is in connect(), nothing else goes on.
LEMMA NobodyElse ==
  ASSUME PhaseInv, NEW u \in Users, at[u] \in Connecting
  PROVE  \A q \in Procs \ {u} : at[q] \notin Busy
BY DEF PhaseInv, OneAtATime, Busy, Procs

LEMMA OpenedKeeps ==
  ASSUME TInv, PhaseInv, NEW u \in Users, Opened(u)
  PROVE  PhaseInv'
<1>0. AtOK /\ ThenOK /\ HeldOK /\ RestOK /\ u \in Procs
  BY TInvParts DEF Procs
<1>1. /\ at[u] = "opening" /\ at[u] \in Connecting /\ connState' = "CONNECTING"
      /\ connState = "DISCONNECTED" /\ conn = made /\ made # None /\ at[W(made)] = "none"
      /\ stream' = [stream EXCEPT ![made] = "open"]
      /\ at' = [at EXCEPT ![u] = "handshake"]
      /\ UNCHANGED <<conn, made, write_task, read_task, cancelled>>
  BY DEF Opened, PhaseInv, OpeningInv, refs, Connecting
<1>2. \A q \in Procs \ {u} : at[q] \notin Busy
  BY <1>1, NobodyElse
<1>3. made \in Conns
  BY <1>0, <1>1 DEF RestOK, None, Conns
<1>4. \A q \in Procs : at'[q] = IF q = u THEN "handshake" ELSE at[q]
  BY <1>0, <1>1 DEF AtOK
<1>5. \A g \in Conns : at'[W(g)] = at[W(g)] /\ at'[R(g)] = at[R(g)]
  BY <1>4, LoopFacts
<1>6. stream'[made] = "open" /\ \A g \in Conns \ {made} : stream'[g] = stream[g]
  BY <1>0, <1>1, <1>3 DEF HeldOK
<1>7. NobodyIn(Disconnecting)
  BY <1>1, <1>2 DEF NobodyIn, Busy, Disconnecting
<1>8. /\ write_task = None /\ read_task = None /\ cancelled = {}
      /\ \A g \in Conns : at[W(g)] \in Over /\ at[R(g)] \in Over
  BY <1>1, <1>7 DEF PhaseInv, DisconnectedInv
<1>9. \A q \in Procs \ {u} : at'[q] \notin Busy
  BY <1>2, <1>4
<1>10. at'[u] = "handshake"
  BY <1>0, <1>4
<1>11. OnlyLast'
  BY <1>1, <1>3, <1>5, <1>6 DEF PhaseInv, OnlyLast, Conns
<1>12. OneAtATime'
  BY <1>9 DEF OneAtATime
<1>13. OpeningInv' /\ HandshakeInv'
  BY <1>1, <1>9, <1>10 DEF OpeningInv, HandshakeInv, Busy, Connecting, Procs
<1>14. DisconnectedInv' /\ ConnectedInv'
  BY <1>1 DEF DisconnectedInv, ConnectedInv
<1>15. ConnectingInv'
  BY <1>1, <1>3, <1>5, <1>6, <1>8 DEF ConnectingInv, InUse
<1>16. DisconnectingInv'
  BY <1>9, <1>10 DEF DisconnectingInv, Busy, Disconnecting
<1> QED
  BY <1>11, <1>12, <1>13, <1>14, <1>15, <1>16 DEF PhaseInv

LEMMA HandshakeDoneKeeps ==
  ASSUME TInv, PhaseInv, NEW u \in Users, HandshakeDone(u)
  PROVE  PhaseInv'
<1>0. AtOK /\ ThenOK /\ HeldOK /\ RestOK /\ u \in Procs
  BY TInvParts DEF Procs
<1>1. /\ at[u] \in Connecting /\ connState = "CONNECTING" /\ connState' = "CONNECTED"
      /\ write_task' = made /\ read_task' = made
      /\ UNCHANGED <<conn, made, stream, cancelled, held>>
  BY DEF HandshakeDone, PhaseInv, HandshakeInv, Connecting, net
<1>2. /\ conn = made /\ made # None /\ stream[made] \in InUse /\ cancelled = {}
      /\ \A g \in Conns : at[W(g)] \in Over /\ at[R(g)] \in Over
  BY <1>1 DEF PhaseInv, ConnectingInv
<1>3. made \in Conns
  BY <1>0, <1>2 DEF RestOK, None, Conns
<1>4. \A q \in Procs \ {u} : at[q] \notin Busy
  BY <1>1, NobodyElse
<1>5. W(made) \in Procs /\ R(made) \in Procs /\ W(made) # u /\ R(made) # u
  BY <1>3, LoopFacts
<1>6. \A q \in Procs : at'[q] = IF q \in {W(made), R(made)} THEN "created"
                                ELSE IF q = u THEN AfterConnect(u) ELSE at[q]
  BY <1>0, <1>5 DEF HandshakeDone, AtOK
<1>7. \A g \in Conns \ {made} : at'[W(g)] = at[W(g)] /\ at'[R(g)] = at[R(g)]
  BY <1>3, <1>6, LoopFacts
<1>8. \A q \in Procs : at'[q] \notin Busy
  BY <1>4, <1>6 DEF Busy, Connecting, Disconnecting, AfterConnect
<1>9. at'[W(made)] = "created"
  BY <1>5, <1>6
<1>10. OnlyLast'
  BY <1>1, <1>7 DEF PhaseInv, OnlyLast
<1>11. OneAtATime' /\ OpeningInv' /\ HandshakeInv' /\ DisconnectingInv'
  BY <1>8 DEF OneAtATime, OpeningInv, HandshakeInv, DisconnectingInv, Busy, Connecting, Procs
<1>12. DisconnectedInv' /\ ConnectingInv' /\ ConnectedInv'
  BY <1>1, <1>2, <1>9 DEF DisconnectedInv, ConnectingInv, ConnectedInv
<1> QED
  BY <1>10, <1>11, <1>12 DEF PhaseInv

LEMMA StreamKeeps ==
  ASSUME TInv, PhaseInv, NEW g \in Conns, StreamBreaks(g) \/ StreamCloses(g)
  PROVE  PhaseInv'
<1>0. AtOK /\ ThenOK /\ HeldOK /\ RestOK
  BY TInvParts
<1>1. /\ UNCHANGED <<connState, conn, made, write_task, read_task, cancelled, held, at>>
      /\ \/ stream[g] = "open" /\ stream' = [stream EXCEPT ![g] = "broken"]
         \/ stream[g] = "closing" /\ stream' = [stream EXCEPT ![g] = "closed"]
  BY DEF StreamBreaks, StreamCloses, refs
<1>2. g = made
  BY <1>1 DEF PhaseInv, OnlyLast, Gone
<1>3. \A h \in Conns \ {made} : stream'[h] = stream[h]
  BY <1>0, <1>1, <1>2 DEF HeldOK
<1>4. /\ stream[made] \in InUse => stream'[made] \in InUse
      /\ stream[made] \in {"closing", "closed"} => stream'[made] \in {"closing", "closed"}
      /\ stream[made] \notin Gone
  BY <1>0, <1>1, <1>2 DEF HeldOK, InUse, Gone
<1>5. OnlyLast'
  BY <1>1, <1>2, <1>3 DEF PhaseInv, OnlyLast, Conns
<1>6. OneAtATime' /\ HandshakeInv'
  BY <1>1 DEF PhaseInv, OneAtATime, HandshakeInv
<1>7. OpeningInv'
  BY <1>1, <1>2, <1>4 DEF PhaseInv, OpeningInv, Gone
<1>8. DisconnectedInv'
  BY <1>1, <1>2, <1>4 DEF PhaseInv, DisconnectedInv, NobodyIn
<1>9. ConnectingInv' /\ ConnectedInv'
  BY <1>1, <1>4 DEF PhaseInv, ConnectingInv, ConnectedInv
<1>10. DisconnectingInv'
  BY <1>1, <1>4 DEF PhaseInv, DisconnectingInv, AwaitsWrite, AwaitsRead, AwaitsClose
<1> QED
  BY <1>5, <1>6, <1>7, <1>8, <1>9, <1>10 DEF PhaseInv

LEMMA UserStepKeeps ==
  ASSUME ~Overlap, TInv, CreatorInv, PhaseInv, NEW u \in Users,
         Connect(u) \/ Create(u) \/ Disconnect(u) \/ Send(u) \/ CallStep(u)
  PROVE  PhaseInv'
<1>0. /\ u \in Procs /\ {"idle", "failed"} \subseteq ReturnsOf(u) /\ AfterConnect(u) \in ReturnsOf(u)
      /\ AfterConnect(u) \in {"idle", "awaiting"} /\ AfterRaise(u) \in {"idle", "escaped"}
  BY DEF Procs, ReturnsOf, AfterConnect, AfterRaise
<1>1. CASE Connect(u) \/ Create(u)
  BY <1>1, OpenKeeps DEF Connect, Create, CreatorInv
<1>2. CASE Disconnect(u)
  <2>1. \A q \in Procs : at[q] \notin Connecting
    BY <1>2 DEF Disconnect, NobodyIn
  <2>2. at[u] \notin Disconnecting
    BY <1>2 DEF Disconnect, MayCall, Disconnecting
  <2> QED
    BY <1>0, <1>2, <2>1, <2>2, BeginKeeps DEF Disconnect
<1>3. CASE HandshakeEof(u)
  <2>1. at[u] \in Connecting /\ at[u] \notin Disconnecting
    BY <1>3 DEF HandshakeEof, Connecting, Disconnecting
  <2>2. \A q \in Procs \ {u} : at[q] \notin Connecting
    BY <2>1, NobodyElse DEF Busy
  <2> QED
    BY <1>0, <1>3, <2>1, <2>2, BeginKeeps DEF HandshakeEof
<1>4. CASE NoId(u)
  <2>1. at[u] = "awaiting" /\ creator = u /\ u # Nobody /\ at[u] \notin Disconnecting
    BY <1>0, <1>4, UsersAssumption DEF NoId, CreatorInv, OneAwaits, Disconnecting
  <2>2. \A q \in Procs \ {u} : at[q] \notin Connecting
    <3> SUFFICES ASSUME NEW q \in Procs \ {u} PROVE at[q] \notin Connecting
      OBVIOUS
    <3>1. CASE q \in Users
      BY <2>1, <3>1 DEF CreatorInv, CreatorAlone, Connecting
    <3>2. CASE q \notin Users
      <4>1. PICK g \in Conns : q = W(g) \/ q = R(g)
        BY <3>2, EveryLoop DEF Procs
      <4>2. at[q] \in PlacesOf(q)
        BY TInvParts DEF AtOK
      <4> QED
        BY <4>1, <4>2, PlaceFacts DEF Connecting, Disconnecting
    <3> QED
      BY <3>1, <3>2
  <2> QED
    BY <1>0, <1>4, <2>1, <2>2, BeginKeeps DEF NoId
<1>5. CASE Send(u)
  BY <1>5, PhaseSame DEF Send, phase, net, refs
<1>6. CASE OpenFails(u) \/ HandshakeRaises(u) \/ GotId(u)
  <2>1. at[u] \notin Disconnecting /\ UNCHANGED phase
    BY <1>6 DEF OpenFails, HandshakeRaises, GotId, phase, net, refs, Disconnecting
  <2>2. \E x \in {"idle", "awaiting", "failed", "escaped"} : at' = [at EXCEPT ![u] = x]
    BY <1>0, <1>6 DEF OpenFails, HandshakeRaises, GotId
  <2> QED
    BY <2>1, <2>2, UserRests
<1>7. CASE Opened(u) \/ HandshakeDone(u)
  BY <1>7, OpenedKeeps, HandshakeDoneKeeps
<1> QED
  BY <1>1, <1>2, <1>3, <1>4, <1>5, <1>6, <1>7 DEF CallStep, DroppedBeforeId, CreateTimeout

LEMMA LoopStepKeeps ==
  ASSUME TInv, PhaseInv, NEW g \in Conns, WriteStep(g) \/ ReadStep(g) \/ Wake(g)
  PROVE  PhaseInv'
<1> USE DEF net, out, refs
<1>0. /\ W(g) \in Procs /\ R(g) \in Procs /\ W(g) \notin Users /\ R(g) \notin Users
      /\ W(g) # R(g) /\ W(g)[1] = "write" /\ R(g)[1] = "read"
  BY LoopFacts
<1>1. "done" \in ReturnsOf(W(g)) /\ "done" \in ReturnsOf(R(g))
  BY PlaceFacts
<1>2. IsConnected => cancelled = {}
  BY DEF IsConnected, PhaseInv, ConnectedInv
<1>3. CASE WriteFails(g) \/ ReadFails(g)
  <2>1. connState # "DISCONNECTED" => \A q \in Procs : at[q] \notin Connecting
    <3> SUFFICES ASSUME connState # "DISCONNECTED", NEW q \in Procs, at[q] \in Connecting
                 PROVE  FALSE
      OBVIOUS
    <3>1. connState = "CONNECTED"
      <4>1. at[W(g)] = "running" \/ at[R(g)] = "running"
        BY <1>3 DEF WriteFails, ReadFails
      <4>2. connState # "CONNECTING"
        BY <4>1 DEF PhaseInv, ConnectingInv, Over
      <4> QED
        BY <4>2, TInvParts DEF RestOK
    <3>2. q \in Users
      <4> SUFFICES ASSUME q \notin Users PROVE FALSE
        OBVIOUS
      <4>1. PICK h \in Conns : q = W(h) \/ q = R(h)
        BY EveryLoop DEF Procs
      <4>2. at[q] \in PlacesOf(q)
        BY TInvParts DEF AtOK
      <4> QED
        BY <4>1, <4>2, PlaceFacts DEF Connecting, Disconnecting
    <3> QED
      BY <3>1, <3>2 DEF PhaseInv, OpeningInv, HandshakeInv, Connecting
  <2>2. CASE WriteFails(g)
    BY <1>0, <1>1, <2>1, <2>2, BeginKeeps DEF WriteFails, Disconnecting
  <2>3. CASE ReadFails(g)
    BY <1>0, <1>1, <2>1, <2>3, BeginKeeps DEF ReadFails, Disconnecting
  <2> QED
    BY <1>3, <2>2, <2>3
<1>4. CASE StartWriting(g)
  <2>1. PICK x \in {"running", "done"} : at' = [at EXCEPT ![W(g)] = x]
    BY <1>4 DEF StartWriting
  <2>2. cancelled' = cancelled /\ cancelled' = cancelled \ {W(g)}
    BY <1>4 DEF StartWriting
  <2> QED
    BY <1>0, <1>4, <2>1, <2>2, LoopMoves DEF StartWriting
<1>5. CASE WriteMessage(g)
  <2>1. PICK x \in {"running", "done"} :
          /\ at' = [at EXCEPT ![W(g)] = x]
          /\ x = "running" => IsConnected
    BY <1>5 DEF WriteMessage
  <2>2. x = "running" => W(g) \notin cancelled
    BY <1>2, <2>1
  <2>3. cancelled' = cancelled \ {W(g)} /\ (x = "running" => cancelled' = cancelled)
    BY <1>5, <2>2 DEF WriteMessage
  <2> QED
    BY <1>0, <1>5, <2>1, <2>2, <2>3, LoopMoves DEF WriteMessage
<1>6. CASE Flush(g)
  <2>1. PICK x \in {"flushing", "done"} : at' = [at EXCEPT ![W(g)] = x]
    BY <1>6 DEF Flush
  <2> QED
    BY <1>0, <1>6, <2>1, LoopMoves DEF Flush
<1>7. CASE Flushed(g)
  BY <1>0, <1>7, LoopMoves DEF Flushed
<1>8. CASE LeaveLoop(g)
  <2>1. cancelled' = cancelled \ {W(g)}
    BY <1>8 DEF LeaveLoop
  <2> QED
    BY <1>0, <1>8, <2>1, LoopMoves DEF LeaveLoop
<1>9. CASE EndCancelled(W(g)) \/ EndCancelled(R(g))
  <2>1. PICK t \in {W(g), R(g)} : EndCancelled(t)
    BY <1>9
  <2> QED
    BY <1>0, <2>1, LoopMoves DEF EndCancelled
<1>10. CASE StartReading(g)
  <2>1. PICK x \in {"running", "done"} : at' = [at EXCEPT ![R(g)] = x]
    BY <1>10 DEF StartReading
  <2>2. cancelled' = cancelled /\ cancelled' = cancelled \ {R(g)}
    BY <1>10 DEF StartReading
  <2> QED
    BY <1>0, <1>10, <2>1, <2>2, LoopMoves DEF StartReading
<1>11. CASE Wake(g)
  BY <1>0, <1>11, LoopMoves DEF Wake
<1>12. CASE Dispatch(g)
  <2>1. PICK x \in {"running", "done"} :
          /\ at' = [at EXCEPT ![R(g)] = x]
          /\ x = "running" => IsConnected
    BY <1>12 DEF Dispatch
  <2>2. x = "running" => R(g) \notin cancelled
    BY <1>2, <2>1
  <2>3. cancelled' = cancelled \ {R(g)} /\ (x = "running" => cancelled' = cancelled)
    BY <1>12, <2>2 DEF Dispatch
  <2> QED
    BY <1>0, <1>12, <2>1, <2>2, <2>3, LoopMoves DEF Dispatch
<1> QED
  BY <1>3, <1>4, <1>5, <1>6, <1>7, <1>8, <1>9, <1>10, <1>11, <1>12 DEF WriteStep, ReadStep

LEMMA StepPhase ==
  ASSUME ~Overlap, TInv, CreatorInv, PhaseInv, [Next]_vars
  PROVE  PhaseInv'
<1>1. ASSUME NEW g \in Conns, ServerCloses(g)
      PROVE  PhaseInv'
  BY <1>1, PhaseSame DEF ServerCloses, phase, refs
<1>2. CASE UNCHANGED vars
  BY <1>2, PhaseSame DEF vars, phase, net, refs
<1> QED
  BY <1>1, <1>2, UserStepKeeps, DisconnectStepKeeps, LoopStepKeeps, StreamKeeps DEF Next

LEMMA InitPhase == Init => PhaseInv
<1> SUFFICES ASSUME Init PROVE PhaseInv
  OBVIOUS
<1>1. \A g \in Conns : at[W(g)] = "none" /\ at[R(g)] = "none" /\ stream[g] = "none"
  BY LoopFacts DEF Init
<1>2. \A q \in Procs : at[q] \notin Busy
  BY DEF Init, Busy, Connecting, Disconnecting
<1>3. /\ connState = "DISCONNECTED" /\ conn = None /\ made = 0 /\ write_task = None
      /\ read_task = None /\ cancelled = {}
  BY DEF Init
<1>4. OnlyLast
  BY <1>1, <1>3 DEF OnlyLast, Gone, Over
<1>5. OneAtATime /\ OpeningInv /\ HandshakeInv /\ DisconnectingInv
  BY <1>2 DEF OneAtATime, OpeningInv, HandshakeInv, DisconnectingInv, Busy, Connecting, Procs
<1>6. DisconnectedInv /\ ConnectingInv /\ ConnectedInv
  BY <1>1, <1>3 DEF DisconnectedInv, ConnectingInv, ConnectedInv, Gone, Over
<1> QED
  BY <1>4, <1>5, <1>6 DEF PhaseInv

LEMMA PhaseInvariance ==
  ASSUME ~Overlap
  PROVE  Spec => []PhaseInv
<1>1. TInv /\ CreatorInv /\ PhaseInv /\ [Next]_vars => PhaseInv'
  BY StepPhase
<1> QED
  BY <1>1, InitPhase, TInvariance, CreatorInvariance, PTL DEF Spec

\* Loops of an earlier connection, cancelled or left behind, never act on behalf
\* of a later one.
THEOREM LoopsDoNotStray ==
  ASSUME ~Overlap
  PROVE  Spec => []NoStrayLoop
<1>1. PhaseInv => NoStrayLoop
  <2> SUFFICES ASSUME PhaseInv, NEW t \in Loops,
                      at[t] \in {"running", "woken"} \cup Disconnecting
               PROVE  t[2] = made
    BY DEF NoStrayLoop
  <2>1. PICK g \in Conns : t = W(g) \/ t = R(g)
    BY EveryLoop
  <2>2. g = made
    BY <2>1 DEF PhaseInv, OnlyLast, Over, Disconnecting
  <2> QED
    BY <2>1, <2>2, LoopFacts
<1> QED
  BY <1>1, PhaseInvariance, PTL

\* However the connection was taken down, and by how many at once, no socket is
\* open and no loop runs when all is quiet; nor, after a handshake that raised,
\* any but the socket of that connect().
THEOREM NothingIsLeftOpen ==
  ASSUME ~Overlap
  PROVE  Spec => []NothingLeftOpen
<1>1. TInv /\ PhaseInv => NothingLeftOpen
  <2> SUFFICES ASSUME TInv, PhaseInv, connState # "CONNECTED",
                      NobodyIn(Connecting \cup Disconnecting)
               PROVE  /\ \A g \in Conns : \/ stream[g] \in {"none", "closed"}
                                          \/ connState = "CONNECTING" /\ conn = g
                      /\ \A t \in Loops : at[t] \notin {"running", "woken"}
    BY DEF NothingLeftOpen
  <2>1. CASE connState = "DISCONNECTED"
    <3>1. NobodyIn(Disconnecting)
      BY DEF NobodyIn
    <3>2. \A g \in Conns : stream[g] \in Gone /\ at[W(g)] \in Over /\ at[R(g)] \in Over
      BY <2>1, <3>1 DEF PhaseInv, DisconnectedInv
    <3> QED
      BY <3>2, EveryLoop DEF Gone, Over
  <2>2. CASE connState = "CONNECTING"
    <3>1. conn = made /\ \A g \in Conns : at[W(g)] \in Over /\ at[R(g)] \in Over
      BY <2>2 DEF PhaseInv, ConnectingInv
    <3>2. \A g \in Conns : g # made => stream[g] \in Gone
      BY DEF PhaseInv, OnlyLast
    <3> QED
      BY <2>2, <3>1, <3>2, EveryLoop DEF Gone, Over
  <2> QED
    BY <2>1, <2>2, TInvParts DEF RestOK
<1> QED
  BY <1>1, TInvariance, PhaseInvariance, PTL

(***************************************************************************)
(* The write queue                                                         *)
(***************************************************************************)

\* A stream that broke was reset.  A write loop that entered its loop leaves
\* nothing for its connection in the queue when it stops, unless the connection
\* was reset; one that stops while the client is connected had a reset.
Drained(g) ==
  peer[g] = "reset" \/ at[W(g)] = "running" \/ \A m \in Items(queue) : m.to # g

QueueInv ==
  /\ \A g \in Conns : stream[g] = "broken" => peer[g] = "reset"
  /\ \A g \in ran : at[W(g)] \notin {"none", "created"}
  /\ \A g \in ran : Drained(g)
  /\ connState = "CONNECTED" /\ at[W(made)] = "done" => peer[made] = "reset"

\* What was enqueued was enqueued for a connection there was, and what a
\* connection was handed was for it or an earlier one, which failed.
StaleInv ==
  /\ \A m \in Items(queue) : m.to <= made
  /\ \A g \in Conns : \A m \in Items(written[g]) :
       /\ g <= made /\ m.to <= g
       /\ m.to # g => m.to \notin ran \/ peer[m.to] = "reset"

\* No request the client accepted is lost, unless a connection was reset.
NoneLost ==
  (\A g \in Conns : peer[g] # "reset") =>
    \A n \in 1..sends : \/ \E m \in Items(queue) : m.n = n
                        \/ \E g \in Conns : \E m \in Items(written[g]) : m.n = n

CarriedInv == QueueInv /\ StaleInv /\ NoneLost

\* Steps that enqueue nothing and take nothing from the queue.
LEMMA QueueQuiet ==
  ASSUME TInv, CarriedInv,
         UNCHANGED <<queue, written, sends, ran>>,
         made' = made \/ made' = made + 1,
         \A g \in Conns : peer[g] = "reset" => peer'[g] = "reset",
         \A g \in Conns : stream'[g] = "broken" => stream[g] = "broken" \/ peer'[g] = "reset",
         \A g \in Conns : at[W(g)] \notin {"none", "created"} => at'[W(g)] \notin {"none", "created"},
         \A g \in Conns :
           at[W(g)] = "running" =>
             at'[W(g)] = "running" \/ Items(queue) = {} \/ peer'[g] = "reset",
         connState' = "CONNECTED" /\ at'[W(made')] = "done" => peer'[made'] = "reset"
  PROVE  CarriedInv'
<1>1. QueueInv'
  <2>1. \A g \in ran : Drained(g)'
    BY ItemTypes DEF CarriedInv, QueueInv, Drained
  <2> QED
    BY <2>1, ItemTypes DEF CarriedInv, QueueInv
<1>2. StaleInv'
  <2>1. \A m \in Items(queue) : m.to <= made'
    BY ItemTypes DEF CarriedInv, StaleInv, Conns
  <2>2. \A g \in Conns : g <= made => g <= made'
    BY ItemTypes DEF Conns
  <2> QED
    BY <2>1, <2>2, ItemTypes DEF CarriedInv, StaleInv
<1>3. NoneLost'
  BY DEF CarriedInv, NoneLost
<1> QED
  BY <1>1, <1>2, <1>3 DEF CarriedInv

\* The write loops stay where they are.
LEMMA WritersStay ==
  ASSUME TInv, CarriedInv, UNCHANGED <<queue, written, sends, ran, peer>>,
         made' = made \/ made' = made + 1,
         \A g \in Conns : at'[W(g)] = at[W(g)],
         \A g \in Conns : stream'[g] = "broken" => stream[g] = "broken",
         connState' = "CONNECTED" => connState = "CONNECTED" /\ made' = made /\ made \in Conns
  PROVE  CarriedInv'
<1>1. connState' = "CONNECTED" /\ at'[W(made')] = "done" => peer'[made'] = "reset"
  BY DEF CarriedInv, QueueInv
<1> QED
  BY <1>1, QueueQuiet

LEMMA CloseStream ==
  ASSUME HeldOK, NEW p \in Procs, Close(p), NEW g \in Conns
  PROVE  stream'[g] = stream[g] \/ stream'[g] \in {"closing", "closed"}
BY DEF Close, HeldOK

LEMMA BeginStream ==
  ASSUME TInv, NEW p \in Procs, NEW k, BeginDisconnect(p, k), NEW g \in Conns
  PROVE  stream'[g] = stream[g] \/ stream'[g] \in {"closing", "closed"}
<1>1. HeldOK
  BY TInvParts
<1>2. ASSUME NEW r, ReadTaskThenClose(p, r)
      PROVE  stream'[g] = stream[g] \/ stream'[g] \in {"closing", "closed"}
  BY <1>1, <1>2, CloseStream DEF ReadTaskThenClose, CancelAndAwait
<1> QED
  BY <1>2 DEF BeginDisconnect, CancelAndAwait

LEMMA EndStream ==
  ASSUME TInv, NEW p \in Procs, DisconnectStep(p), NEW g \in Conns
  PROVE  stream'[g] = stream[g] \/ stream'[g] \in {"closing", "closed"}
<1>1. HeldOK
  BY TInvParts
<1>2. ASSUME NEW r, ReadTaskThenClose(p, r)
      PROVE  stream'[g] = stream[g] \/ stream'[g] \in {"closing", "closed"}
  BY <1>1, <1>2, CloseStream DEF ReadTaskThenClose, CancelAndAwait
<1>3. CASE WriteTaskEnded(p)
  BY <1>2, <1>3 DEF WriteTaskEnded
<1>4. CASE ReadTaskEnded(p)
  BY <1>1, <1>4, CloseStream DEF ReadTaskEnded
<1>5. CASE Closed(p) \/ Abort(p)
  BY <1>5 DEF Closed, Abort, net
<1> QED
  BY <1>3, <1>4, <1>5 DEF DisconnectStep

\* A write loop at work is the last connection's, which is in use; if it is not
\* cancelled the client is connected.
LEMMA AtWork ==
  ASSUME TInv, PhaseInv, NEW g \in Conns, at[W(g)] \in {"created", "running"}
  PROVE  /\ g = made /\ stream[g] \in InUse
         /\ W(g) \in cancelled => connState = "DISCONNECTED"
         /\ W(g) \notin cancelled => connState = "CONNECTED" /\ conn = made
<1>1. at[W(g)] \notin Over
  BY DEF Over
<1>2. g = made
  BY <1>1 DEF PhaseInv, OnlyLast
<1>3. connState # "CONNECTING"
  BY <1>1 DEF PhaseInv, ConnectingInv
<1>4. CASE connState = "CONNECTED"
  BY <1>2, <1>4 DEF PhaseInv, ConnectedInv
<1>5. CASE connState = "DISCONNECTED"
  <2>1. PICK p \in Procs : at[p] \in Disconnecting
    BY <1>1, <1>5 DEF PhaseInv, DisconnectedInv, NobodyIn
  <2>2. p # W(g)
    BY <2>1 DEF Disconnecting
  <2>3. at[p] = "d_write" \/ at[p] = "d_read" \/ at[p] = "d_close"
    BY <2>1 DEF Disconnecting
  <2>4. at[p] = "d_write"
    BY <1>1, <1>2, <2>1, <2>2, <2>3 DEF PhaseInv, DisconnectingInv, AwaitsRead, AwaitsClose
  <2>5. AwaitsWrite(p)
    BY <2>1, <2>4 DEF PhaseInv, DisconnectingInv
  <2> QED
    BY <1>2, <1>5, <2>5 DEF AwaitsWrite
<1> QED
  BY <1>3, <1>4, <1>5, TInvParts DEF RestOK

LEMMA QuietUsers ==
  ASSUME TInv, PhaseInv, CarriedInv, NEW u \in Users,
         \/ Connect(u) \/ Create(u) \/ Disconnect(u)
         \/ OpenFails(u) \/ Opened(u) \/ HandshakeEof(u) \/ HandshakeRaises(u)
         \/ GotId(u) \/ NoId(u)
  PROVE  CarriedInv'
<1>0. /\ u \in Procs /\ AtOK /\ HeldOK /\ RestOK
      /\ \A g \in Conns : W(g) \in Procs /\ W(g) # u
  BY TInvParts, LoopFacts DEF Procs
<1>1. UNCHANGED <<queue, written, sends, ran, peer>>
  BY DEF Connect, Create, OpenConnection, Disconnect, OpenFails, Opened, HandshakeEof,
         HandshakeRaises, GotId, NoId, net, out
<1>2. connState = "CONNECTED" => made \in Conns
  BY <1>0 DEF PhaseInv, ConnectedInv, RestOK, None, Conns
<1>3. CASE Disconnect(u) \/ HandshakeEof(u) \/ NoId(u)
  <2>1. PICK k : BeginDisconnect(u, k)
    BY <1>3 DEF Disconnect, HandshakeEof, NoId
  <2>2. made' = made /\ connState' = "DISCONNECTED"
    BY <1>3, <2>1 DEF Disconnect, HandshakeEof, NoId, BeginDisconnect
  <2>3. \A g \in Conns : at'[W(g)] = at[W(g)]
    BY <1>0, <2>1, BeginMoves
  <2>4. \A g \in Conns : stream'[g] = "broken" => stream[g] = "broken"
    BY <1>0, <2>1, BeginStream
  <2> QED
    BY <1>1, <2>2, <2>3, <2>4, WritersStay
<1>4. CASE ~(Disconnect(u) \/ HandshakeEof(u) \/ NoId(u))
  <2>1. \A g \in Conns : at'[W(g)] = at[W(g)]
    BY <1>0, <1>4
       DEF Connect, Create, OpenConnection, OpenFails, Opened, HandshakeRaises, GotId, AtOK
  <2>2. \A g \in Conns : stream'[g] = "broken" => stream[g] = "broken"
    BY <1>0, <1>4
       DEF Connect, Create, OpenConnection, OpenFails, Opened, HandshakeRaises, GotId, net, HeldOK
  <2>3. made' = made \/ made' = made + 1
    BY <1>4 DEF Connect, Create, OpenConnection, OpenFails, Opened, HandshakeRaises, GotId
  <2>4. connState' = "CONNECTED" => connState = "CONNECTED" /\ made' = made
    BY <1>4 DEF Connect, Create, OpenConnection, OpenFails, Opened, HandshakeRaises, GotId
  <2> QED
    BY <1>1, <1>2, <2>1, <2>2, <2>3, <2>4, WritersStay
<1> QED
  BY <1>3, <1>4

LEMMA QuietDisconnects ==
  ASSUME TInv, PhaseInv, CarriedInv, NEW p \in Procs, DisconnectStep(p)
  PROVE  CarriedInv'
<1>0. AtOK /\ ThenOK /\ HeldOK /\ RestOK /\ \A g \in Conns : W(g) \in Procs
  BY TInvParts, LoopFacts
<1>1. /\ at[p] \in Disconnecting
      /\ \A q \in Procs \ {p} : at'[q] = at[q]
      /\ at'[p] \in {then[p], "done"} \cup Disconnecting
  BY DisconnectStepMoves
<1>2. ~Abort(p) /\ connState = "DISCONNECTED"
  BY <1>1 DEF PhaseInv, DisconnectingInv, AwaitsClose, Abort, Disconnecting
<1>3. UNCHANGED <<queue, written, sends, ran, peer, made>> /\ connState' = "DISCONNECTED"
  BY <1>2 DEF DisconnectStep, WriteTaskEnded, ReadTaskEnded, Closed, ResetIfOver, net, out
<1>4. \A g \in Conns :
        /\ at[W(g)] \notin {"none", "created"} => at'[W(g)] \notin {"none", "created"}
        /\ at[W(g)] = "running" => at'[W(g)] = "running"
  <2> SUFFICES ASSUME NEW g \in Conns, W(g) = p
               PROVE  at'[p] \notin {"none", "created"} /\ at[p] # "running"
    BY <1>0, <1>1
  <2>1. then[p] = "done"
    BY PlaceFacts, <1>0 DEF ThenOK
  <2> QED
    BY <1>1, <2>1 DEF Disconnecting
<1>5. \A g \in Conns : stream'[g] = "broken" => stream[g] = "broken"
  BY EndStream
<1> QED
  BY <1>3, <1>4, <1>5, QueueQuiet

LEMMA QuietLoops ==
  ASSUME TInv, PhaseInv, CarriedInv, NEW g \in Conns,
         \/ ReadStep(g) \/ Wake(g)
         \/ EndCancelled(W(g)) \/ LeaveLoop(g) \/ Flushed(g)
  PROVE  CarriedInv'
<1> USE DEF net, out
<1>0. /\ AtOK /\ ThenOK /\ HeldOK /\ RestOK
      /\ W(g) \in Procs /\ R(g) \in Procs
      /\ \A h \in Conns : W(h) \in Procs /\ W(h) # R(g) /\ (W(h) = W(g) => h = g)
  BY TInvParts, LoopFacts
<1>1. connState = "CONNECTED" => made \in Conns
  BY <1>0 DEF PhaseInv, ConnectedInv, RestOK, None, Conns
<1>2. CASE ReadFails(g)
  <2>1. /\ BeginDisconnect(R(g), "done") /\ made' = made /\ connState' = "DISCONNECTED"
        /\ UNCHANGED <<queue, written, sends, ran, peer>>
    BY <1>2 DEF ReadFails, BeginDisconnect
  <2>2. \A h \in Conns : at'[W(h)] = at[W(h)]
    BY <1>0, <2>1, BeginMoves
  <2>3. \A h \in Conns : stream'[h] = "broken" => stream[h] = "broken"
    BY <1>0, <2>1, BeginStream
  <2> QED
    BY <2>1, <2>2, <2>3, WritersStay
<1>3. CASE StartReading(g) \/ Dispatch(g) \/ EndCancelled(R(g)) \/ Wake(g)
  <2>1. /\ UNCHANGED <<queue, written, sends, ran, peer, made, stream, connState>>
        /\ \A h \in Conns : at'[W(h)] = at[W(h)]
    BY <1>0, <1>3 DEF StartReading, Dispatch, EndCancelled, Wake, AtOK
  <2> QED
    BY <1>1, <2>1, WritersStay
<1>4. CASE EndCancelled(W(g)) \/ LeaveLoop(g) \/ Flushed(g)
  <2>1. /\ UNCHANGED <<queue, written, sends, ran, peer, made, stream, connState>>
        /\ \A h \in Conns : at'[W(h)] = IF h = g THEN "done" ELSE at[W(h)]
    BY <1>0, <1>4 DEF EndCancelled, LeaveLoop, Flushed, AtOK
  <2>2. at[W(g)] = "running" => Items(queue) = {}
    BY <1>0, <1>4, NoItems, LoopFacts DEF EndCancelled, LeaveLoop, Flushed
  <2>3. connState = "CONNECTED" /\ at'[W(made)] = "done" => peer[made] = "reset"
    <3> SUFFICES ASSUME connState = "CONNECTED", made = g
                 PROVE  peer[made] = "reset"
      BY <1>1, <2>1 DEF CarriedInv, QueueInv
    <3>1. cancelled = {} /\ at[W(g)] # "flushing" /\ conn = made /\ stream[made] \in InUse
          /\ made # None
      BY DEF PhaseInv, ConnectedInv
    <3>2. LeaveLoop(g)
      BY <1>4, <3>1 DEF EndCancelled, Flushed
    <3>3. stream[made] = "broken"
      BY <3>1, <3>2 DEF LeaveLoop, IsConnected, StreamIsConnected, InUse
    <3> QED
      BY <3>3 DEF CarriedInv, QueueInv
  <2> QED
    BY <2>1, <2>2, <2>3, QueueQuiet
<1> QED
  BY <1>2, <1>3, <1>4 DEF ReadStep

LEMMA QuietNetwork ==
  ASSUME TInv, PhaseInv, CarriedInv, NEW g \in Conns,
         ServerCloses(g) \/ StreamBreaks(g) \/ StreamCloses(g)
  PROVE  CarriedInv'
<1>0. HeldOK /\ RestOK
  BY TInvParts
<1>1. UNCHANGED <<queue, written, sends, ran, made, connState, at>>
  BY DEF ServerCloses, StreamBreaks, StreamCloses, out
<1>2. \A h \in Conns : peer[h] = "reset" => peer'[h] = "reset"
  BY <1>0 DEF ServerCloses, StreamBreaks, StreamCloses, RestOK
<1>3. \A h \in Conns : stream'[h] = "broken" => stream[h] = "broken" \/ peer'[h] = "reset"
  BY <1>0 DEF ServerCloses, StreamBreaks, StreamCloses, HeldOK, RestOK
<1>4. connState = "CONNECTED" => made \in Conns
  BY <1>0 DEF PhaseInv, ConnectedInv, RestOK, None, Conns
<1>5. connState = "CONNECTED" /\ at[W(made)] = "done" => peer'[made] = "reset"
  BY <1>2, <1>4 DEF CarriedInv, QueueInv
<1> QED
  BY <1>1, <1>2, <1>3, <1>5, QueueQuiet

\* Something is enqueued for the current connection: a request, which gets a
\* new number, or START_API, which has none.
LEMMA Enqueues ==
  ASSUME TInv, CarriedInv, NEW m \in Message,
         m.to = made, queue' = Append(queue, m),
         UNCHANGED <<written, ran, peer, made, stream>>,
         (m.n = 0 /\ sends' = sends) \/ (m.n = sends + 1 /\ sends' = sends + 1),
         \A g \in ran : at'[W(g)] = at[W(g)],
         made \in ran => peer[made] = "reset" \/ at[W(made)] = "running",
         connState' = "CONNECTED" /\ at'[W(made)] = "done" => peer[made] = "reset"
  PROVE  CarriedInv'
<1>0. Items(queue') = Items(queue) \cup {m}
  BY ItemTypes, AppendItems
<1>1. QueueInv'
  <2>1. ASSUME NEW g \in ran PROVE Drained(g)'
    BY <1>0, <2>1, ItemTypes DEF CarriedInv, QueueInv, Drained
  <2> QED
    BY <2>1, ItemTypes DEF CarriedInv, QueueInv
<1>2. StaleInv'
  BY <1>0, ItemTypes DEF CarriedInv, StaleInv
<1>3. NoneLost'
  <2> SUFFICES ASSUME \A g \in Conns : peer[g] # "reset", NEW n \in 1..sends'
               PROVE  \/ \E k \in Items(queue') : k.n = n
                      \/ \E g \in Conns : \E k \in Items(written[g]) : k.n = n
    BY DEF NoneLost
  <2>1. n \in 1..sends \/ n = m.n
    BY ItemTypes
  <2> QED
    BY <1>0, <2>1 DEF CarriedInv, NoneLost
<1> QED
  BY <1>1, <1>2, <1>3 DEF CarriedInv

LEMMA SendKeeps ==
  ASSUME TInv, PhaseInv, CarriedInv, NEW u \in Users, Send(u)
  PROVE  CarriedInv'
<1>1. /\ connState = "CONNECTED" /\ stream[conn] = "open" /\ sends < MaxSends
      /\ queue' = Append(queue, [to |-> conn, n |-> sends + 1]) /\ sends' = sends + 1
      /\ UNCHANGED <<connState, written, ran, peer, made, stream, at>>
  BY DEF Send, IsConnected, StreamIsConnected, net
<1>2. conn = made /\ made \in Conns /\ at[W(made)] \in {"created", "running", "done"}
  BY <1>1, TInvParts DEF PhaseInv, ConnectedInv, RestOK, None, Conns
<1>3. [to |-> made, n |-> sends + 1] \in Message
  <2>1. sends + 1 \in 0..MaxSends
    BY <1>1, ItemTypes, BoundsAssumption
  <2> QED
    BY <1>2, <2>1 DEF Message
<1>4. made \in ran => peer[made] = "reset" \/ at[W(made)] = "running"
  BY <1>1, <1>2 DEF CarriedInv, QueueInv
<1>5. connState' = "CONNECTED" /\ at'[W(made)] = "done" => peer[made] = "reset"
  BY <1>1 DEF CarriedInv, QueueInv
<1> QED
  BY <1>1, <1>2, <1>3, <1>4, <1>5, Enqueues

LEMMA StartApiKeeps ==
  ASSUME TInv, PhaseInv, CarriedInv, NEW u \in Users, HandshakeDone(u)
  PROVE  CarriedInv'
<1>0. AtOK /\ RestOK /\ u \in Procs
  BY TInvParts DEF Procs
<1>1. connState = "CONNECTING" /\ connState' = "CONNECTED"
  BY DEF HandshakeDone, PhaseInv, HandshakeInv
<1>2. conn = made /\ made \in Conns /\ at[W(made)] = "none" /\ conn # None
  BY <1>0, <1>1 DEF PhaseInv, ConnectingInv, RestOK, None, Conns
<1>3. made \notin ran
  BY <1>2 DEF CarriedInv, QueueInv
<1>4. \A g \in Conns : W(g) \in Procs /\ W(g) # u /\ W(g) # R(made) /\ (W(g) = W(made) => g = made)
  BY <1>2, LoopFacts
<1>5. \A g \in Conns : at'[W(g)] = IF g = made THEN "created" ELSE at[W(g)]
  BY <1>0, <1>2, <1>4 DEF HandshakeDone, AtOK
<1>6. UNCHANGED <<written, ran, peer, made, stream, sends>>
  BY DEF HandshakeDone, net
<1>7. CASE StreamIsConnected
  <2>1. StartApi(made) \in Message /\ StartApi(made).to = made /\ StartApi(made).n = 0
    BY <1>2, BoundsAssumption DEF StartApi, Message
  <2>2. queue' = Append(queue, StartApi(made))
    BY <1>2, <1>7 DEF HandshakeDone
  <2> QED
    <3>1. \A g \in ran : at'[W(g)] = at[W(g)]
      BY <1>3, <1>5, ItemTypes
    <3>2. at'[W(made)] = "created"
      BY <1>2, <1>5
    <3> HIDE DEF StartApi
    <3> QED
      BY <1>3, <1>6, <2>1, <2>2, <3>1, <3>2, Enqueues
<1>8. CASE ~StreamIsConnected
  <2>1. queue' = queue
    BY <1>8 DEF HandshakeDone
  <2>2. QueueInv'
    <3>1. \A g \in ran : Drained(g)'
      BY <1>3, <1>5, <1>6, <2>1, ItemTypes DEF CarriedInv, QueueInv, Drained
    <3> QED
      BY <1>2, <1>3, <1>5, <1>6, <3>1, ItemTypes DEF CarriedInv, QueueInv
  <2>3. StaleInv' /\ NoneLost'
    BY <1>6, <2>1 DEF CarriedInv, StaleInv, NoneLost
  <2> QED
    BY <2>2, <2>3 DEF CarriedInv
<1> QED
  BY <1>7, <1>8

\* The first step of a write loop: nothing older was written for its connection.
LEMMA StartWritingKeeps ==
  ASSUME TInv, PhaseInv, CarriedInv, NEW g \in Conns, StartWriting(g)
  PROVE  CarriedInv'
<1>0. AtOK /\ HeldOK /\ RestOK /\ \A h \in Conns : W(h) \in Procs /\ (W(h) = W(g) => h = g)
  BY TInvParts, LoopFacts
<1>1. /\ UNCHANGED <<queue, written, sends, peer, made, stream, connState>>
      /\ at[W(g)] = "created" /\ W(g) \notin cancelled
  BY DEF StartWriting, net
<1>2. g = made /\ conn = made /\ connState = "CONNECTED" /\ stream[g] \in InUse
  BY <1>1, AtWork
<1>3. \A h \in Conns : at'[W(h)] = IF h = g THEN (IF IsConnected THEN "running" ELSE "done")
                                   ELSE at[W(h)]
  BY <1>0, <1>2 DEF StartWriting, AtOK
<1>4. ~IsConnected => peer[g] = "reset"
  <2>1. ~IsConnected => stream[g] = "broken"
    BY <1>2 DEF IsConnected, StreamIsConnected, InUse, Conns, None
  <2> QED
    BY <2>1 DEF CarriedInv, QueueInv
<1>5. ran' = ran \cup {g}
  BY <1>2 DEF StartWriting
<1>6. QueueInv'
  <2>1. ASSUME NEW h \in ran' PROVE Drained(h)'
    BY <1>1, <1>3, <1>4, <1>5, <2>1, ItemTypes DEF CarriedInv, QueueInv, Drained
  <2>2. \A h \in ran' : at'[W(h)] \notin {"none", "created"}
    BY <1>3, <1>5, ItemTypes DEF CarriedInv, QueueInv
  <2> QED
    BY <1>1, <1>2, <1>3, <1>4, <2>1, <2>2 DEF CarriedInv, QueueInv
<1>7. StaleInv'
  <2>1. ASSUME NEW h \in Conns, NEW m \in Items(written[h]), m.to # h, m.to \in ran'
        PROVE  peer[m.to] = "reset"
    <3>1. h <= made /\ m.to <= h /\ m.to \in Conns
      BY ItemTypes DEF CarriedInv, StaleInv
    <3>2. m.to # g
      BY <1>2, <2>1, <3>1, ItemTypes DEF Conns
    <3> QED
      BY <1>5, <2>1, <3>2 DEF CarriedInv, StaleInv
  <2> QED
    BY <1>1, <2>1 DEF CarriedInv, StaleInv
<1>8. NoneLost'
  BY <1>1 DEF CarriedInv, NoneLost
<1> QED
  BY <1>6, <1>7, <1>8 DEF CarriedInv

\* A stale message in the queue, when the write loop of the current connection
\* takes it, is one of a connection that failed.
LEMMA TakenIsStale ==
  ASSUME TInv, PhaseInv, CarriedInv, at[W(made)] = "running", made \in Conns,
         NEW m \in Items(queue)
  PROVE  m.to <= made /\ (m.to # made => m.to \notin ran \/ peer[m.to] = "reset")
<1>1. m.to <= made /\ m.to \in Conns
  BY ItemTypes DEF CarriedInv, StaleInv
<1>2. ASSUME m.to # made, m.to \in ran
      PROVE  peer[m.to] = "reset"
  <2>1. Drained(m.to)
    BY <1>2 DEF CarriedInv, QueueInv
  <2>2. at[W(m.to)] # "running"
    BY <1>1, <1>2, AtWork
  <2> QED
    BY <2>1, <2>2 DEF Drained
<1> QED
  BY <1>1, <1>2

LEMMA WriteMessageKeeps ==
  ASSUME TInv, PhaseInv, CarriedInv, NEW g \in Conns, WriteMessage(g)
  PROVE  CarriedInv'
<1>0. AtOK /\ HeldOK /\ RestOK /\ \A h \in Conns : W(h) \in Procs /\ (W(h) = W(g) => h = g)
  BY TInvParts, LoopFacts
<1>1. /\ UNCHANGED <<sends, peer, made, stream, connState>>
      /\ at[W(g)] = "running" /\ queue # <<>> /\ stream[g] = "open"
      /\ queue' = Tail(queue) /\ written' = [written EXCEPT ![g] = Append(@, Head(queue))]
      /\ ran' = IF W(g) \in cancelled THEN ran \ {g} ELSE ran
  BY DEF WriteMessage, net
<1>2. /\ g = made
      /\ W(g) \in cancelled => connState = "DISCONNECTED"
      /\ W(g) \notin cancelled => connState = "CONNECTED" /\ conn = made
  BY <1>1, AtWork
<1>3. \A h \in Conns : at'[W(h)] = IF h = g THEN (IF IsConnected THEN "running" ELSE "done")
                                   ELSE at[W(h)]
  BY <1>0 DEF WriteMessage, AtOK
<1>4. W(g) \notin cancelled => IsConnected
  BY <1>1, <1>2 DEF IsConnected, StreamIsConnected, Conns, None
<1>5. Head(queue) \in Message /\ Items(queue) = Items(queue') \cup {Head(queue)}
  BY <1>1, ItemTypes, TailItems
<1>6. \A h \in Conns : Items(written'[h]) = IF h = g THEN Items(written[h]) \cup {Head(queue)}
                                            ELSE Items(written[h])
  <2>1. \A h \in Conns : written'[h] = IF h = g THEN Append(written[h], Head(queue)) ELSE written[h]
    BY <1>0, <1>1 DEF RestOK
  <2>2. Items(Append(written[g], Head(queue))) = Items(written[g]) \cup {Head(queue)}
    BY <1>5, ItemTypes, AppendItems
  <2> QED
    BY <2>1, <2>2
<1>7. ran' \subseteq ran
  BY <1>1
<1>8. QueueInv'
  <2>1. ASSUME NEW h \in ran' PROVE Drained(h)' /\ at'[W(h)] \notin {"none", "created"}
    <3>1. h \in ran /\ h \in Conns /\ (h = g => at'[W(h)] = "running")
      BY <1>1, <1>3, <1>4, <2>1, ItemTypes
    <3> QED
      BY <1>1, <1>3, <1>5, <3>1 DEF CarriedInv, QueueInv, Drained
  <2>2. connState = "CONNECTED" => at'[W(made)] = "running"
    BY <1>2, <1>3, <1>4
  <2> QED
    BY <1>1, <2>1, <2>2 DEF CarriedInv, QueueInv
<1>9. StaleInv'
  <2>1. \A m \in Items(queue') : m.to <= made
    BY <1>5 DEF CarriedInv, StaleInv
  <2>2. /\ Head(queue).to <= made
        /\ Head(queue).to # made => Head(queue).to \notin ran \/ peer[Head(queue).to] = "reset"
    BY <1>1, <1>2, <1>5, TakenIsStale
  <2>3. made <= made
    BY ItemTypes
  <2>4. ASSUME NEW h \in Conns, NEW m \in Items(written'[h])
        PROVE  /\ h <= made /\ m.to <= h
               /\ m.to # h => m.to \notin ran' \/ peer[m.to] = "reset"
    <3>1. CASE m \in Items(written[h])
      BY <1>7, <3>1 DEF CarriedInv, StaleInv
    <3>2. CASE h = g /\ m = Head(queue)
      BY <1>2, <1>7, <2>2, <2>3, <3>2
    <3> QED
      BY <1>6, <2>4, <3>1, <3>2
  <2> QED
    BY <1>1, <2>1, <2>4 DEF StaleInv
<1>10. NoneLost'
  <2> SUFFICES ASSUME \A h \in Conns : peer[h] # "reset", NEW n \in 1..sends
               PROVE  \/ \E m \in Items(queue') : m.n = n
                      \/ \E h \in Conns : \E m \in Items(written'[h]) : m.n = n
    BY <1>1 DEF NoneLost
  <2>1. CASE \E m \in Items(queue) : m.n = n
    <3>1. PICK m \in Items(queue) : m.n = n
      BY <2>1
    <3>2. m \in Items(queue') \/ m \in Items(written'[g])
      BY <1>5, <1>6
    <3> QED
      BY <3>1, <3>2
  <2>2. CASE \E h \in Conns : \E m \in Items(written[h]) : m.n = n
    BY <1>6, <2>2
  <2> QED
    BY <2>1, <2>2 DEF CarriedInv, NoneLost
<1> QED
  BY <1>8, <1>9, <1>10 DEF CarriedInv

\* The queue loses its head, or all of it, to a stream that was reset.
LEMMA Loses ==
  ASSUME TInv, CarriedInv, NEW g \in Conns, peer[g] = "reset",
         Items(queue') \subseteq Items(queue),
         UNCHANGED <<written, sends, ran, peer, made>>,
         \A h \in Conns : stream'[h] = "broken" => stream[h] = "broken",
         \A h \in Conns \ {g} : at'[W(h)] = at[W(h)],
         at'[W(g)] \notin {"none", "created"},
         connState' # "CONNECTED"
  PROVE  CarriedInv'
<1>1. QueueInv'
  <2>1. \A h \in ran : Drained(h)'
    BY ItemTypes DEF CarriedInv, QueueInv, Drained
  <2> QED
    BY <2>1, ItemTypes DEF CarriedInv, QueueInv
<1>2. StaleInv'
  BY DEF CarriedInv, StaleInv
<1>3. NoneLost'
  BY DEF CarriedInv, NoneLost
<1> QED
  BY <1>1, <1>2, <1>3 DEF CarriedInv

LEMMA WriteFailsKeeps ==
  ASSUME TInv, PhaseInv, CarriedInv, NEW g \in Conns, WriteFails(g)
  PROVE  CarriedInv'
<1>0. W(g) \in Procs /\ \A h \in Conns : W(h) \in Procs /\ (W(h) = W(g) => h = g)
  BY LoopFacts
<1>1. /\ at[W(g)] = "running" /\ stream[g] # "open"
      /\ queue' = queue \/ (queue # <<>> /\ queue' = Tail(queue))
      /\ BeginDisconnect(W(g), "done")
      /\ UNCHANGED <<written, sends, ran, peer, made>>
  BY DEF WriteFails
<1>2. stream[g] = "broken"
  BY <1>1, AtWork DEF InUse
<1>3. peer[g] = "reset"
  BY <1>2 DEF CarriedInv, QueueInv
<1>4. Items(queue') \subseteq Items(queue)
  BY <1>1, ItemTypes, TailItems
<1>5. connState' = "DISCONNECTED"
  BY <1>1 DEF BeginDisconnect
<1>6. /\ \A h \in Conns \ {g} : at'[W(h)] = at[W(h)]
      /\ at'[W(g)] \in {"done"} \cup Disconnecting
  BY <1>0, <1>1, BeginMoves
<1>7. at'[W(g)] \notin {"none", "created"}
  BY <1>6 DEF Disconnecting
<1>8. \A h \in Conns : stream'[h] = "broken" => stream[h] = "broken"
  BY <1>0, <1>1, BeginStream
<1> QED
  BY <1>1, <1>3, <1>4, <1>5, <1>6, <1>7, <1>8, Loses

LEMMA FlushKeeps ==
  ASSUME TInv, PhaseInv, CarriedInv, NEW g \in Conns, Flush(g)
  PROVE  CarriedInv'
<1>0. AtOK /\ HeldOK /\ RestOK /\ \A h \in Conns : W(h) \in Procs /\ (W(h) = W(g) => h = g)
  BY TInvParts, LoopFacts
<1>1. /\ UNCHANGED <<sends, peer, made, stream, connState, ran>>
      /\ at[W(g)] = "running" /\ W(g) \in cancelled /\ queue' = <<>>
  BY DEF Flush, net
<1>2. g = made /\ connState = "DISCONNECTED" /\ stream[g] \in InUse
  BY <1>1, AtWork
<1>3. Items(queue') = {}
  BY <1>1, NoItems
<1>4. CASE stream[g] # "open"
  <2>1. peer[g] = "reset"
    BY <1>2, <1>4 DEF CarriedInv, QueueInv, InUse
  <2>2. at' = [at EXCEPT ![W(g)] = "done"] /\ written' = written
    BY <1>4 DEF Flush
  <2>3. \A h \in Conns : at'[W(h)] = IF h = g THEN "done" ELSE at[W(h)]
    BY <1>0, <2>2 DEF AtOK
  <2> QED
    BY <1>1, <1>2, <1>3, <2>1, <2>2, <2>3, Loses
<1>5. CASE stream[g] = "open"
  <2>1. at' = [at EXCEPT ![W(g)] = "flushing"] /\ written' = [written EXCEPT ![g] = @ \o queue]
    BY <1>5 DEF Flush
  <2>2. \A h \in Conns : at'[W(h)] = IF h = g THEN "flushing" ELSE at[W(h)]
    BY <1>0, <2>1 DEF AtOK
  <2>3. \A h \in Conns : Items(written'[h]) = IF h = g THEN Items(written[h]) \cup Items(queue)
                                              ELSE Items(written[h])
    <3>1. \A h \in Conns : written'[h] = IF h = g THEN written[h] \o queue ELSE written[h]
      BY <1>0, <2>1 DEF RestOK
    <3>2. Items(written[g] \o queue) = Items(written[g]) \cup Items(queue)
      BY ItemTypes, ConcatItems
    <3> QED
      BY <3>1, <3>2
  <2>4. QueueInv'
    <3>1. \A h \in ran : Drained(h)'
      BY <1>1, <1>3 DEF Drained
    <3> QED
      BY <1>1, <1>2, <2>2, <3>1, ItemTypes DEF CarriedInv, QueueInv
  <2>5. StaleInv'
    <3>1. \A m \in Items(queue) :
            m.to <= made /\ (m.to # made => m.to \notin ran \/ peer[m.to] = "reset")
      BY <1>1, <1>2, TakenIsStale
    <3>2. made <= made
      BY ItemTypes
    <3>3. ASSUME NEW h \in Conns, NEW m \in Items(written'[h])
          PROVE  /\ h <= made /\ m.to <= h
                 /\ m.to # h => m.to \notin ran \/ peer[m.to] = "reset"
      <4>1. CASE m \in Items(written[h])
        BY <4>1 DEF CarriedInv, StaleInv
      <4>2. CASE h = g /\ m \in Items(queue)
        BY <1>2, <3>1, <3>2, <4>2
      <4> QED
        BY <2>3, <3>3, <4>1, <4>2
    <3> QED
      BY <1>1, <1>3, <3>3 DEF StaleInv
  <2>6. NoneLost'
    <3> SUFFICES ASSUME \A h \in Conns : peer[h] # "reset", NEW n \in 1..sends
                 PROVE  \E h \in Conns : \E m \in Items(written'[h]) : m.n = n
      BY <1>1 DEF NoneLost
    <3>1. CASE \E m \in Items(queue) : m.n = n
      BY <2>3, <3>1
    <3>2. CASE \E h \in Conns : \E m \in Items(written[h]) : m.n = n
      BY <2>3, <3>2
    <3> QED
      BY <3>1, <3>2 DEF CarriedInv, NoneLost
  <2> QED
    BY <2>4, <2>5, <2>6 DEF CarriedInv
<1> QED
  BY <1>4, <1>5

LEMMA StepCarried ==
  ASSUME TInv, PhaseInv, CarriedInv, [Next]_vars
  PROVE  CarriedInv'
<1>1. CASE UNCHANGED vars
  <2>1. UNCHANGED <<queue, written, sends, ran, peer, made, stream, connState, at>>
    BY <1>1 DEF vars, net, out
  <2>2. connState = "CONNECTED" => made \in Conns
    BY TInvParts DEF PhaseInv, ConnectedInv, RestOK, None, Conns
  <2> QED
    BY <2>1, <2>2, WritersStay
<1>2. ASSUME NEW u \in Users, CallStep(u)
      PROVE  CarriedInv'
  BY <1>2, QuietUsers, StartApiKeeps DEF CallStep, DroppedBeforeId, CreateTimeout
<1>3. ASSUME NEW g \in Conns, WriteStep(g)
      PROVE  CarriedInv'
  BY <1>3, QuietLoops, StartWritingKeeps, WriteMessageKeeps, WriteFailsKeeps, FlushKeeps
     DEF WriteStep
<1> QED
  BY <1>1, <1>2, <1>3, QuietUsers, QuietDisconnects, QuietLoops, QuietNetwork, SendKeeps DEF Next

LEMMA InitCarried == Init => CarriedInv
<1> SUFFICES ASSUME Init PROVE CarriedInv
  OBVIOUS
<1>1. /\ queue = <<>> /\ ran = {} /\ sends = 0 /\ connState = "DISCONNECTED"
      /\ \A g \in Conns : written[g] = <<>> /\ stream[g] = "none"
  BY DEF Init
<1>2. QueueInv
  BY <1>1 DEF QueueInv
<1>3. StaleInv
  BY <1>1, NoItems DEF StaleInv
<1>4. NoneLost
  BY <1>1, NoItems DEF NoneLost
<1> QED
  BY <1>2, <1>3, <1>4 DEF CarriedInv

LEMMA CarriedInvariance ==
  ASSUME ~Overlap
  PROVE  Spec => [](TInv /\ PhaseInv /\ CarriedInv)
<1>1. TInv /\ PhaseInv /\ CarriedInv /\ [Next]_vars => CarriedInv'
  BY StepCarried
<1> QED
  BY <1>1, InitCarried, TInvariance, PhaseInvariance, PTL DEF Spec

\* A disconnect() of a connection that was not reset, whose write loop ran and
\* did not forget its cancellation, leaves nothing in the queue for it.
THEOREM QueueIsFlushed ==
  ASSUME ~Overlap
  PROVE  Spec => []FlushedBeforeClose
<1>1. TInv /\ PhaseInv /\ CarriedInv => FlushedBeforeClose
  <2> SUFFICES ASSUME TInv, PhaseInv, CarriedInv, NEW g \in ran,
                      stream[g] \in {"closing", "closed"}, peer[g] # "reset",
                      NEW i \in 1..Len(queue)
               PROVE  queue[i].to # g
    BY DEF FlushedBeforeClose
  <2>1. g \in Conns /\ Drained(g)
    BY ItemTypes DEF CarriedInv, QueueInv
  <2>2. at[W(g)] # "running"
    BY <2>1, AtWork DEF InUse
  <2>3. queue[i] \in Items(queue)
    BY DEF Items
  <2> QED
    BY <2>1, <2>2, <2>3 DEF Drained
<1> QED
  BY <1>1, CarriedInvariance, PTL

\* What goes out on a connection it was not meant for was left by one that was
\* reset, or whose write loop never ran or forgot its cancellation.
THEOREM StaleComesOfFailure ==
  ASSUME ~Overlap
  PROVE  Spec => []StaleOnlyAfterFailure
<1>1. CarriedInv => StaleOnlyAfterFailure
  BY DEF StaleOnlyAfterFailure, CarriedInv, StaleInv, Items
<1> QED
  BY <1>1, CarriedInvariance, PTL

\* A request the client accepted goes out at most once, over any number of
\* connections, and none is lost unless a connection was reset.
THEOREM RequestsAreSentOnce ==
  ASSUME ~Overlap
  PROVE  Spec => []SentOnce
<1>1. TInv /\ OrderInv /\ CarriedInv => SentOnce
  <2> SUFFICES ASSUME TInv, OrderInv, CarriedInv, NEW n \in 1..sends
               PROVE  LET places == UNION {{<<g, i>> : i \in {j \in 1..Len(written[g]) :
                                                              written[g][j].n = n}} : g \in Conns}
                          queued == {i \in 1..Len(queue) : queue[i].n = n}
                      IN \/ Cardinality(places) + Cardinality(queued) = 1
                         \/ places = {} /\ queued = {} /\ \E g \in Conns : peer[g] = "reset"
    BY DEF SentOnce
  <2> DEFINE places == UNION {{<<g, i>> : i \in {j \in 1..Len(written[g]) :
                                                 written[g][j].n = n}} : g \in Conns}
             queued == {i \in 1..Len(queue) : queue[i].n = n}
  <2>1. n # 0
    BY ItemTypes
  <2>2. \A p \in places : \E g \in Conns, i \in Nat :
          /\ p = <<g, i>> /\ i \in 1..Len(written[g])
          /\ written[g][i].n = n /\ written[g][i] \in Items(written[g])
    BY DEF Items
  <2>3. \A i \in queued : queue[i] \in Items(queue) /\ queue[i].n = n
    BY DEF Items
  <2>4. CASE queued # {}
    <3>1. PICK i \in queued : TRUE
      BY <2>4
    <3>2. \A j \in queued : j = i
      BY <2>1, <3>1, NumberedOnce
    <3>3. queued = {i}
      BY <3>1, <3>2
    <3>4. places = {}
      <4> SUFFICES ASSUME NEW p \in places PROVE FALSE
        OBVIOUS
      <4>1. PICK g \in Conns, j \in Nat :
              written[g][j].n = n /\ written[g][j] \in Items(written[g])
        BY <2>2
      <4>2. queue[i] \in Items(queue) /\ queue[i].n = n
        BY <2>3, <3>1
      <4> QED
        BY <2>1, <4>1, <4>2, NumberedOnce
    <3> HIDE DEF places, queued
    <3>5. Cardinality(queued) = 1 /\ Cardinality(places) = 0
      BY <3>3, <3>4, FS_Singleton, FS_EmptySet
    <3> QED
      BY <3>5 DEF places, queued
  <2>5. CASE queued = {} /\ places # {}
    <3>1. PICK p \in places : TRUE
      BY <2>5
    <3>2. \A q \in places : q = p
      <4> SUFFICES ASSUME NEW q \in places PROVE q = p
        OBVIOUS
      <4>1. PICK g \in Conns, i \in Nat :
              /\ p = <<g, i>> /\ i \in 1..Len(written[g])
              /\ written[g][i].n = n /\ written[g][i] \in Items(written[g])
        BY <2>2, <3>1
      <4>2. PICK h \in Conns, j \in Nat :
              /\ q = <<h, j>> /\ j \in 1..Len(written[h])
              /\ written[h][j].n = n /\ written[h][j] \in Items(written[h])
        BY <2>2
      <4>3. g = h
        BY <2>1, <4>1, <4>2, NumberedOnce
      <4>4. i = j
        BY <2>1, <4>1, <4>2, <4>3, NumberedOnce
      <4> QED
        BY <4>1, <4>2, <4>3, <4>4
    <3>3. places = {p}
      BY <3>1, <3>2
    <3> HIDE DEF places, queued
    <3>4. Cardinality(queued) = 0 /\ Cardinality(places) = 1
      BY <2>5, <3>3, FS_Singleton, FS_EmptySet
    <3> QED
      BY <3>4 DEF places, queued
  <2>6. CASE queued = {} /\ places = {}
    <3>1. ~ \E m \in Items(queue) : m.n = n
      BY <2>6 DEF Items
    <3>2. ~ \E g \in Conns : \E m \in Items(written[g]) : m.n = n
      <4> SUFFICES ASSUME NEW g \in Conns, NEW m \in Items(written[g]), m.n = n PROVE FALSE
        OBVIOUS
      <4>1. PICK i \in 1..Len(written[g]) : m = written[g][i]
        BY DEF Items
      <4>2. <<g, i>> \in places
        BY <4>1
      <4> QED
        BY <2>6, <4>2
    <3> QED
      BY <2>6, <3>1, <3>2 DEF CarriedInv, NoneLost
  <2> QED
    BY <2>4, <2>5, <2>6
<1> QED
  BY <1>1, OrderInvariance, CarriedInvariance, PTL

(***************************************************************************)
(* Order over connections                                                  *)
(***************************************************************************)

\* A connection is handed nothing older than what an earlier one was handed.
InTurn == \A g, h \in Conns : g < h => Before(Items(written[g]), Items(written[h]))

\* Transports are handed what is in the queue, by a write loop at work.
LEMMA WrittenBy ==
  ASSUME TInv, [Next]_vars
  PROVE  \/ written' = written
         \/ \E g \in Conns :
              /\ at[W(g)] = "running"
              /\ Items(written'[g]) \subseteq Items(written[g]) \cup Items(queue)
              /\ \A h \in Conns \ {g} : written'[h] = written[h]
<1>1. CASE UNCHANGED vars
  BY <1>1 DEF vars, out
<1>2. ASSUME NEW p \in Procs, DisconnectStep(p)
      PROVE  written' = written
  BY <1>2 DEF DisconnectStep, WriteTaskEnded, ReadTaskEnded, Closed, Abort, out
<1>3. ASSUME NEW u \in Users, Connect(u) \/ Create(u) \/ Disconnect(u) \/ Send(u) \/ CallStep(u)
      PROVE  written' = written
  BY <1>3 DEF CallStep, OpenFails, Opened, HandshakeDone, HandshakeEof, HandshakeRaises, GotId,
              DroppedBeforeId, CreateTimeout, NoId, Connect, Create, OpenConnection,
              Disconnect, Send, out
<1>4. ASSUME NEW g \in Conns, \/ ReadStep(g) \/ Wake(g)
                              \/ ServerCloses(g) \/ StreamBreaks(g) \/ StreamCloses(g)
                              \/ StartWriting(g) \/ WriteFails(g) \/ Flushed(g)
                              \/ EndCancelled(W(g)) \/ LeaveLoop(g)
      PROVE  written' = written
  BY <1>4 DEF ReadStep, StartReading, Dispatch, ReadFails, EndCancelled, Wake, ServerCloses,
              StreamBreaks, StreamCloses, StartWriting, WriteFails, Flushed, LeaveLoop, out
<1>5. ASSUME NEW g \in Conns, WriteMessage(g)
      PROVE  /\ at[W(g)] = "running"
             /\ Items(written'[g]) \subseteq Items(written[g]) \cup Items(queue)
             /\ \A h \in Conns \ {g} : written'[h] = written[h]
  <2>1. /\ at[W(g)] = "running" /\ queue # <<>>
        /\ \A h \in Conns : written'[h] = IF h = g THEN Append(written[g], Head(queue))
                                          ELSE written[h]
    BY <1>5, TInvParts DEF WriteMessage, RestOK
  <2>2. Head(queue) \in Message /\ Head(queue) \in Items(queue)
    BY <2>1, ItemTypes, TailItems
  <2>3. Items(written'[g]) = Items(written[g]) \cup {Head(queue)}
    BY <2>1, <2>2, ItemTypes, AppendItems
  <2> QED
    BY <2>1, <2>2, <2>3
<1>6. ASSUME NEW g \in Conns, Flush(g), written' # written
      PROVE  /\ at[W(g)] = "running"
             /\ Items(written'[g]) \subseteq Items(written[g]) \cup Items(queue)
             /\ \A h \in Conns \ {g} : written'[h] = written[h]
  <2>1. /\ at[W(g)] = "running"
        /\ \A h \in Conns : written'[h] = IF h = g THEN written[g] \o queue ELSE written[h]
    BY <1>6, TInvParts DEF Flush, RestOK
  <2>2. Items(written'[g]) = Items(written[g]) \cup Items(queue)
    BY <2>1, ItemTypes, ConcatItems
  <2> QED
    BY <2>1, <2>2
<1> QED
  BY <1>1, <1>2, <1>3, <1>4, <1>5, <1>6 DEF Next, WriteStep

LEMMA StepInTurn ==
  ASSUME TInv, OrderInv, PhaseInv, CarriedInv, InTurn, [Next]_vars
  PROVE  InTurn'
<1>1. CASE written' = written
  BY <1>1 DEF InTurn
<1>2. ASSUME NEW g \in Conns, at[W(g)] = "running",
             Items(written'[g]) \subseteq Items(written[g]) \cup Items(queue),
             \A h \in Conns \ {g} : written'[h] = written[h]
      PROVE  InTurn'
  <2>1. g = made
    BY <1>2, AtWork
  <2>2. ASSUME NEW h \in Conns, h < g
        PROVE  Before(Items(written'[h]), Items(written'[g]))
    <3>1. h # g
      BY <2>2 DEF Conns
    <3>2. Before(Items(written[h]), Items(queue)) /\ Before(Items(written[h]), Items(written[g]))
      BY <2>2 DEF OrderInv, InTurn
    <3> QED
      BY <1>2, <3>1, <3>2 DEF Before
  <2>3. ASSUME NEW h \in Conns, g < h
        PROVE  Items(written'[h]) = {}
    <3>1. h # g /\ ~(h <= made)
      BY <2>1, <2>3 DEF Conns
    <3> QED
      BY <1>2, <3>1 DEF CarriedInv, StaleInv
  <2> SUFFICES ASSUME NEW h \in Conns, NEW i \in Conns, h < i
               PROVE  Before(Items(written'[h]), Items(written'[i]))
    BY DEF InTurn
  <2>4. CASE h = g
    BY <2>3, <2>4 DEF Before
  <2>5. CASE i = g
    BY <2>2, <2>5
  <2>6. CASE h # g /\ i # g
    BY <1>2, <2>6 DEF InTurn
  <2> QED
    BY <2>4, <2>5, <2>6
<1> QED
  BY <1>1, <1>2, WrittenBy

LEMMA InTurnInvariance ==
  ASSUME ~Overlap
  PROVE  Spec => []InTurn
<1>1. Init => InTurn
  <2> SUFFICES ASSUME Init PROVE InTurn
    OBVIOUS
  <2>1. \A g \in Conns : written[g] = <<>>
    BY DEF Init
  <2> QED
    BY <2>1, NoItems DEF InTurn, Before
<1>2. TInv /\ OrderInv /\ PhaseInv /\ CarriedInv /\ InTurn /\ [Next]_vars => InTurn'
  BY StepInTurn
<1> QED
  BY <1>1, <1>2, OrderInvariance, CarriedInvariance, PTL DEF Spec

LEMMA OrderedRequests ==
  ASSUME TInv, OrderInv, Overlap \/ InTurn
  PROVE  SentInOrder
<1> SUFFICES ASSUME NEW g \in Conns, NEW h \in Conns,
                    NEW i \in 1..Len(written[g]), NEW j \in 1..Len(written[h]),
                    written[h][j].n # 0
             PROVE  /\ g = h /\ i < j => written[g][i].n < written[h][j].n
                    /\ g < h => IF Overlap THEN written[g][i].n # written[h][j].n
                                ELSE written[g][i].n < written[h][j].n
  BY DEF SentInOrder
<1>1. written[g][i] \in Items(written[g]) /\ written[h][j] \in Items(written[h])
  BY DEF Items
<1>2. g = h /\ i < j => written[g][i].n < written[h][j].n
  BY DEF OrderInv, Ascending
<1>3. g < h => g # h
  BY DEF Conns
<1>4. g < h => written[g][i].n # written[h][j].n
  BY <1>1, <1>3 DEF OrderInv, Apart
<1>5. g < h /\ ~Overlap => written[g][i].n < written[h][j].n
  BY <1>1 DEF InTurn, Before
<1> QED
  BY <1>2, <1>4, <1>5

\* Whoever calls, and even when the loops of two connections take from the queue
\* at once, no request overtakes another on a connection or goes out twice; over
\* connections too they keep their order, unless connect() overlaps disconnect().
THEOREM RequestsStayInOrder == Spec => []SentInOrder
<1>1. CASE Overlap
  <2>1. TInv /\ OrderInv => SentInOrder
    BY <1>1, OrderedRequests
  <2> QED
    BY <2>1, OrderInvariance, PTL
<1>2. CASE ~Overlap
  <2>1. TInv /\ OrderInv /\ InTurn => SentInOrder
    BY OrderedRequests
  <2>2. Spec => []InTurn
    BY <1>2, InTurnInvariance
  <2> QED
    BY <2>1, <2>2, OrderInvariance, PTL
<1> QED
  BY <1>1, <1>2


(***************************************************************************)
(* START_API                                                               *)
(***************************************************************************)

\* In s, what was enqueued for g comes behind the START_API of g.
Led(s, g) == \A i \in 1..Len(s) : s[i].to = g => \E j \in 1..i : s[j] = StartApi(g)

LEMMA LedNone ==
  ASSUME NEW s, NEW g, \A m \in Items(s) : m.to # g
  PROVE  Led(s, g)
BY DEF Items, Led

LEMMA LedAppend ==
  ASSUME NEW s \in Seq(Message), NEW m \in Message, NEW g, Led(s, g),
         m.to = g => m = StartApi(g) \/ StartApi(g) \in Items(s)
  PROVE  Led(Append(s, m), g)
<1> DEFINE a == StartApi(g)
           t == Append(s, m)
<1>1. /\ Len(s) \in Nat /\ Len(t) = Len(s) + 1 /\ t[Len(s) + 1] = m
      /\ \A i \in 1..Len(s) : t[i] = s[i]
  OBVIOUS
<1>2. \A i \in 1..Len(s) : s[i].to = g => \E j \in 1..i : s[j] = a
  BY DEF Led
<1>3. m.to = g => m = a \/ \E j \in 1..Len(s) : s[j] = a
  BY DEF Items
<1> HIDE DEF a, t
<1> SUFFICES ASSUME NEW i \in 1..Len(t), t[i].to = g
             PROVE  \E j \in 1..i : t[j] = a
  BY DEF Led, a, t
<1>4. CASE i \in 1..Len(s)
  <2>1. PICK j \in 1..i : s[j] = a
    BY <1>1, <1>2, <1>4
  <2>2. j \in 1..Len(s)
    BY <1>1, <1>4
  <2> QED
    BY <1>1, <2>1, <2>2
<1>5. CASE i = Len(s) + 1
  <2>1. CASE m = a
    BY <1>1, <1>5, <2>1
  <2>2. CASE \E j \in 1..Len(s) : s[j] = a
    <3>1. PICK j \in 1..Len(s) : s[j] = a
      BY <2>2
    <3>2. j \in 1..i /\ t[j] = a
      BY <1>1, <1>5, <3>1
    <3> QED
      BY <3>2
  <2> QED
    BY <1>1, <1>3, <1>5, <2>1, <2>2
<1> QED
  BY <1>1, <1>4, <1>5

LEMMA LedPrefix ==
  ASSUME NEW s \in Seq(Message), NEW t \in Seq(Message), NEW g, Led(s \o t, g)
  PROVE  Led(s, g)
<1> DEFINE a == StartApi(g)
           u == s \o t
<1>1. /\ Len(s) \in Nat /\ Len(u) \in Nat /\ Len(s) <= Len(u)
      /\ \A i \in 1..Len(s) : u[i] = s[i]
  OBVIOUS
<1>2. \A i \in 1..Len(u) : u[i].to = g => \E j \in 1..i : u[j] = a
  BY DEF Led
<1> HIDE DEF a, u
<1> SUFFICES ASSUME NEW i \in 1..Len(s), s[i].to = g
             PROVE  \E j \in 1..i : s[j] = a
  BY DEF Led, a
<1>3. i \in 1..Len(u) /\ u[i].to = g
  BY <1>1
<1>4. PICK j \in 1..i : u[j] = a
  BY <1>2, <1>3
<1>5. j \in 1..Len(s)
  BY <1>1
<1> QED
  BY <1>1, <1>4, <1>5

LEMMA Moved ==
  ASSUME NEW s \in Seq(Message), NEW t \in Seq(Message)
  PROVE  /\ s \o <<>> = s
         /\ \A m \in Message : s \o Append(t, m) = Append(s \o t, m)
         /\ t # <<>> => Append(s, Head(t)) \o Tail(t) = s \o t
<1>1. s \o <<>> = s
  OBVIOUS
<1>2. ASSUME NEW m \in Message
      PROVE  s \o Append(t, m) = Append(s \o t, m)
  OBVIOUS
<1>3. ASSUME t # <<>>
      PROVE  Append(s, Head(t)) \o Tail(t) = s \o t
  <2>1. Head(t) \in Message /\ <<Head(t)>> \in Seq(Message) /\ Tail(t) \in Seq(Message)
    BY <1>3
  <2>2. Append(s, Head(t)) = s \o <<Head(t)>>
    BY <2>1
  <2>3. t = <<Head(t)>> \o Tail(t)
    BY <1>3
  <2> DEFINE h == <<Head(t)>>
             r == Tail(t)
  <2>4. h \in Seq(Message) /\ r \in Seq(Message)
    BY <2>1
  <2> HIDE DEF h, r
  <2>5. (s \o h) \o r = s \o (h \o r)
    BY <2>4, ConcatAssociative
  <2> QED
    BY <2>2, <2>3, <2>5 DEF h, r
<1> QED
  BY <1>1, <1>2, <1>3

\* What the last connection was handed, and may yet be handed.
Backlog == written[made] \o queue

GreetInv ==
  /\ \A g \in Conns : Led(written[g], g)
  /\ made # None /\ stream[made] \in {"none", "open"} =>
       /\ Led(Backlog, made)
       /\ connState = "CONNECTED" => StartApi(made) \in Items(Backlog)


LEMMA BacklogType ==
  ASSUME TInv, made # None
  PROVE  /\ made \in Conns /\ written[made] \in Seq(Message) /\ queue \in Seq(Message)
         /\ Backlog \in Seq(Message)
         /\ Items(Backlog) = Items(written[made]) \cup Items(queue)
<1>1. made \in Conns
  BY TInvParts DEF RestOK, Conns, None
<1>2. written[made] \in Seq(Message) /\ queue \in Seq(Message)
  BY <1>1, ItemTypes
<1> QED
  BY <1>1, <1>2, ConcatItems DEF Backlog

\* Steps that hand nothing to a transport and leave the queue, or find the
\* stream of the last connection no longer usable.
LEMMA GreetQuiet ==
  ASSUME GreetInv, written' = written, made' = made,
         \/ stream'[made] \notin {"none", "open"}
         \/ /\ queue' = queue /\ stream[made] \in {"none", "open"}
            /\ connState' = "CONNECTED" => connState = "CONNECTED"
  PROVE  GreetInv'
<1>1. CASE stream'[made] \notin {"none", "open"}
  BY <1>1 DEF GreetInv
<1>2. CASE queue' = queue /\ stream[made] \in {"none", "open"}
           /\ (connState' = "CONNECTED" => connState = "CONNECTED")
  <2>1. Backlog' = Backlog
    BY <1>2 DEF Backlog
  <2> QED
    BY <1>2, <2>1 DEF GreetInv
<1> QED
  BY <1>1, <1>2

\* A disconnect(), or what comes of one.
LEMMA GreetCloses ==
  ASSUME TInv, GreetInv, UNCHANGED <<written, queue, made>>,
         connState' = "CONNECTED" => connState = "CONNECTED",
         \A g \in Conns : stream'[g] = stream[g] \/ stream'[g] \notin {"none", "open"}
  PROVE  GreetInv'
<1>1. CASE made = None
  BY <1>1 DEF GreetInv
<1>2. CASE made # None
  <2>1. made \in Conns
    BY <1>2, BacklogType
  <2> QED
    BY <2>1, GreetQuiet
<1> QED
  BY <1>1, <1>2

LEMMA GreetUsers ==
  ASSUME TInv, PhaseInv, CarriedInv, GreetInv, NEW u \in Users,
         \/ Connect(u) \/ Create(u) \/ Disconnect(u)
         \/ OpenFails(u) \/ Opened(u) \/ HandshakeEof(u) \/ HandshakeRaises(u)
         \/ GotId(u) \/ NoId(u)
  PROVE  GreetInv'
<1>0. HeldOK /\ RestOK /\ u \in Procs
  BY TInvParts DEF Procs
<1>1. CASE Connect(u) \/ Create(u)
  <2>1. /\ UNCHANGED <<written, queue, stream>> /\ made' = made + 1
        /\ made < MaxConns /\ connState' = "DISCONNECTED"
    BY <1>1 DEF Connect, Create, OpenConnection, net, out
  <2>2. made' \in Conns /\ ~(made' <= made)
    BY <1>0, <2>1, BoundsAssumption DEF RestOK, Conns
  <2>3. (\A m \in Items(queue) : m.to # made') /\ Items(written[made']) = {}
    BY <2>2 DEF CarriedInv, StaleInv
  <2>4. Items(Backlog') = Items(written[made']) \cup Items(queue)
    BY <2>1, <2>2, ItemTypes, ConcatItems DEF Backlog
  <2>5. Led(Backlog', made')
    BY <2>3, <2>4, LedNone
  <2> QED
    BY <2>1, <2>5 DEF GreetInv
<1>2. CASE Opened(u)
  <2>1. UNCHANGED <<written, queue, made>> /\ connState' # "CONNECTED" /\ at[u] = "opening"
    BY <1>2 DEF Opened, out
  <2>2. stream[made] = "none"
    BY <2>1 DEF PhaseInv, OpeningInv
  <2> QED
    BY <2>1, <2>2, GreetQuiet
<1>3. CASE Disconnect(u) \/ HandshakeEof(u) \/ NoId(u)
  <2>1. PICK k : BeginDisconnect(u, k)
    BY <1>3 DEF Disconnect, HandshakeEof, NoId
  <2>2. UNCHANGED <<written, queue, made>> /\ connState' = "DISCONNECTED"
    BY <1>3, <2>1 DEF Disconnect, HandshakeEof, NoId, BeginDisconnect, out
  <2>3. \A g \in Conns : stream'[g] = stream[g] \/ stream'[g] \in {"closing", "closed"}
    BY <1>0, <2>1, BeginStream
  <2> QED
    BY <2>2, <2>3, GreetCloses
<1>4. CASE OpenFails(u) \/ HandshakeRaises(u) \/ GotId(u)
  <2>1. UNCHANGED <<written, queue, made, stream, connState>>
    BY <1>4 DEF OpenFails, HandshakeRaises, GotId, net, out
  <2> QED
    BY <2>1, GreetCloses
<1> QED
  BY <1>1, <1>2, <1>3, <1>4


\* Something is enqueued for the last connection: START_API, or a request that
\* comes behind it.
LEMMA GreetEnqueues ==
  ASSUME TInv, GreetInv, NEW m \in Message, made # None, stream[made] \in {"none", "open"},
         queue' = Append(queue, m), UNCHANGED <<written, made>>,
         m = StartApi(made) \/ StartApi(made) \in Items(Backlog)
  PROVE  GreetInv'
<1>1. Backlog' = Append(Backlog, m)
  <2>1. written[made] \o Append(queue, m) = Append(written[made] \o queue, m)
    BY BacklogType, Moved
  <2> QED
    BY <2>1 DEF Backlog
<1>2. Led(Backlog, made) /\ Backlog \in Seq(Message)
  BY BacklogType DEF GreetInv
<1>3. Led(Backlog', made)
  BY <1>1, <1>2, LedAppend
<1>4. Items(Backlog') = Items(Backlog) \cup {m}
  BY <1>1, <1>2, AppendItems
<1> QED
  BY <1>3, <1>4 DEF GreetInv

LEMMA GreetSend ==
  ASSUME TInv, PhaseInv, GreetInv, NEW u \in Users, Send(u)
  PROVE  GreetInv'
<1>1. /\ connState = "CONNECTED" /\ stream[conn] = "open" /\ sends < MaxSends
      /\ queue' = Append(queue, [to |-> conn, n |-> sends + 1])
      /\ UNCHANGED <<written, made>>
  BY DEF Send, IsConnected, StreamIsConnected
<1>2. conn = made /\ made # None /\ made \in Conns
  BY <1>1, BacklogType DEF PhaseInv, ConnectedInv
<1> DEFINE m == [to |-> conn, n |-> sends + 1]
<1>3. m \in Message
  <2>1. sends + 1 \in 0..MaxSends
    BY <1>1, ItemTypes, BoundsAssumption
  <2> QED
    BY <1>2, <2>1 DEF Message
<1>4. StartApi(made) \in Items(Backlog)
  BY <1>1, <1>2 DEF GreetInv
<1> HIDE DEF m
<1> QED
  BY <1>1, <1>2, <1>3, <1>4, GreetEnqueues DEF m

LEMMA GreetStartApi ==
  ASSUME TInv, PhaseInv, GreetInv, NEW u \in Users, HandshakeDone(u)
  PROVE  GreetInv'
<1>1. connState = "CONNECTING" /\ UNCHANGED <<written, made, stream>>
  BY DEF HandshakeDone, PhaseInv, HandshakeInv, net
<1>2. conn = made /\ made # None /\ stream[made] \in InUse
  BY <1>1 DEF PhaseInv, ConnectingInv
<1>3. CASE stream[made] = "open"
  <2>1. queue' = Append(queue, StartApi(made))
    BY <1>2, <1>3 DEF HandshakeDone, StreamIsConnected
  <2>2. StartApi(made) \in Message
    BY <1>2, BacklogType, BoundsAssumption DEF StartApi, Message
  <2> QED
    BY <1>1, <1>2, <1>3, <2>1, <2>2, GreetEnqueues
<1>4. CASE stream[made] # "open"
  BY <1>1, <1>2, <1>4, GreetQuiet DEF InUse
<1> QED
  BY <1>3, <1>4

\* The transport of the last connection is handed a part of its backlog, or all.
LEMMA GreetHands ==
  ASSUME TInv, GreetInv, NEW g \in Conns, g = made, stream[g] = "open",
         UNCHANGED <<made, connState>>,
         written'[g] \in Seq(Message), queue' \in Seq(Message), written'[g] \o queue' = Backlog,
         \A h \in Conns \ {g} : written'[h] = written[h]
  PROVE  GreetInv'
<1>1. made # None
  BY DEF Conns, None
<1>2. Backlog' = Backlog
  BY DEF Backlog
<1>3. Led(Backlog, made) /\ (connState = "CONNECTED" => StartApi(made) \in Items(Backlog))
  BY <1>1 DEF GreetInv
<1>4. Led(written'[g], g)
  BY <1>3, LedPrefix
<1>5. \A h \in Conns : Led(written'[h], h)
  BY <1>4 DEF GreetInv
<1> QED
  BY <1>2, <1>3, <1>5 DEF GreetInv

LEMMA GreetWrites ==
  ASSUME TInv, PhaseInv, GreetInv, NEW g \in Conns, WriteStep(g)
  PROVE  GreetInv'
<1>0. RestOK /\ W(g) \in Procs /\ written[g] \in Seq(Message) /\ queue \in Seq(Message)
  BY TInvParts, LoopFacts, ItemTypes
<1>1. CASE WriteMessage(g)
  <2>1. /\ at[W(g)] = "running" /\ queue # <<>> /\ stream[g] = "open" /\ queue' = Tail(queue)
        /\ UNCHANGED <<made, connState>>
        /\ \A h \in Conns : written'[h] = IF h = g THEN Append(written[g], Head(queue))
                                          ELSE written[h]
    BY <1>0, <1>1 DEF WriteMessage, RestOK
  <2>2. g = made
    BY <2>1, AtWork
  <2>3. /\ Append(written[g], Head(queue)) \in Seq(Message) /\ Tail(queue) \in Seq(Message)
        /\ Append(written[g], Head(queue)) \o Tail(queue) = written[g] \o queue
    <3>1. Head(queue) \in Message /\ Tail(queue) \in Seq(Message)
      BY <2>1, ItemTypes
    <3> QED
      BY <1>0, <2>1, <3>1, Moved
  <2>4. written'[g] \o queue' = Backlog
    BY <2>1, <2>2, <2>3 DEF Backlog
  <2> QED
    BY <2>1, <2>2, <2>3, <2>4, GreetHands
<1>2. CASE Flush(g)
  <2>1. at[W(g)] = "running" /\ queue' = <<>> /\ UNCHANGED <<made, stream, connState>>
    BY <1>2 DEF Flush, net
  <2>2. g = made /\ stream[g] \in InUse
    BY <2>1, AtWork
  <2>3. CASE stream[g] = "open"
    <3>1. \A h \in Conns : written'[h] = IF h = g THEN written[g] \o queue ELSE written[h]
      BY <1>0, <1>2, <2>3 DEF Flush, RestOK
    <3>2. written[g] \o queue \in Seq(Message) /\ <<>> \in Seq(Message)
      BY <1>0
    <3>3. written'[g] \o queue' = Backlog
      <4>1. (written[g] \o queue) \o <<>> = written[g] \o queue
        BY <3>2, Moved
      <4> QED
        BY <2>1, <2>2, <3>1, <4>1 DEF Backlog
    <3> QED
      BY <2>1, <2>2, <2>3, <3>1, <3>2, <3>3, GreetHands
  <2>4. CASE stream[g] # "open"
    <3>1. written' = written
      BY <1>2, <2>4 DEF Flush
    <3> QED
      BY <2>1, <2>2, <2>4, <3>1, GreetQuiet DEF InUse
  <2> QED
    BY <2>3, <2>4
<1>3. CASE WriteFails(g)
  <2>1. /\ at[W(g)] = "running" /\ stream[g] # "open" /\ BeginDisconnect(W(g), "done")
        /\ UNCHANGED <<made, written>>
    BY <1>3 DEF WriteFails
  <2>2. g = made /\ stream[g] = "broken"
    BY <2>1, AtWork DEF InUse
  <2>3. stream'[g] = stream[g] \/ stream'[g] \in {"closing", "closed"}
    BY <1>0, <2>1, BeginStream
  <2> QED
    BY <2>1, <2>2, <2>3, GreetQuiet
<1>4. CASE StartWriting(g) \/ Flushed(g) \/ EndCancelled(W(g)) \/ LeaveLoop(g)
  <2>1. UNCHANGED <<written, queue, made, stream, connState>>
    BY <1>4 DEF StartWriting, Flushed, EndCancelled, LeaveLoop, net, out
  <2> QED
    BY <2>1, GreetCloses
<1> QED
  BY <1>1, <1>2, <1>3, <1>4 DEF WriteStep

LEMMA GreetRest ==
  ASSUME TInv, GreetInv, NEW g \in Conns,
         \/ ReadStep(g) \/ Wake(g)
         \/ ServerCloses(g) \/ StreamBreaks(g) \/ StreamCloses(g)
  PROVE  GreetInv'
<1>0. HeldOK /\ R(g) \in Procs
  BY TInvParts, LoopFacts
<1>1. CASE ReadFails(g)
  <2>1. /\ BeginDisconnect(R(g), "done") /\ UNCHANGED <<written, queue, made>>
        /\ connState' = "DISCONNECTED"
    BY <1>1 DEF ReadFails, BeginDisconnect, out
  <2>2. \A h \in Conns : stream'[h] = stream[h] \/ stream'[h] \in {"closing", "closed"}
    BY <1>0, <2>1, BeginStream
  <2> QED
    BY <2>1, <2>2, GreetCloses
<1>2. CASE StartReading(g) \/ Dispatch(g) \/ EndCancelled(R(g)) \/ Wake(g) \/ ServerCloses(g)
  <2>1. UNCHANGED <<written, queue, made, stream, connState>>
    BY <1>2 DEF StartReading, Dispatch, EndCancelled, Wake, ServerCloses, net, out
  <2> QED
    BY <2>1, GreetCloses
<1>3. CASE StreamBreaks(g) \/ StreamCloses(g)
  <2>1. UNCHANGED <<written, queue, made, connState>>
    BY <1>3 DEF StreamBreaks, StreamCloses, out
  <2>2. \A h \in Conns : stream'[h] = stream[h] \/ stream'[h] \in {"broken", "closed"}
    BY <1>0, <1>3 DEF StreamBreaks, StreamCloses, HeldOK
  <2> QED
    BY <2>1, <2>2, GreetCloses
<1> QED
  BY <1>1, <1>2, <1>3 DEF ReadStep

LEMMA StepGreet ==
  ASSUME TInv, PhaseInv, CarriedInv, GreetInv, [Next]_vars
  PROVE  GreetInv'
<1>1. CASE UNCHANGED vars
  <2>1. UNCHANGED <<written, queue, made, stream, connState>>
    BY <1>1 DEF vars, net, out
  <2> QED
    BY <2>1, GreetCloses
<1>2. ASSUME NEW p \in Procs, DisconnectStep(p)
      PROVE  GreetInv'
  <2>1. at[p] \in Disconnecting
    BY <1>2, DisconnectStepMoves
  <2>2. ~Abort(p) /\ connState = "DISCONNECTED"
    BY <2>1 DEF PhaseInv, DisconnectingInv, AwaitsClose, Abort, Disconnecting
  <2>3. UNCHANGED <<written, queue, made>> /\ connState' = "DISCONNECTED"
    BY <1>2, <2>2
       DEF DisconnectStep, WriteTaskEnded, ReadTaskEnded, Closed, ResetIfOver, out
  <2>4. \A h \in Conns : stream'[h] = stream[h] \/ stream'[h] \in {"closing", "closed"}
    BY <1>2, EndStream
  <2> QED
    BY <2>3, <2>4, GreetCloses
<1>3. ASSUME NEW u \in Users, CallStep(u)
      PROVE  GreetInv'
  BY <1>3, GreetUsers, GreetStartApi DEF CallStep, DroppedBeforeId, CreateTimeout
<1> QED
  BY <1>1, <1>2, <1>3, GreetUsers, GreetSend, GreetWrites, GreetRest DEF Next

\* Where connect() and disconnect() do not overlap, a connection is handed its
\* START_API before any request that was enqueued for it.
THEOREM StartApiComesFirst ==
  ASSUME ~Overlap
  PROVE  Spec => []StartApiFirst
<1>1. Init => GreetInv
  <2> SUFFICES ASSUME Init PROVE GreetInv
    OBVIOUS
  <2>1. made = None /\ \A g \in Conns : written[g] = <<>>
    BY DEF Init, None
  <2> QED
    BY <2>1, NoItems, LedNone DEF GreetInv
<1>2. TInv /\ PhaseInv /\ CarriedInv /\ GreetInv /\ [Next]_vars => GreetInv'
  BY StepGreet
<1>3. GreetInv => StartApiFirst
  BY DEF GreetInv, Led, StartApiFirst
<1> QED
  BY <1>1, <1>2, <1>3, CarriedInvariance, PTL DEF Spec

=============================================================================
