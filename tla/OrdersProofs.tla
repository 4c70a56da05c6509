---------------------------- MODULE OrdersProofs ----------------------------
(***************************************************************************)
(* Proofs about Orders, for any number of cancel_order calls and of        *)
(* callbacks on the order.                                                 *)
(***************************************************************************)
EXTENDS Orders, TLAPS

(***************************************************************************)
(* Types                                                                   *)
(***************************************************************************)

LEMMA NoticeTyped ==
  ASSUME TypeOK, notices < MaxNotices
  PROVE  /\ notices + 1 \in 0..MaxNotices
         /\ \A whats : \A what \in whats : Notice(what) \in NoticeType(whats)
         /\ Notice("error") \in NoticeType({"error"})
<1>1. notices + 1 \in 0..MaxNotices
  BY BoundsAssumption DEF TypeOK
<1> QED
  BY <1>1 DEF Notice, NoticeType

\* None is of every type of notices, and a type grows with its statuses.
LEMMA NoticeTypes ==
  /\ \A whats : None \in NoticeType(whats)
  /\ NoticeType(Statuses) \subseteq NoticeType(Statuses \cup {"error"})
  /\ NoticeType({"error"}) \subseteq NoticeType(Statuses \cup {"error"})
<1>1. 0 \in 0..MaxNotices
  BY BoundsAssumption
<1> QED
  BY <1>1 DEF NoticeType, None

LEMMA SetErrorTyped ==
  ASSUME TypeOK, SetError
  PROVE  /\ error_data' \in NoticeType({"error"}) /\ notices' \in 0..MaxNotices
         /\ fired' \subseteq {"ok", "err"} \X Calls
<1>1. notices' \in 0..MaxNotices /\ error_data' \in NoticeType({"error"})
  BY NoticeTyped DEF SetError
<1>2. Fire("err", error_event) \subseteq {"ok", "err"} \X Calls
  BY DEF TypeOK, Fire
<1> QED
  BY <1>1, <1>2 DEF SetError, TypeOK

LEMMA InitTypeOK == Init => TypeOK
BY NoticeTypes, BoundsAssumption DEF Init, TypeOK, None

\* A call asks.
LEMMA WaitTypeOK ==
  ASSUME TypeOK, NEW c \in Calls, Wait(c), Accepted \/ Refused,
         order_status' \in NoticeType(Statuses), order' \in {order, "working"},
         cancels' \subseteq cancels \cup Cancellers
  PROVE  TypeOK'
<1>1. /\ error_data' \in NoticeType({"error"}) /\ notices' \in 0..MaxNotices
      /\ fired' \subseteq {"ok", "err"} \X Calls
  BY SetErrorTyped DEF Accepted, Refused, TypeOK
<1> DEFINE ok == IF response_event = NoCall THEN c ELSE response_event
           err == IF error_event = NoCall THEN c ELSE error_event
<1>2. ok \in Calls /\ err \in Calls
  BY DEF TypeOK
<1>3. /\ response_event' = ok /\ error_event' = err
      /\ waits' = [waits EXCEPT ![c] = [ok |-> ok, err |-> err]]
      /\ pc' = [pc EXCEPT ![c] = "waiting"]
      /\ asked' = [asked EXCEPT ![c] = notices']
      /\ overlapped' \subseteq overlapped \cup {c} \cup Waiting
      /\ UNCHANGED <<connected, response_data, done, result>>
  BY DEF Wait
<1> HIDE DEF ok, err
<1>4. /\ waits' \in [Calls -> [ok : Calls \cup {NoCall}, err : Calls \cup {NoCall}]]
      /\ pc' \in [Calls -> {"idle", "waiting", "returned", "tws_error", "timed_out"}]
      /\ asked' \in [Calls -> 0..MaxNotices]
  BY <1>1, <1>2, <1>3 DEF TypeOK
<1>5. response_event' \in Calls \cup {NoCall} /\ error_event' \in Calls \cup {NoCall}
  BY <1>2, <1>3
<1>6. overlapped' \subseteq Calls
  BY <1>3 DEF TypeOK, Waiting
<1>7. /\ order' \in {"none"} \cup Statuses
      /\ cancels' \subseteq Cancellers \cup {"all"}
  BY DEF TypeOK, Statuses
<1>8. /\ connected' \in BOOLEAN /\ response_data' \in NoticeType(Statuses)
      /\ done' \in [Calls -> SUBSET {"ok", "err"}]
      /\ result' \in [Calls -> NoticeType(Statuses \cup {"error"})]
  BY <1>3 DEF TypeOK
<1> QED
  BY <1>1, <1>4, <1>5, <1>6, <1>7, <1>8 DEF TypeOK

\* A call ends.
LEMMA EndTypeOK ==
  ASSUME TypeOK, NEW c \in Calls, NEW outcome \in {"returned", "tws_error", "timed_out"},
         NEW data \in NoticeType(Statuses \cup {"error"}), End(c, outcome, data)
  PROVE  TypeOK'
<1>1. /\ pc' \in [Calls -> {"idle", "waiting", "returned", "tws_error", "timed_out"}]
      /\ result' \in [Calls -> NoticeType(Statuses \cup {"error"})]
      /\ waits' \in [Calls -> [ok : Calls \cup {NoCall}, err : Calls \cup {NoCall}]]
      /\ done' \in [Calls -> SUBSET {"ok", "err"}]
  BY DEF End, TypeOK
<1>2. fired' \subseteq fired
  BY DEF End
<1> QED
  BY <1>1, <1>2, NoticeTypes DEF End, TypeOK, tws

LEMMA StepTypeOK == TypeOK /\ [Next]_vars => TypeOK'
<1> SUFFICES ASSUME TypeOK, [Next]_vars
             PROVE  TypeOK'
  OBVIOUS
<1> USE DEF tables, tasks, tws
<1>1. CASE PlaceOrder
  <2>1. /\ Wait(Placer) /\ (Accepted \/ Refused) /\ order_status' = None
        /\ order' \in {order, "working"} /\ cancels' = cancels
    BY <1>1 DEF PlaceOrder, Refused
  <2> QED
    BY <2>1, WaitTypeOK, NoticeTypes DEF Calls
<1>2. ASSUME NEW c \in Cancellers, CancelOrder(c)
      PROVE  TypeOK'
  <2>1. /\ Wait(c) /\ (Accepted \/ Refused) /\ order_status' = order_status
        /\ order' = order /\ cancels' \subseteq cancels \cup Cancellers
    BY <1>2 DEF CancelOrder, Refused
  <2>2. order_status' \in NoticeType(Statuses)
    BY <2>1 DEF TypeOK
  <2> QED
    BY <2>1, <2>2, WaitTypeOK DEF Calls
<1>3. CASE CancelAllOrders
  BY <1>3 DEF CancelAllOrders, TypeOK
<1>4. ASSUME NEW c \in Calls, NEW kind \in {"ok", "err"}, WaiterDone(c, kind)
      PROVE  TypeOK'
  BY <1>4 DEF WaiterDone, TypeOK
<1>5. ASSUME NEW c \in Calls, ReturnData(c) \/ RaiseTWSError(c) \/ Timeout(c)
      PROVE  TypeOK'
  <2>1. /\ response_data \in NoticeType(Statuses \cup {"error"})
        /\ error_data \in NoticeType(Statuses \cup {"error"})
        /\ None \in NoticeType(Statuses \cup {"error"})
    BY NoticeTypes DEF TypeOK
  <2> QED
    BY <1>5, <2>1, EndTypeOK DEF ReturnData, RaiseTWSError, Timeout
<1>6. CASE OrderStatus
  <2>1. order \in Statuses /\ Notice(order) \in NoticeType(Statuses) /\ notices' \in 0..MaxNotices
    BY <1>6, NoticeTyped DEF OrderStatus, TypeOK
  <2>2. fired' \subseteq {"ok", "err"} \X Calls
    BY <1>6 DEF OrderStatus, TypeOK, Fire
  <2>3. order_status' = Notice(order) /\ response_data' = Notice(order)
    BY <1>6 DEF OrderStatus
  <2>4. UNCHANGED <<connected, response_event, error_event, error_data, tasks, tws, asked, overlapped>>
    BY <1>6 DEF OrderStatus
  <2> QED
    BY <2>1, <2>2, <2>3, <2>4 DEF TypeOK
<1>7. ASSUME Error, order' \in {"none"} \cup Statuses, cancels' \subseteq cancels
      PROVE  TypeOK'
  BY <1>7, SetErrorTyped DEF Error, TypeOK
<1>8. CASE RejectOrWarn
  BY <1>7, <1>8 DEF RejectOrWarn, Statuses, Settled
<1>9. ASSUME NEW c \in cancels, AnswerCancel(c)
      PROVE  TypeOK'
  BY <1>7, <1>9 DEF AnswerCancel, TypeOK
<1>10. CASE Settles
  BY <1>10 DEF Settles, TypeOK, Statuses, Settled
<1>11. CASE Drop
  BY <1>11 DEF Drop, TypeOK
<1>12. CASE UNCHANGED vars
  BY <1>12 DEF vars, TypeOK
<1> QED
  BY <1>1, <1>2, <1>3, <1>4, <1>5, <1>6, <1>8, <1>9, <1>10, <1>11, <1>12 DEF Next, Awaken

\* Types, for every number of calls and callbacks.
THEOREM TypeCorrect == Spec => []TypeOK
BY InitTypeOK, StepTypeOK, PTL DEF Spec

(***************************************************************************)
(* Events and answers                                                      *)
(***************************************************************************)

\* Events are created by calls that have asked, and are set only if a call that
\* waits awaits them; the locals of a call that ended are gone.
EventsInv ==
  /\ RegisteredIsAwaited
  /\ pc[Placer] = "idle" => \A c \in Calls : pc[c] = "idle"
  /\ \A c \in Calls :
       /\ pc[c] = "idle" => /\ response_event # c /\ error_event # c
                            /\ <<"ok", c>> \notin fired /\ <<"err", c>> \notin fired
       /\ pc[c] # "waiting" => done[c] = {}
       /\ "ok" \in done[c] => <<"ok", waits[c].ok>> \in fired
       /\ "err" \in done[c] => <<"err", waits[c].err>> \in fired
       /\ asked[c] =< notices

\* A call that waits alone awaits its own events.  Whatever set one of them came
\* after the call asked and is what the tables still hold: a status is the last
\* one of the order.
AloneInv ==
  \A c \in Calls : pc[c] = "waiting" /\ Alone(c) =>
    /\ Waiting = {c}
    /\ waits[c].ok = c /\ waits[c].err = c /\ response_event = c /\ error_event = c
    /\ <<"ok", c>> \in fired => response_data.n > asked[c] /\ response_data = order_status
    /\ <<"err", c>> \in fired => error_data.n > asked[c]

\* AnswerIsFresh and NoLostWakeup are about the outcome of a wait; the invariant
\* says what must hold during it.
OInv == TypeOK /\ EventsInv /\ AloneInv /\ NoLostWakeup /\ AnswerIsFresh

\* A call asks.  It is alone only if no other call waits, and then finds no event
\* in the tables.
LEMMA WaitOInv ==
  ASSUME OInv, TypeOK', NEW c \in Calls, pc[c] = "idle", Wait(c), Accepted \/ Refused,
         order_status' = order_status \/ Waiting = {},
         pc[Placer] # "idle" \/ c = Placer
  PROVE  OInv'
<1> DEFINE ok == IF response_event = NoCall THEN c ELSE response_event
           err == IF error_event = NoCall THEN c ELSE error_event
<1>0. TypeOK /\ c \notin Waiting
  BY DEF OInv, Waiting
<1>1. /\ response_event' = ok /\ error_event' = err
      /\ \A d \in Calls : waits'[d] = IF d = c THEN [ok |-> ok, err |-> err] ELSE waits[d]
      /\ \A d \in Calls : pc'[d] = IF d = c THEN "waiting" ELSE pc[d]
      /\ \A d \in Calls : asked'[d] = IF d = c THEN notices' ELSE asked[d]
      /\ overlapped' = IF Waiting = {} THEN overlapped ELSE overlapped \cup {c} \cup Waiting
      /\ UNCHANGED <<connected, response_data, done, result>>
  BY <1>0 DEF Wait, TypeOK
<1>2. Waiting' = Waiting \cup {c}
  BY <1>1 DEF Waiting
<1>3. /\ notices' \in Nat /\ notices \in Nat /\ notices =< notices'
      /\ \A d \in Calls : asked[d] \in Nat
  BY <1>0 DEF Accepted, Refused, SetError, TypeOK
<1>4. /\ \A d \in Calls : <<"ok", d>> \in fired' <=> <<"ok", d>> \in fired
      /\ \A d \in Calls : <<"err", d>> \in fired => <<"err", d>> \in fired'
      /\ \A d \in Calls : <<"err", d>> \in fired' => <<"err", d>> \in fired \/ error_event = d
  BY DEF Accepted, Refused, SetError, Fire
<1>5. ok \in Calls /\ err \in Calls
  BY <1>0 DEF TypeOK
<1>6. Waiting = {} => ok = c /\ err = c
  BY DEF OInv, EventsInv, RegisteredIsAwaited
<1> HIDE DEF ok, err
<1>7. EventsInv'
  <2>1. RegisteredIsAwaited'
    <3>1. \E d \in Waiting' : waits'[d].ok = response_event'
      <4>1. CASE response_event' = c
        BY <1>1, <1>2, <4>1
      <4>2. CASE response_event' # c
        <5>1. PICK d \in Waiting : waits[d].ok = response_event
          BY <1>1, <1>5, <4>2 DEF ok, OInv, EventsInv, RegisteredIsAwaited
        <5> QED
          BY <5>1, <1>0, <1>1, <1>2, <4>2 DEF ok, Waiting
      <4> QED
        BY <4>1, <4>2
    <3>2. \E d \in Waiting' : waits'[d].err = error_event'
      <4>1. CASE error_event' = c
        BY <1>1, <1>2, <4>1
      <4>2. CASE error_event' # c
        <5>1. PICK d \in Waiting : waits[d].err = error_event
          BY <1>1, <1>5, <4>2 DEF err, OInv, EventsInv, RegisteredIsAwaited
        <5> QED
          BY <5>1, <1>0, <1>1, <1>2, <4>2 DEF err, Waiting
      <4> QED
        BY <4>1, <4>2
    <3> QED
      BY <3>1, <3>2 DEF RegisteredIsAwaited
  <2>2. pc'[Placer] # "idle"
    BY <1>1 DEF Calls
  <2>3. ASSUME NEW d \in Calls
        PROVE  /\ pc'[d] = "idle" => /\ response_event' # d /\ error_event' # d
                                     /\ <<"ok", d>> \notin fired' /\ <<"err", d>> \notin fired'
               /\ pc'[d] # "waiting" => done'[d] = {}
               /\ asked'[d] =< notices'
    <3>1. /\ pc[d] = "idle" => /\ response_event # d /\ error_event # d
                               /\ <<"ok", d>> \notin fired /\ <<"err", d>> \notin fired
          /\ pc[d] # "waiting" => done[d] = {}
          /\ asked[d] =< notices
      BY DEF OInv, EventsInv
    <3>2. pc'[d] # "waiting" => done'[d] = {}
      BY <1>1, <3>1
    <3>3. asked'[d] =< notices'
      BY <1>1, <1>3, <3>1
    <3>4. pc'[d] = "idle" => d # c /\ pc[d] = "idle"
      BY <1>1
    <3> QED
      BY <1>1, <1>4, <3>1, <3>2, <3>3, <3>4 DEF ok, err
  <2>4. ASSUME NEW d \in Calls
        PROVE  /\ "ok" \in done'[d] => <<"ok", waits'[d].ok>> \in fired'
               /\ "err" \in done'[d] => <<"err", waits'[d].err>> \in fired'
    <3>1. CASE d = c
      BY <1>1, <3>1 DEF OInv, EventsInv
    <3>2. CASE d # c
      <4>1. /\ "ok" \in done[d] => <<"ok", waits[d].ok>> \in fired
            /\ "err" \in done[d] => <<"err", waits[d].err>> \in fired
        BY DEF OInv, EventsInv
      <4>2. fired \subseteq {"ok", "err"} \X Calls
        BY <1>0 DEF TypeOK
      <4> QED
        BY <1>1, <1>4, <3>2, <4>1, <4>2
    <3> QED
      BY <3>1, <3>2
  <2> QED
    BY <2>1, <2>2, <2>3, <2>4 DEF EventsInv
\* Only c can be alone, and no event of c is set yet.
<1>8. ASSUME NEW d \in Calls, pc'[d] = "waiting", Alone(d)'
      PROVE  /\ d = c /\ Waiting = {} /\ asked'[d] = notices'
             /\ <<"ok", d>> \notin fired' /\ (<<"err", d>> \notin fired')
  <2>1. d = c /\ Waiting = {}
    BY <1>1, <1>8 DEF Alone, Waiting
  <2>2. error_event # c /\ <<"ok", c>> \notin fired /\ <<"err", c>> \notin fired
    BY DEF OInv, EventsInv
  <2> QED
    BY <2>1, <2>2, <1>1, <1>4
<1>9. AloneInv'
  BY <1>1, <1>2, <1>6, <1>8 DEF AloneInv
<1>10. NoLostWakeup'
  <2>1. ASSUME NEW d \in Calls, pc'[d] = "waiting", Alone(d)'
        PROVE  ~(notices' > asked'[d])
    <3>1. asked'[d] = notices'
      BY <1>8, <2>1
    <3> QED
      BY <1>3, <3>1
  <2> QED
    BY <2>1 DEF NoLostWakeup
<1>11. AnswerIsFresh'
  BY <1>1 DEF AnswerIsFresh, Alone, OInv
<1> QED
  BY <1>7, <1>9, <1>10, <1>11 DEF OInv

\* A call ends: no other call that waits is alone, and the tables are empty.
LEMMA EndOInv ==
  ASSUME OInv, TypeOK', NEW c \in Calls, NEW outcome \in {"returned", "tws_error", "timed_out"},
         NEW data, End(c, outcome, data),
         Alone(c) /\ outcome # "timed_out" => data.n > asked[c]
  PROVE  OInv'
<1>0. TypeOK /\ pc[c] = "waiting"
  BY DEF OInv, End
<1>1. /\ \A d \in Calls : pc'[d] = IF d = c THEN outcome ELSE pc[d]
      /\ \A d \in Calls : result'[d] = IF d = c THEN data ELSE result[d]
      /\ \A d \in Calls : d # c => waits'[d] = waits[d] /\ done'[d] = done[d]
      /\ done'[c] = {}
      /\ response_event' = NoCall /\ error_event' = NoCall
      /\ fired' = {f \in fired : \E d \in Waiting \ {c} : waits[d][f[1]] = f[2]}
      /\ UNCHANGED <<notices, asked, overlapped>>
  BY <1>0 DEF End, TypeOK
<1>2. EventsInv'
  <2>1. RegisteredIsAwaited'
    BY <1>1 DEF RegisteredIsAwaited
  <2>2. ASSUME NEW d \in Calls, d # c, "ok" \in done[d]
        PROVE  <<"ok", waits[d].ok>> \in fired'
    <3>1. <<"ok", waits[d].ok>> \in fired /\ d \in Waiting \ {c}
      BY <2>2 DEF OInv, EventsInv, Waiting
    <3>2. waits[d]["ok"] = waits[d].ok
      OBVIOUS
    <3> QED
      BY <1>1, <3>1, <3>2
  <2>3. ASSUME NEW d \in Calls, d # c, "err" \in done[d]
        PROVE  <<"err", waits[d].err>> \in fired'
    <3>1. <<"err", waits[d].err>> \in fired /\ d \in Waiting \ {c}
      BY <2>3 DEF OInv, EventsInv, Waiting
    <3>2. waits[d]["err"] = waits[d].err
      OBVIOUS
    <3> QED
      BY <1>1, <3>1, <3>2
  <2>4. fired' \subseteq fired
    BY <1>1
  <2>5. pc'[Placer] = "idle" => \A d \in Calls : pc'[d] = "idle"
    BY <1>0, <1>1 DEF OInv, EventsInv, Calls
  <2>6. ASSUME NEW d \in Calls
        PROVE  /\ pc'[d] = "idle" => /\ response_event' # d /\ error_event' # d
                                     /\ <<"ok", d>> \notin fired' /\ <<"err", d>> \notin fired'
               /\ pc'[d] # "waiting" => done'[d] = {}
               /\ "ok" \in done'[d] => <<"ok", waits'[d].ok>> \in fired'
               /\ "err" \in done'[d] => <<"err", waits'[d].err>> \in fired'
               /\ asked'[d] =< notices'
    <3>1. /\ pc[d] = "idle" => <<"ok", d>> \notin fired /\ <<"err", d>> \notin fired
          /\ pc[d] # "waiting" => done[d] = {}
          /\ asked[d] =< notices
      BY DEF OInv, EventsInv
    <3>2. CASE d = c
      BY <1>1, <3>1, <3>2
    <3>3. CASE d # c
      BY <1>1, <2>2, <2>3, <2>4, <3>1, <3>3, CallsAssumption
    <3> QED
      BY <3>2, <3>3
  <2> QED
    BY <2>1, <2>5, <2>6 DEF EventsInv
<1>3. ASSUME NEW d \in Calls, pc'[d] = "waiting"
      PROVE  ~Alone(d)'
  <2>1. d # c /\ pc[d] = "waiting"
    BY <1>1, <1>3
  <2>2. Waiting # {d}
    BY <1>0, <2>1 DEF Waiting
  <2>3. ~Alone(d)
    BY <2>1, <2>2 DEF OInv, AloneInv
  <2> QED
    BY <1>1, <2>3 DEF Alone
<1>4. AloneInv' /\ NoLostWakeup'
  BY <1>3 DEF AloneInv, NoLostWakeup
<1>5. AnswerIsFresh'
  BY <1>1 DEF AnswerIsFresh, Alone, OInv
<1> QED
  BY <1>2, <1>4, <1>5 DEF OInv

\* A callback on the order, a status or an error, sets the event under its key.
LEMMA NoticeOInv ==
  ASSUME OInv, TypeOK', notices' = notices + 1,
         UNCHANGED <<response_event, error_event, pc, waits, done, result, asked, overlapped>>,
         \/ /\ order_status' = response_data' /\ response_data'.n = notices + 1
            /\ fired' = fired \cup Fire("ok", response_event)
            /\ UNCHANGED error_data
         \/ /\ error_data'.n = notices + 1
            /\ fired' = fired \cup Fire("err", error_event)
            /\ UNCHANGED <<order_status, response_data>>
  PROVE  OInv'
<1>0. TypeOK /\ notices \in Nat /\ \A c \in Calls : asked[c] \in Nat /\ asked[c] =< notices
  <2>1. TypeOK /\ \A c \in Calls : asked[c] =< notices
    BY DEF OInv, EventsInv
  <2>2. notices \in Nat /\ \A c \in Calls : asked[c] \in Nat
    BY <2>1, BoundsAssumption DEF TypeOK
  <2> QED
    BY <2>1, <2>2
<1>1. Waiting' = Waiting
  BY DEF Waiting
<1>2. /\ fired \subseteq fired'
      /\ \A c \in Calls : <<"ok", c>> \in fired' => <<"ok", c>> \in fired \/ response_event = c
      /\ \A c \in Calls : <<"err", c>> \in fired' => <<"err", c>> \in fired \/ error_event = c
  BY DEF Fire
<1>3. EventsInv'
  <2>1. RegisteredIsAwaited'
    BY <1>1 DEF RegisteredIsAwaited, OInv, EventsInv
  <2>2. ASSUME NEW c \in Calls
        PROVE  /\ pc'[c] = "idle" => /\ response_event' # c /\ error_event' # c
                                     /\ <<"ok", c>> \notin fired' /\ <<"err", c>> \notin fired'
               /\ pc'[c] # "waiting" => done'[c] = {}
               /\ "ok" \in done'[c] => <<"ok", waits'[c].ok>> \in fired'
               /\ "err" \in done'[c] => <<"err", waits'[c].err>> \in fired'
    BY <1>2 DEF OInv, EventsInv
  <2>3. \A c \in Calls : asked'[c] =< notices'
    BY <1>0
  <2> QED
    BY <2>1, <2>2, <2>3 DEF OInv, EventsInv
<1>4. ASSUME NEW c \in Calls, pc'[c] = "waiting", Alone(c)'
      PROVE  /\ Waiting' = {c}
             /\ waits'[c].ok = c /\ waits'[c].err = c /\ response_event' = c /\ error_event' = c
             /\ <<"ok", c>> \in fired' => response_data'.n > asked'[c] /\ response_data' = order_status'
             /\ <<"err", c>> \in fired' => error_data'.n > asked'[c]
             /\ <<"ok", waits'[c].ok>> \in fired' \/ <<"err", waits'[c].err>> \in fired'
  <2>1. /\ Waiting = {c}
        /\ waits[c].ok = c /\ waits[c].err = c /\ response_event = c /\ error_event = c
        /\ <<"ok", c>> \in fired => response_data.n > asked[c] /\ response_data = order_status
        /\ <<"err", c>> \in fired => error_data.n > asked[c]
    BY <1>4 DEF OInv, AloneInv, Alone
  <2>2. notices + 1 > asked[c] /\ asked'[c] = asked[c]
    BY <1>0
  <2>3. CASE /\ order_status' = response_data' /\ response_data'.n = notices + 1
             /\ fired' = fired \cup Fire("ok", response_event)
             /\ UNCHANGED error_data
    <3>1. <<"ok", c>> \in fired' /\ (<<"err", c>> \in fired' => <<"err", c>> \in fired)
      BY <2>1, <2>3, CallsAssumption DEF Fire
    <3> QED
      BY <1>1, <2>1, <2>2, <2>3, <3>1
  <2>4. CASE /\ error_data'.n = notices + 1
             /\ fired' = fired \cup Fire("err", error_event)
             /\ UNCHANGED <<order_status, response_data>>
    <3>1. <<"err", c>> \in fired' /\ (<<"ok", c>> \in fired' => <<"ok", c>> \in fired)
      BY <2>1, <2>4, CallsAssumption DEF Fire
    <3> QED
      BY <1>1, <2>1, <2>2, <2>4, <3>1
  <2> QED
    BY <2>3, <2>4
<1>5. AloneInv' /\ NoLostWakeup'
  BY <1>4 DEF AloneInv, NoLostWakeup
<1>6. AnswerIsFresh'
  BY DEF AnswerIsFresh, Alone, OInv
<1> QED
  BY <1>3, <1>5, <1>6 DEF OInv

\* Steps of TWS and of the network that reach no callback, and waiter tasks.
LEMMA SilentOInv ==
  ASSUME OInv, TypeOK',
         UNCHANGED <<order_status, tables, pc, waits, result, notices, asked, overlapped>>,
         \/ UNCHANGED done
         \/ \E c \in Calls, kind \in {"ok", "err"} : WaiterDone(c, kind)
  PROVE  OInv'
<1> USE DEF tables
<1>1. EventsInv'
  <2>1. RegisteredIsAwaited'
    BY DEF RegisteredIsAwaited, Waiting, OInv, EventsInv
  <2>2. ASSUME NEW d \in Calls
        PROVE  /\ pc'[d] # "waiting" => done'[d] = {}
               /\ "ok" \in done'[d] => <<"ok", waits'[d].ok>> \in fired'
               /\ "err" \in done'[d] => <<"err", waits'[d].err>> \in fired'
    <3>1. /\ pc[d] # "waiting" => done[d] = {}
          /\ "ok" \in done[d] => <<"ok", waits[d].ok>> \in fired
          /\ "err" \in done[d] => <<"err", waits[d].err>> \in fired
      BY DEF OInv, EventsInv
    <3>2. ASSUME NEW c \in Calls, NEW kind \in {"ok", "err"}, WaiterDone(c, kind)
          PROVE  /\ d # c => done'[d] = done[d]
                 /\ done'[c] = done[c] \cup {kind} /\ pc[c] = "waiting"
                 /\ kind = "ok" => <<"ok", waits[c].ok>> \in fired
                 /\ kind = "err" => <<"err", waits[c].err>> \in fired
      <4>1. /\ pc[c] = "waiting" /\ <<kind, waits[c][kind]>> \in fired
            /\ done' = [done EXCEPT ![c] = @ \cup {kind}]
        BY <3>2 DEF WaiterDone
      <4>2. done \in [Calls -> SUBSET {"ok", "err"}]
        BY DEF OInv, TypeOK
      <4>3. \A x \in Calls : done'[x] = IF x = c THEN done[c] \cup {kind} ELSE done[x]
        BY <4>1, <4>2
      <4>4. waits[c]["ok"] = waits[c].ok /\ waits[c]["err"] = waits[c].err
        OBVIOUS
      <4> QED
        BY <4>1, <4>3, <4>4
    <3> QED
      BY <3>1, <3>2
  <2> QED
    BY <2>1, <2>2 DEF OInv, EventsInv
<1>2. AloneInv' /\ NoLostWakeup' /\ AnswerIsFresh'
  BY DEF OInv, AloneInv, NoLostWakeup, AnswerIsFresh, Alone, Waiting
<1> QED
  BY <1>1, <1>2 DEF OInv

LEMMA ReturnsCurrent ==
  ASSUME OInv, NEW c \in Calls, ReturnData(c), Alone(c)
  PROVE  response_data = order_status /\ response_data.n > asked[c]
BY DEF ReturnData, End, OInv, EventsInv, AloneInv

LEMMA StepOInv == OInv /\ [Next]_vars => OInv'
<1> SUFFICES ASSUME OInv, [Next]_vars
             PROVE  OInv'
  OBVIOUS
<1> USE DEF tables, tasks, tws
<1>0. TypeOK /\ TypeOK'
  BY StepTypeOK DEF OInv
<1>1. CASE PlaceOrder
  <2>1. Waiting = {}
    BY <1>1 DEF PlaceOrder, OInv, EventsInv, Waiting
  <2>2. /\ Wait(Placer) /\ (Accepted \/ Refused) /\ pc[Placer] = "idle"
    BY <1>1 DEF PlaceOrder
  <2> QED
    BY <1>0, <2>1, <2>2, WaitOInv DEF Calls
<1>2. ASSUME NEW c \in Cancellers, CancelOrder(c)
      PROVE  OInv'
  <2>1. /\ Wait(c) /\ (Accepted \/ Refused) /\ pc[c] = "idle" /\ pc[Placer] # "idle"
        /\ order_status' = order_status
    BY <1>2 DEF CancelOrder
  <2> QED
    BY <1>0, <2>1, WaitOInv DEF Calls
<1>3. CASE CancelAllOrders \/ Settles \/ Drop \/ UNCHANGED vars
  BY <1>0, <1>3, SilentOInv DEF CancelAllOrders, Settles, Drop, vars
<1>4. ASSUME NEW c \in Calls, NEW kind \in {"ok", "err"}, WaiterDone(c, kind)
      PROVE  OInv'
  <2>1. UNCHANGED <<order_status, tables, pc, waits, result, notices, asked, overlapped>>
    BY <1>4 DEF WaiterDone
  <2> QED
    BY <1>0, <1>4, <2>1, SilentOInv
<1>5. ASSUME NEW c \in Calls, ReturnData(c)
      PROVE  OInv'
  BY <1>0, <1>5, ReturnsCurrent, EndOInv DEF ReturnData
<1>6. ASSUME NEW c \in Calls, RaiseTWSError(c)
      PROVE  OInv'
  <2>1. Alone(c) => error_data.n > asked[c]
    BY <1>6 DEF RaiseTWSError, End, OInv, EventsInv, AloneInv
  <2> QED
    BY <1>0, <1>6, <2>1, EndOInv DEF RaiseTWSError
<1>7. ASSUME NEW c \in Calls, Timeout(c)
      PROVE  OInv'
  BY <1>0, <1>7, EndOInv DEF Timeout
<1>8. CASE OrderStatus
  <2>1. /\ notices' = notices + 1
        /\ order_status' = response_data' /\ response_data'.n = notices + 1
        /\ fired' = fired \cup Fire("ok", response_event)
        /\ UNCHANGED <<error_data, response_event, error_event, pc, waits, done, result,
                       asked, overlapped>>
    BY <1>8 DEF OrderStatus, Notice
  <2> QED
    BY <1>0, <2>1, NoticeOInv
<1>9. ASSUME Error
      PROVE  OInv'
  <2>1. /\ notices' = notices + 1 /\ error_data'.n = notices + 1
        /\ fired' = fired \cup Fire("err", error_event)
        /\ UNCHANGED <<order_status, response_data, response_event, error_event, pc, waits,
                       done, result, asked, overlapped>>
    BY <1>9 DEF Error, SetError, Notice
  <2> QED
    BY <1>0, <2>1, NoticeOInv
<1> QED
  BY <1>1, <1>2, <1>3, <1>4, <1>5, <1>6, <1>7, <1>8, <1>9
     DEF Next, Awaken, RejectOrWarn, AnswerCancel

LEMMA OrdersInvariance == Spec => []OInv
<1>1. Init => OInv
  <2>1. Init => EventsInv /\ AloneInv /\ NoLostWakeup /\ AnswerIsFresh
    BY CallsAssumption DEF Init, EventsInv, RegisteredIsAwaited, AloneInv, NoLostWakeup,
                           AnswerIsFresh, Calls
  <2> QED
    BY <2>1, InitTypeOK DEF OInv
<1> QED
  BY <1>1, StepOInv, PTL DEF Spec

\* Events of one order, which its calls take from each other, are awaited as
\* long as they are registered.
THEOREM OrderEventsAreAwaited == Spec => []RegisteredIsAwaited
<1>1. OInv => RegisteredIsAwaited
  BY DEF OInv, EventsInv
<1> QED
  BY <1>1, OrdersInvariance, PTL

\* A call that waits alone returns or raises what TWS said after it asked, never
\* what was left in the tables or said to nobody.
THEOREM AnswersAreFresh == Spec => []AnswerIsFresh
<1>1. OInv => AnswerIsFresh
  BY DEF OInv
<1> QED
  BY <1>1, OrdersInvariance, PTL

\* Whatever TWS says of the order while a call waits alone wakes it.
THEOREM NoOrderWakeupLost == Spec => []NoLostWakeup
<1>1. OInv => NoLostWakeup
  BY DEF OInv
<1> QED
  BY <1>1, OrdersInvariance, PTL

\* A call that waits alone returns the status the order has when it returns, and
\* not the one that woke it.
THEOREM AnswersAreCurrent == Spec => AnswerIsCurrent
<1>1. ASSUME OInv, [Next]_vars, NEW c \in Calls,
             pc[c] = "waiting", pc'[c] = "returned", Alone(c)
      PROVE  result'[c] = order_status
  <2> USE DEF tables, tasks, tws
  <2>0. TypeOK
    BY <1>1 DEF OInv
  <2>1. ASSUME NEW d \in Calls, Wait(d), d = c => pc[c] = "idle"
        PROVE  FALSE
    BY <1>1, <2>0, <2>1 DEF Wait, TypeOK
  <2>2. ASSUME NEW d \in Calls, NEW outcome, NEW data, End(d, outcome, data)
        PROVE  d = c /\ outcome = "returned" /\ result'[c] = data
    BY <1>1, <2>0, <2>2 DEF End, TypeOK
  <2>3. CASE UNCHANGED pc
    BY <1>1, <2>3
  <2>4. ASSUME NEW d \in Calls, ReturnData(d)
        PROVE  result'[c] = order_status
    <3>1. d = c /\ result'[c] = response_data
      BY <2>2, <2>4 DEF ReturnData
    <3> QED
      BY <1>1, <2>4, <3>1, ReturnsCurrent
  <2>5. ASSUME NEW d \in Calls, RaiseTWSError(d) \/ Timeout(d)
        PROVE  FALSE
    BY <2>2, <2>5 DEF RaiseTWSError, Timeout
  <2>6. CASE PlaceOrder \/ \E d \in Cancellers : CancelOrder(d)
    BY <2>1, <2>6 DEF PlaceOrder, CancelOrder, Calls
  <2> QED
    BY <1>1, <2>3, <2>4, <2>5, <2>6
       DEF Next, Awaken, WaiterDone, CancelAllOrders, OrderStatus, RejectOrWarn, AnswerCancel,
           Error, Settles, Drop, vars
<1>2. OInv /\ [Next]_vars =>
        [\A c \in Calls :
           pc[c] = "waiting" /\ pc'[c] = "returned" /\ Alone(c) => result'[c] = order_status]_vars
  BY <1>1
<1> QED
  BY <1>2, OrdersInvariance, PTL DEF Spec, AnswerIsCurrent
=============================================================================
