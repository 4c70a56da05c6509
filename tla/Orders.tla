------------------------------- MODULE Orders -------------------------------
(***************************************************************************)
(* The order methods of AsyncTWSClient on one order: place_order,          *)
(* cancel_order and cancel_all_orders.                                     *)
(*                                                                         *)
(* Placing and cancelling wait for the same key, order_status_<orderId>,   *)
(* and for the same error key; and TWS reports on an order unasked, as it  *)
(* is filled or changed.  So calls on one order meet as no other calls by  *)
(* id do.  Different orders have different keys and do not meet.           *)
(*                                                                         *)
(* The grain and the engine of the calls are those of Correlation.         *)
(***************************************************************************)
EXTENDS Integers

CONSTANTS
  Placer,      \* the place_order call
  Cancellers,  \* the cancel_order calls
  MaxNotices,  \* bound: callbacks on the order
  NoCall       \* absence of a call

Calls == {Placer} \cup Cancellers

ASSUME CallsAssumption == Placer \notin Cancellers /\ NoCall \notin Calls
ASSUME BoundsAssumption == MaxNotices \in Nat

VARIABLES
  connected,      \* isConnected()
  order_status,   \* the last status of the order
  response_event, \* event under order_status_<id>, named by the call that made it
  error_event,    \* event under error_<id>, idem
  response_data,  \* data under order_status_<id>
  error_data,     \* data under error_<id>
  fired,          \* events that are set
  pc,             \* where each call is
  waits,          \* the two events each call awaits
  done,           \* waiter tasks of each call that have completed
  result,         \* what each call returned or raised
  order,          \* the order at TWS
  cancels,        \* cancel requests TWS has yet to answer, "all" among them
  notices,        \* callbacks on the order so far
  asked,          \* history: notices so far when each call asked
  overlapped      \* history: calls that waited while another one waited

tables == <<response_event, error_event, response_data, error_data, fired>>
tasks == <<pc, waits, done, result>>
tws == <<order, cancels>>
vars == <<connected, order_status, tables, tasks, tws, notices, asked, overlapped>>

\* A status or an error, and which callback on the order it came with.
None == [what |-> "none", n |-> 0]
Notice(what) == [what |-> what, n |-> notices + 1]

Settled == {"filled", "cancelled", "rejected"}
Statuses == {"working"} \cup Settled

NoticeType(whats) == [what : whats \cup {"none"}, n : 0..MaxNotices]

TypeOK ==
  /\ connected \in BOOLEAN
  /\ order_status \in NoticeType(Statuses)
  /\ response_event \in Calls \cup {NoCall}
  /\ error_event \in Calls \cup {NoCall}
  /\ response_data \in NoticeType(Statuses)
  /\ error_data \in NoticeType({"error"})
  /\ fired \subseteq {"ok", "err"} \X Calls
  /\ pc \in [Calls -> {"idle", "waiting", "returned", "tws_error", "timed_out"}]
  /\ waits \in [Calls -> [ok : Calls \cup {NoCall}, err : Calls \cup {NoCall}]]
  /\ done \in [Calls -> SUBSET {"ok", "err"}]
  /\ result \in [Calls -> NoticeType(Statuses \cup {"error"})]
  /\ order \in {"none"} \cup Statuses
  /\ cancels \subseteq Cancellers \cup {"all"}
  /\ notices \in 0..MaxNotices
  /\ asked \in [Calls -> 0..MaxNotices]
  /\ overlapped \subseteq Calls

Init ==
  /\ connected = TRUE
  /\ order_status = None
  /\ response_event = NoCall /\ error_event = NoCall
  /\ response_data = None /\ error_data = None
  /\ fired = {}
  /\ pc = [c \in Calls |-> "idle"]
  /\ waits = [c \in Calls |-> [ok |-> NoCall, err |-> NoCall]]
  /\ done = [c \in Calls |-> {}]
  /\ result = [c \in Calls |-> None]
  /\ order = "none"
  /\ cancels = {}
  /\ notices = 0
  /\ asked = [c \in Calls |-> 0]
  /\ overlapped = {}

Fire(kind, event) == IF event = NoCall THEN {} ELSE {<<kind, event>>}

\* Faulty: the error is stored but its event is not set.
StoresErrorOnly ==
  /\ notices < MaxNotices
  /\ notices' = notices + 1
  /\ error_data' = Notice("error")
  /\ UNCHANGED fired

\* _set_event for the error key of the order.
SetError ==
  /\ notices < MaxNotices
  /\ notices' = notices + 1
  /\ error_data' = Notice("error")
  /\ fired' = fired \cup Fire("err", error_event)

(***************************************************************************)
(* Calls                                                                   *)
(***************************************************************************)

Waiting == {c \in Calls : pc[c] = "waiting"}

\* From the request to the first await of _wait_for_response: look up or
\* create both events and wait.
Wait(c) ==
  LET ok == IF response_event = NoCall THEN c ELSE response_event
      err == IF error_event = NoCall THEN c ELSE error_event
  IN /\ response_event' = ok
     /\ error_event' = err
     /\ waits' = [waits EXCEPT ![c] = [ok |-> ok, err |-> err]]
     /\ pc' = [pc EXCEPT ![c] = "waiting"]
     /\ asked' = [asked EXCEPT ![c] = notices']
     /\ overlapped' = IF Waiting = {} THEN overlapped
                      ELSE overlapped \cup {c} \cup Waiting
     /\ UNCHANGED <<connected, response_data, done, result>>

\* The request is enqueued, or EClient reports error 504 before the wait.
Accepted == connected /\ UNCHANGED <<error_data, fired, notices>>
Refused == ~connected /\ SetError /\ UNCHANGED <<order, cancels>>

\* place_order: a new id, so that no status is known of it.
PlaceOrder ==
  /\ pc[Placer] = "idle"
  /\ order_status' = None
  /\ \/ Accepted /\ order' = "working" /\ UNCHANGED cancels
     \/ Refused
  /\ Wait(Placer)

\* cancel_order, as soon as the order has its id.
CancelOrder(c) ==
  /\ pc[c] = "idle"
  /\ pc[Placer] # "idle"
  /\ \/ Accepted /\ cancels' = cancels \cup {c} /\ UNCHANGED order
     \/ Refused
  /\ Wait(c)
  /\ UNCHANGED order_status

\* cancel_all_orders waits for nothing.
CancelAllOrders ==
  /\ connected
  /\ "all" \notin cancels
  /\ cancels' = cancels \cup {"all"}
  /\ UNCHANGED <<connected, order_status, tables, tasks, order, notices,
                 asked, overlapped>>

\* A waiter task runs after its event was set.
WaiterDone(c, kind) ==
  /\ pc[c] = "waiting"
  /\ kind \notin done[c]
  /\ <<kind, waits[c][kind]>> \in fired
  /\ done' = [done EXCEPT ![c] = @ \cup {kind}]
  /\ UNCHANGED <<connected, order_status, tables, pc, waits, result, tws, notices,
                 asked, overlapped>>

\* Faulty: the success event stays in the table, set, for the next call.
KeepsEvent(c, outcome, data) ==
  /\ pc[c] = "waiting"
  /\ pc' = [pc EXCEPT ![c] = outcome]
  /\ result' = [result EXCEPT ![c] = data]
  /\ error_event' = NoCall
  /\ response_data' = None /\ error_data' = None
  /\ waits' = [waits EXCEPT ![c] = [ok |-> NoCall, err |-> NoCall]]
  /\ done' = [done EXCEPT ![c] = {}]
  /\ UNCHANGED <<connected, order_status, response_event, fired, tws, notices, asked, overlapped>>

\* An end of _wait_for_response, which cleans up both keys.  The locals of the
\* call are gone, and the events if no other call awaits them.
End(c, outcome, data) ==
  /\ pc[c] = "waiting"
  /\ pc' = [pc EXCEPT ![c] = outcome]
  /\ result' = [result EXCEPT ![c] = data]
  /\ response_event' = NoCall /\ error_event' = NoCall
  /\ response_data' = None /\ error_data' = None
  /\ waits' = [waits EXCEPT ![c] = [ok |-> NoCall, err |-> NoCall]]
  /\ done' = [done EXCEPT ![c] = {}]
  /\ fired' = {f \in fired : \E d \in Waiting \ {c} : waits[d][f[1]] = f[2]}
  /\ UNCHANGED <<connected, order_status, tws, notices, asked, overlapped>>

\* Faulty: the event is returned in place of the data.
ReturnsEvent(c) == "ok" \in done[c] /\ End(c, "returned", response_event)
ReturnData(c) == "ok" \in done[c] /\ End(c, "returned", response_data)
RaiseTWSError(c) == done[c] = {"err"} /\ End(c, "tws_error", error_data)
\* Faulty: the wait has no timeout.
NoTimeout(c) == c \notin Calls
Timeout(c) == done[c] = {} /\ End(c, "timed_out", None)

(***************************************************************************)
(* TWS                                                                     *)
(***************************************************************************)

\* Faulty: only the first status of an order is signalled.
SignalsOnce ==
  /\ connected
  /\ order # "none"
  /\ notices < MaxNotices
  /\ notices' = notices + 1
  /\ order_status' = Notice(order)
  /\ IF order_status = None
       THEN response_data' = Notice(order) /\ fired' = fired \cup Fire("ok", response_event)
       ELSE UNCHANGED <<response_data, fired>>
  /\ UNCHANGED <<connected, response_event, error_event, error_data, tasks, tws,
                 asked, overlapped>>

\* orderStatus: TWS reports the order as it is, asked or not.
OrderStatus ==
  /\ connected
  /\ order # "none"
  /\ notices < MaxNotices
  /\ notices' = notices + 1
  /\ order_status' = Notice(order)
  /\ response_data' = Notice(order)
  /\ fired' = fired \cup Fire("ok", response_event)
  /\ UNCHANGED <<connected, response_event, error_event, error_data, tasks, tws,
                 asked, overlapped>>

\* error: no code TWS uses for an order is in INFO_ERROR_CODES.
Error ==
  /\ connected
  /\ SetError
  /\ UNCHANGED <<connected, order_status, response_event, error_event, response_data,
                 tasks, asked, overlapped>>

\* TWS rejects the order (201), or warns that it will wait (399).
RejectOrWarn ==
  /\ order = "working"
  /\ order' \in {"working", "rejected"}
  /\ UNCHANGED cancels
  /\ Error

\* A cancel was done (202), or refused as the order was settled before (161).
AnswerCancel(c) ==
  /\ order \in Settled
  /\ cancels' = cancels \ {c}
  /\ UNCHANGED order
  /\ Error

\* The order is filled, or TWS processes a cancel, ours or another.
Settles ==
  /\ connected
  /\ order = "working"
  /\ order' \in {"filled", "cancelled"}
  /\ UNCHANGED <<connected, order_status, tables, tasks, cancels, notices, asked, overlapped>>

Drop ==
  /\ connected
  /\ connected' = FALSE
  /\ UNCHANGED <<order_status, tables, tasks, tws, notices, asked, overlapped>>

Awaken(c) ==
  \/ \E kind \in {"ok", "err"} : WaiterDone(c, kind)
  \/ ReturnData(c) \/ RaiseTWSError(c) \/ Timeout(c)

Next ==
  \/ PlaceOrder \/ CancelAllOrders
  \/ \E c \in Cancellers : CancelOrder(c)
  \/ \E c \in Calls : Awaken(c)
  \/ OrderStatus
  \/ RejectOrWarn \/ Settles
  \/ \E c \in cancels : AnswerCancel(c)
  \/ Drop

Spec == Init /\ [][Next]_vars

\* The event loop runs every ready task and every timer that is due.
FairSpec == Spec /\ \A c \in Calls : WF_vars(Awaken(c))

(***************************************************************************)
(* Properties                                                              *)
(***************************************************************************)

Alone(c) == c \notin overlapped

\* A call that waits alone is never answered by what came before it asked: not
\* by a status or an error that nobody waited for, nor by what earlier calls
\* left in the tables.
AnswerIsFresh ==
  \A c \in Calls :
    pc[c] \in {"returned", "tws_error"} /\ Alone(c) => result[c].n > asked[c]

\* It returns the status the order has then, not the one that woke it.
AnswerIsCurrent ==
  [][\A c \in Calls :
       pc[c] = "waiting" /\ pc'[c] = "returned" /\ Alone(c) => result'[c] = order_status]_vars

\* Any callback on the order after it asked sets an event that it awaits.
NoLostWakeup ==
  \A c \in Calls :
    pc[c] = "waiting" /\ Alone(c) /\ notices > asked[c] =>
      <<"ok", waits[c].ok>> \in fired \/ <<"err", waits[c].err>> \in fired

\* Every event in the tables is awaited by a call that is still waiting.
RegisteredIsAwaited ==
  /\ response_event # NoCall => \E c \in Waiting : waits[c].ok = response_event
  /\ error_event # NoCall => \E c \in Waiting : waits[c].err = error_event

\* Calls on one order end even when one takes the event from another.
EveryCallEnds ==
  \A c \in Calls : pc[c] = "waiting" ~> pc[c] # "waiting"

(***************************************************************************)
(* Statements of the documentation that the code does not keep             *)
(***************************************************************************)

\* cancel_order will "return the resulting order status" (docstring): not one
\* from before the cancel took effect.
CancelReturnsResult ==
  \A c \in Cancellers :
    pc[c] = "returned" /\ Alone(c) => result[c].what \in Settled
=============================================================================
