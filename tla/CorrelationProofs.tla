------------------------- MODULE CorrelationProofs -------------------------
(***************************************************************************)
(* Proofs about Correlation: type correctness, and, when TWS never         *)
(* announces an id that was already used, the private correlation of calls *)
(* that carry a request id.                                                *)
(***************************************************************************)
EXTENDS Correlation, TLAPS

Issued(c) == pc[c] \in {"waiting", "returned", "tws_error", "timed_out"}

\* The type invariant with what it rests on: a request TWS knows of has an
\* accumulator if its callbacks need one.  It holds whatever ids TWS announces.
TInv ==
  /\ TypeOK
  /\ \A c \in Calls : ~Issued(c) => srv[c] = "none"
  /\ \A c \in Calls : Issued(c) /\ Method[c] \in Accumulates /\ srv[c] # "none"
       => accumulators[Key(c)] \in Calls

(***************************************************************************)
(* The inductive invariant of calls that carry a request id, which needs   *)
(* that TWS announces no id that was already used.                         *)
(***************************************************************************)

\* A call that has not sent its request has left no trace.
Untouched ==
  \A c \in Calls :
    /\ pc[c] = "need_id" => c \in ById
    /\ ~Issued(c) =>
         /\ id[c] = 0 /\ done[c] = {}
         /\ c \in ById => <<"ok", c>> \notin fired /\ <<"err", c>> \notin fired

\* Ids handed out lie below the counter and are never handed out again.
IdsInv ==
  /\ \A c \in Calls \ ById : id[c] = 0
  /\ \A c \in ById : Issued(c) => id[c] >= 1 /\ id[c] < next_valid_id_value
  /\ \A c, d \in ById : Issued(c) /\ Issued(d) /\ c # d => id[c] # id[d]

\* An event under the keys of a request id is awaited by the call that has
\* the id; the events under id 0 belong to calls without an id.
SuccessEventOf(k, e) ==
  IF k[1] \in ByReqId THEN e \in ById /\ pc[e] = "waiting" /\ Key(e) = k
  ELSE e \in Calls \ ById

ErrorEventOf(i, e) == e \in ById /\ pc[e] = "waiting" /\ id[e] = i

EventsInv ==
  /\ \A k \in Keys : response_events[k] # NoCall => SuccessEventOf(k, response_events[k])
  /\ \A i \in Ids \ {0} : error_events[i] # NoCall => ErrorEventOf(i, error_events[i])
  /\ error_events[0] \in (Calls \ ById) \cup {NoCall}
  /\ error_events[NoValidId] = NoCall

\* The accumulator of a call by id is its own and holds what TWS sent it.
ObjectsInv ==
  /\ \A k \in Keys : k[1] \notin ByReqId => accumulators[k] \in (Calls \ ById) \cup {NoCall}
  /\ \A c \in ById : Method[c] \in Accumulates =>
       /\ Issued(c) => accumulators[Key(c)] = c
       /\ contents[c][c] = sent[c]
       /\ \A s \in Sources \ {c} : contents[c][s] = 0

\* The data TWS's whole answer to c leaves under its key.
OwnData(c, d) ==
  \/ Method[c] \in Accumulates /\ d = Ref(c) /\ contents[c][c] >= Items[c]
  \/ Method[c] \in Accumulates /\ d = Val(Zero) /\ Items[c] = 0
  \/ Method[c] \notin Accumulates /\ d = Val(One(c))

\* A waiting call by id awaits its own events, which are in the tables, and
\* finds its answer or its error there once they are set.
AwaitsOwn(c) ==
  /\ waits[c] = [ok |-> c, err |-> c]
  /\ response_events[Key(c)] = c
  /\ error_events[id[c]] = c
  /\ srv[c] \in {"live", "ended"} => <<"ok", c>> \in fired
  /\ srv[c] = "failed" => <<"err", c>> \in fired
  /\ <<"ok", c>> \in fired => OwnData(c, response_data[Key(c)])
  /\ <<"err", c>> \in fired => error_data[id[c]] = c

WaitingInv == \A c \in ById : pc[c] = "waiting" => AwaitsOwn(c)

\* Waiter tasks, error events and cancels.
TasksInv ==
  /\ \A c \in Calls : \A kind \in done[c] : <<kind, waits[c][kind]>> \in fired
  /\ \A c \in Calls \ ById : pc[c] = "waiting" => waits[c].err \in Calls \ ById
  /\ \A c \in Calls : <<"err", c>> \in fired => c \in ById /\ srv[c] = "failed"
  /\ \A c \in cancelled : pc[c] = "returned"

\* What a finished call gave its caller.
ResultInv ==
  \A c \in Calls :
    /\ pc[c] = "returned" /\ c \in ById =>
         \/ OwnData(c, result[c])
         \/ /\ Method[c] = "executions" /\ <<"ok", c>> \notin fired
            /\ result[c] \in {Ref(c), Val(Zero)}
    /\ pc[c] = "tws_error" => c \in ById /\ srv[c] = "failed" /\ result[c] = Fault(c)

IInv ==
  /\ TInv /\ Untouched /\ IdsInv /\ EventsInv /\ ObjectsInv
  /\ WaitingInv /\ TasksInv /\ ResultInv

(***************************************************************************)
(* Type correctness                                                        *)
(***************************************************************************)

LEMMA KeyType ==
  ASSUME NEW c \in Calls, NEW i \in Ids
  PROVE  <<Method[c], i>> \in Keys
BY DEF Keys

\* Bags of items and the records made of them are well typed.
LEMMA DataType ==
  /\ Zero \in [Sources -> Nat]
  /\ \A s \in Sources : One(s) \in [Sources -> Nat]
  /\ NoData \in Data
  /\ \A o \in Calls \cup {NoCall} : Ref(o) \in Data /\ Fault(o) \in Data
  /\ \A b \in [Sources -> Nat] : Val(b) \in Data
<1>1. Zero \in [Sources -> Nat]
  BY DEF Zero
<1>2. \A s \in Sources : One(s) \in [Sources -> Nat]
  BY <1>1 DEF One
<1> QED
  BY <1>1, <1>2 DEF NoData, Ref, Fault, Val, Data

LEMMA FireType ==
  ASSUME NEW kind \in {"ok", "err"}, NEW e \in Calls \cup {NoCall}
  PROVE  Fire(kind, e) \subseteq {"ok", "err"} \X Calls
BY DEF Fire

\* Issuing a request, whichever way its id was obtained.
LEMMA IssueTInv ==
  ASSUME TInv, NEW c \in Calls, NEW i \in Ids, ~Issued(c), Issue(c, i),
         next_valid_id_value' \in 0..MaxId + 1
  PROVE  TInv'
<1> DEFINE k == <<Method[c], i>>
           e == IF Method[c] \in ByReqId THEN i ELSE NoValidId
<1>0. /\ k \in Keys /\ e \in ErrIds /\ i \in ErrIds
  BY KeyType DEF ErrIds
<1>1. /\ pc' = [pc EXCEPT ![c] = "waiting"]
      /\ id' = [id EXCEPT ![c] = i]
      /\ accumulators' = IF Method[c] \in Accumulates
                          THEN [accumulators EXCEPT ![k] = c] ELSE accumulators
      /\ srv' = IF connected THEN [srv EXCEPT ![c] = "open"] ELSE srv
  BY Zenon DEF Issue
<1>2. TypeOK'
  <2>1. fired' \subseteq {"ok", "err"} \X Calls
    <3>1. error_events[e] \in Calls \cup {NoCall}
      BY <1>0 DEF TInv, TypeOK
    <3>2. fired' = fired \/ fired' = fired \cup Fire("err", error_events[e])
      BY DEF Issue, SetError
    <3> QED
      BY <3>1, <3>2, FireType DEF TInv, TypeOK
  <2>2. error_data' \in [ErrIds -> Calls \cup {NoCall}]
    BY <1>0 DEF Issue, SetError, TInv, TypeOK
  <2>3. /\ response_events' \in [Keys -> Calls \cup {NoCall}]
        /\ error_events' \in [ErrIds -> Calls \cup {NoCall}]
        /\ waits' \in [Calls -> [ok : Calls \cup {NoCall}, err : Calls \cup {NoCall}]]
    BY <1>0 DEF Issue, TInv, TypeOK
  <2>4. /\ pc' \in [Calls -> {"idle", "need_id", "waiting", "returned",
                              "tws_error", "timed_out", "no_id"}]
        /\ id' \in [Calls -> Ids]
        /\ accumulators' \in [Keys -> Calls \cup {NoCall}]
        /\ srv' \in [Calls -> {"none", "open", "live", "ended", "failed", "gone"}]
    BY <1>1 DEF TInv, TypeOK
  <2>5. overlapped' \subseteq Calls
    BY DEF Issue, Rivals, TInv, TypeOK
  <2> QED
    BY <2>1, <2>2, <2>3, <2>4, <2>5 DEF Issue, TInv, TypeOK
<1>3. \A d \in Calls : ~Issued(d)' => srv'[d] = "none"
  BY <1>1 DEF TInv, TypeOK, Issued
<1>4. ASSUME NEW d \in Calls, Issued(d)', Method[d] \in Accumulates, srv'[d] # "none"
      PROVE  accumulators'[Key(d)'] \in Calls
  <2>1. CASE d = c
    BY <2>1, <1>0, <1>1, <1>4 DEF TInv, TypeOK, Key
  <2>2. CASE d # c
    <3>1. Issued(d) /\ srv[d] # "none" /\ Key(d)' = Key(d) /\ Key(d) \in Keys
      BY <2>2, <1>1, <1>4, KeyType DEF TInv, TypeOK, Issued, Key
    <3> QED
      BY <3>1, <1>0, <1>1, <1>4 DEF TInv, TypeOK
  <2> QED
    BY <2>1, <2>2
<1> QED
  BY <1>2, <1>3, <1>4 DEF TInv

\* A call that ends leaves its id, its accumulator and TWS's side alone.
LEMMA FinishTInv ==
  ASSUME TInv, NEW c \in Calls, pc[c] = "waiting", NEW cancels,
         NEW outcome \in {"returned", "tws_error", "timed_out"}, NEW d \in Data,
         Finish(c, outcome, d), Cleanup(c, cancels)
  PROVE  TInv'
<1>1. Key(c) \in Keys /\ id[c] \in ErrIds
  BY KeyType DEF TInv, TypeOK, Key, ErrIds
<1>2. /\ response_events' \in [Keys -> Calls \cup {NoCall}]
      /\ response_data' \in [Keys -> Data]
      /\ error_events' \in [ErrIds -> Calls \cup {NoCall}]
      /\ cancelled' \subseteq Calls
  BY <1>1, DataType DEF Cleanup, TInv, TypeOK
<1>3. error_data' \in [ErrIds -> Calls \cup {NoCall}]
  BY <1>1 DEF Cleanup, TInv, TypeOK
<1>4. /\ pc' \in [Calls -> {"idle", "need_id", "waiting", "returned",
                            "tws_error", "timed_out", "no_id"}]
      /\ result' \in [Calls -> Data]
  BY DEF Finish, TInv, TypeOK
<1>5. TypeOK'
  BY <1>2, <1>3, <1>4 DEF Finish, client, objects, TInv, TypeOK
<1>6. \A x \in Calls : Issued(x)' = Issued(x) /\ Key(x)' = Key(x) /\ srv'[x] = srv[x]
  BY DEF Finish, Issued, Key, TInv, TypeOK
<1> QED
  BY <1>5, <1>6 DEF Finish, objects, TInv

\* Steps that move no call between sent and unsent requests.
LEMMA FrameTInv ==
  ASSUME TInv, TypeOK', UNCHANGED <<id, accumulators>>,
         \A x \in Calls : Issued(x)' = Issued(x),
         \A x \in Calls : srv'[x] # srv[x] => srv[x] # "none"
  PROVE  TInv'
BY DEF TInv, Key

LEMMA SetEventType ==
  ASSUME TypeOK, NEW k \in Keys, NEW d \in Data, SetEvent(k, d)
  PROVE  /\ response_data' \in [Keys -> Data]
         /\ fired' \subseteq {"ok", "err"} \X Calls
         /\ response_events' \in [Keys -> Calls \cup {NoCall}]
         /\ error_events' \in [ErrIds -> Calls \cup {NoCall}]
         /\ error_data' \in [ErrIds -> Calls \cup {NoCall}]
<1>1. response_events[k] \in Calls \cup {NoCall}
  BY DEF TypeOK
<1> QED
  BY <1>1, FireType DEF SetEvent, TypeOK

LEMMA InitTInv == Init => TInv
BY DataType, BoundsAssumption, CallsAssumption DEF Init, TInv, TypeOK, Issued, None, Ids, Sources

\* Steps of the calls.
LEMMA CallTInv ==
  ASSUME TInv, NEW c \in Calls,
         \/ CallById(c) \/ CallEarly(c) \/ CallShared(c) \/ CallCached(c) \/ Awaken(c)
  PROVE  TInv'
<1> USE DEF client, tables, objects, tasks, tws
<1>1. CASE CallById(c) \/ GotId(c)
  <2>1. ~Issued(c) /\ next_valid_id_value \in Ids /\ Issue(c, next_valid_id_value)
    BY <1>1, BoundsAssumption DEF CallById, GotId, IssueWithId, Issued, Ids
  <2>2. next_valid_id_value' \in 0..MaxId + 1
    BY <1>1, BoundsAssumption DEF CallById, GotId, IssueWithId
  <2> QED
    BY <2>1, <2>2, IssueTInv
<1>2. CASE CallShared(c)
  <2>1. ~Issued(c) /\ 0 \in Ids /\ Issue(c, 0)
    BY <1>2, BoundsAssumption DEF CallShared, Issued, Ids
  <2>2. next_valid_id_value' \in 0..MaxId + 1
    BY <1>2 DEF CallShared, TInv, TypeOK
  <2> QED
    BY <2>1, <2>2, IssueTInv
<1>3. CASE CallEarly(c) \/ GaveUpOnId(c)
  <2>1. TypeOK'
    BY <1>3 DEF CallEarly, GaveUpOnId, TInv, TypeOK
  <2>2. \A x \in Calls : Issued(x)' = Issued(x)
    BY <1>3 DEF CallEarly, GaveUpOnId, Issued, TInv, TypeOK
  <2> QED
    BY <1>3, <2>1, <2>2, FrameTInv DEF CallEarly, GaveUpOnId
<1>4. CASE CallCached(c)
  <2>1. TypeOK'
    BY <1>4 DEF CallCached, TInv, TypeOK
  <2>2. srv[c] = "none"
    BY <1>4 DEF CallCached, TInv, Issued
  <2>3. \A x \in Calls \ {c} : Issued(x)' = Issued(x)
    BY <1>4 DEF CallCached, Issued, TInv, TypeOK
  <2>4. Issued(c)'
    BY <1>4 DEF CallCached, Issued, TInv, TypeOK
  <2> QED
    BY <1>4, <2>1, <2>2, <2>3, <2>4 DEF CallCached, TInv, Key
<1>5. ASSUME NEW kind \in {"ok", "err"}, WaiterDone(c, kind)
      PROVE  TInv'
  <2>1. TypeOK'
    BY <1>5 DEF WaiterDone, TInv, TypeOK
  <2>2. \A x \in Calls : Issued(x)' = Issued(x)
    BY <1>5 DEF WaiterDone, Issued
  <2> QED
    BY <1>5, <2>1, <2>2, FrameTInv DEF WaiterDone
<1>6. CASE ReturnData(c)
  <2>1. Key(c) \in Keys
    BY KeyType DEF TInv, TypeOK, Key
  <2>2. response_data[Key(c)] \in Data
    BY <2>1 DEF TInv, TypeOK
  <2> QED
    BY <1>6, <2>2, FinishTInv DEF ReturnData
<1>7. CASE RaiseTWSError(c)
  <2>1. error_data[id[c]] \in Calls \cup {NoCall}
    BY DEF TInv, TypeOK, ErrIds
  <2> DEFINE d == IF error_data[id[c]] = NoCall THEN NoData ELSE Fault(error_data[id[c]])
  <2>2. d \in Data
    BY <2>1, DataType
  <2> HIDE DEF d
  <2>3. pc[c] = "waiting" /\ Finish(c, "tws_error", d) /\ Cleanup(c, FALSE)
    BY <1>7 DEF RaiseTWSError, d
  <2> QED
    BY <2>2, <2>3, FinishTInv
<1>8. CASE Timeout(c)
  <2> DEFINE o == accumulators[Key(c)]
             d == IF contents[o] = Zero THEN Val(Zero) ELSE Ref(o)
  <2>1. Key(c) \in Keys
    BY KeyType DEF TInv, TypeOK, Key
  <2>2. o \in Calls \cup {NoCall}
    BY <2>1 DEF TInv, TypeOK
  <2>3. d \in Data /\ NoData \in Data
    BY <2>2, DataType
  <2> HIDE DEF d
  <2>4. /\ pc[c] = "waiting" /\ Cleanup(c, FALSE)
        /\ Finish(c, "returned", d) \/ Finish(c, "timed_out", NoData)
    BY <1>8 DEF Timeout, d
  <2> QED
    BY <2>3, <2>4, FinishTInv
<1> QED
  BY <1>1, <1>2, <1>3, <1>4, <1>5, <1>6, <1>7, <1>8 DEF Awaken

LEMMA AddItemType ==
  ASSUME TypeOK, NEW c \in Calls, AddItem(c)
  PROVE  /\ contents' \in [Calls -> [Sources -> Nat]]
         /\ sent' \in [Calls -> Nat]
<1> DEFINE o == accumulators[Key(c)]
           b == [contents[o] EXCEPT ![c] = contents[o][c] + 1]
<1>1. contents' = [contents EXCEPT ![o] = b] /\ sent' = [sent EXCEPT ![c] = sent[c] + 1]
  BY DEF AddItem
<1>0. sent' \in [Calls -> Nat] /\ contents \in [Calls -> [Sources -> Nat]]
  BY <1>1 DEF TypeOK
<1>2. CASE o \in Calls
  <2>1. contents[o] \in [Sources -> Nat] /\ c \in Sources
    BY <1>2 DEF TypeOK, Sources
  <2>2. b \in [Sources -> Nat]
    BY <2>1
  <2> QED
    BY <1>0, <1>1, <1>2, <2>2
<1>3. CASE o \notin Calls
  <2>1. contents' = contents
    <3> HIDE DEF o, b
    <3> QED
      BY <1>0, <1>1, <1>3
  <2> QED
    BY <1>0, <2>1
<1> QED
  BY <1>2, <1>3

\* Steps of the callbacks, of TWS and of the network.
LEMMA EventTInv ==
  ASSUME TInv,
         \/ \E c \in Calls :
              \/ ItemCallback(c) \/ EndCallback(c) \/ LastTicksCallback(c)
              \/ PayloadCallback(c) \/ ServerCancels(c)
              \/ \E code \in {"info", "fatal"} : ErrorCallback(c, code)
         \/ \E v \in 1..MaxId : NextValidId(v)
         \/ PushManagedAccounts
         \/ Drop \/ Reconnect
  PROVE  TInv'
<1> USE DEF client, tables, objects, tasks, tws
<1>0. ASSUME UNCHANGED <<pc, id, accumulators>>, TypeOK',
             \A x \in Calls : srv'[x] # srv[x] => srv[x] # "none"
      PROVE  TInv'
  <2>1. \A x \in Calls : Issued(x)' = Issued(x)
    BY <1>0 DEF Issued
  <2> QED
    BY <1>0, <2>1, FrameTInv
<1>1. \A c \in Calls : Key(c) \in Keys /\ ErrId(c) \in ErrIds
  BY KeyType DEF TInv, TypeOK, Key, ErrId, ErrIds
<1>2. ASSUME NEW c \in Calls, ItemCallback(c) \/ ServerCancels(c) \/ LastTicksCallback(c)
      PROVE  TInv'
  <2>1. CASE ItemCallback(c)
    <3>1. TypeOK'
      BY <2>1, AddItemType DEF ItemCallback, TInv, TypeOK
    <3> QED
      BY <2>1, <3>1, <1>0 DEF ItemCallback
  <2>2. CASE ServerCancels(c)
    <3>1. TypeOK'
      BY <2>2 DEF ServerCancels, TInv, TypeOK
    <3> QED
      BY <2>2, <3>1, <1>0 DEF ServerCancels, TInv, TypeOK
  <2>3. CASE LastTicksCallback(c)
    <3>1. accumulators[Key(c)] \in Calls \cup {NoCall}
      BY <1>1 DEF TInv, TypeOK
    <3>2. Ref(accumulators[Key(c)]) \in Data
      BY <3>1, DataType
    <3>3. SetEvent(Key(c), Ref(accumulators[Key(c)])) /\ AddItem(c)
      BY <2>3 DEF LastTicksCallback
    <3>4. TypeOK'
      BY <2>3, <3>2, <3>3, <1>1, SetEventType, AddItemType DEF LastTicksCallback, TInv, TypeOK
    <3> QED
      BY <2>3, <3>4, <1>0 DEF LastTicksCallback, TInv, TypeOK
  <2> QED
    BY <1>2, <2>1, <2>2, <2>3
<1>3. ASSUME NEW c \in Calls, EndCallback(c)
      PROVE  TInv'
  <2>1. accumulators[Key(c)] \in Calls
    <3>1. srv[c] = "open" /\ Method[c] \in Accumulates
      BY <1>3 DEF EndCallback
    <3> QED
      BY <3>1 DEF TInv
  <2>2. Accumulated(c) \in Data
    BY <2>1, DataType DEF Accumulated, TInv, TypeOK
  <2>3. SetEvent(Key(c), Accumulated(c))
    BY <1>3 DEF EndCallback
  <2>4. AfterAnswer(c) \in {"live", "ended"}
    BY DEF AfterAnswer
  <2>5. TypeOK'
    BY <1>3, <2>2, <2>3, <2>4, <1>1, SetEventType DEF EndCallback, TInv, TypeOK
  <2> QED
    BY <1>3, <2>5, <1>0 DEF EndCallback, TInv, TypeOK
<1>4. ASSUME NEW c \in Calls, PayloadCallback(c)
      PROVE  TInv'
  <2>1. Val(One(c)) \in Data
    BY DataType DEF Sources
  <2>2. SetEvent(Key(c), Val(One(c)))
    BY <1>4 DEF PayloadCallback
  <2>3. AfterAnswer(c) \in {"live", "ended"}
    BY DEF AfterAnswer
  <2>4. TypeOK'
    BY <1>4, <2>1, <2>2, <2>3, <1>1, SetEventType DEF PayloadCallback, TInv, TypeOK
  <2> QED
    BY <1>4, <2>4, <1>0 DEF PayloadCallback, TInv, TypeOK
<1>5. ASSUME NEW c \in Calls, NEW code \in {"info", "fatal"}, ErrorCallback(c, code)
      PROVE  TInv'
  <2>1. error_events[ErrId(c)] \in Calls \cup {NoCall}
    BY <1>1 DEF TInv, TypeOK
  <2>2. Fire("err", error_events[ErrId(c)]) \subseteq {"ok", "err"} \X Calls
    BY <2>1, FireType
  <2>3. CASE UNCHANGED <<error_data, fired, srv>>
    <3>1. TypeOK'
      BY <1>5, <2>3 DEF ErrorCallback, TInv, TypeOK
    <3> QED
      BY <1>5, <2>3, <3>1, <1>0 DEF ErrorCallback
  <2>4. CASE SetError(ErrId(c), c) /\ srv' = [srv EXCEPT ![c] = "failed"]
    <3>1. TypeOK'
      BY <1>5, <2>4, <1>1, <2>2 DEF ErrorCallback, SetError, TInv, TypeOK
    <3> QED
      BY <1>5, <2>4, <3>1, <1>0 DEF ErrorCallback, TInv, TypeOK
  <2> QED
    BY <1>5, <2>3, <2>4 DEF ErrorCallback
<1>6. ASSUME NEW v \in 1..MaxId, NextValidId(v)
      PROVE  TInv'
  <2>1. TypeOK'
    BY <1>6, BoundsAssumption DEF NextValidId, TInv, TypeOK
  <2> QED
    BY <1>6, <2>1, <1>0 DEF NextValidId
<1>7. CASE PushManagedAccounts
  <2> DEFINE k == <<"managed_accounts", 0>>
             d == Val(One(Push))
  <2>1. k \in Keys
    BY BoundsAssumption DEF Keys, Ids
  <2>2. d \in Data
    BY DataType DEF Sources
  <2>3. SetEvent(k, d)
    BY <1>7 DEF PushManagedAccounts
  <2>4. TypeOK'
    BY <1>7, <2>1, <2>2, <2>3, SetEventType DEF PushManagedAccounts, TInv, TypeOK
  <2> QED
    BY <1>7, <2>4, <1>0 DEF PushManagedAccounts
<1>8. CASE Drop
  <2>1. TypeOK'
    BY <1>8 DEF Drop, TInv, TypeOK
  <2> QED
    BY <1>8, <2>1, <1>0 DEF Drop
<1>9. CASE Reconnect
  <2>1. \A x \in Calls : srv'[x] \in {srv[x], "gone"} /\ (srv'[x] # srv[x] => srv[x] # "none")
    BY <1>9 DEF Reconnect, TInv, TypeOK
  <2>2. TypeOK'
    BY <1>9 DEF Reconnect, TInv, TypeOK
  <2> QED
    BY <1>9, <2>1, <2>2, <1>0 DEF Reconnect
<1> QED
  BY <1>2, <1>3, <1>4, <1>5, <1>6, <1>7, <1>8, <1>9

LEMMA StepTInv == TInv /\ [Next]_vars => TInv'
<1>1. ASSUME TInv, Next
      PROVE  TInv'
  BY <1>1, CallTInv, EventTInv DEF Next
<1>2. ASSUME TInv, UNCHANGED vars
      PROVE  TInv'
  BY <1>2 DEF vars, client, tables, objects, tasks, tws, TInv, TypeOK, Issued, Key
<1> QED
  BY <1>1, <1>2

\* The tables, accumulators and calls keep their types, whatever ids TWS
\* announces and however its callbacks interleave with the calls.
THEOREM TypeCorrect == Spec => []TypeOK
<1>1. TInv => TypeOK
  BY DEF TInv
<1> QED
  BY <1>1, InitTInv, StepTInv, PTL DEF Spec

(***************************************************************************)
(* The inductive invariant                                                 *)
(***************************************************************************)

\* Issued calls by id have keys of their own, apart from all id-0 keys.
LEMMA KeysApart ==
  ASSUME TypeOK, IdsInv
  PROVE  /\ \A c \in Calls : Key(c) \in Keys /\ Key(c)[1] = Method[c] /\ id[c] \in ErrIds
         /\ \A c \in ById : Issued(c) => id[c] \in Ids \ {0}
         /\ \A c, d \in ById : Issued(c) /\ Issued(d) /\ c # d => Key(c) # Key(d) /\ id[c] # id[d]
         /\ \A c \in Calls \ ById : Key(c) = <<Method[c], 0>> /\ Method[c] \notin ByReqId
BY KeyType DEF TypeOK, IdsInv, Key, ErrIds, Ids, ById

LEMMA ByIdCalls == \A c : c \in ById <=> c \in Calls /\ Method[c] \in ByReqId
BY DEF ById

LEMMA InitIInv == Init => IInv
<1> SUFFICES ASSUME Init PROVE IInv
  OBVIOUS
<1>1. TInv
  BY InitTInv
<1>2. \A c \in Calls : pc[c] = "idle"
  BY DEF Init
<1>3. Untouched /\ IdsInv /\ WaitingInv /\ ResultInv
  BY <1>2 DEF Init, Untouched, IdsInv, WaitingInv, ResultInv, Issued, ById
<1>4. EventsInv /\ TasksInv
  BY BoundsAssumption DEF Init, EventsInv, TasksInv, ErrIds, Ids
<1>5. ObjectsInv
  BY <1>2 DEF Init, ObjectsInv, Issued, Zero, Sources, ById
<1> QED
  BY <1>1, <1>3, <1>4, <1>5 DEF IInv

\* A call that was handed the next id issues its request.
LEMMA IssueByIdIInv ==
  ASSUME IInv, TInv', NEW c \in ById, ~Issued(c), IssueWithId(c)
  PROVE  IInv'
<1> DEFINE i == next_valid_id_value
           k == <<Method[c], i>>
<1>0. /\ Issue(c, i) /\ i \in 1..MaxId /\ i \in Ids \ {0} /\ i \in ErrIds
      /\ c \in Calls /\ Method[c] \in ByReqId /\ k \in Keys /\ k[1] \in ByReqId
      /\ next_valid_id_value' = i + 1
  BY KeyType, BoundsAssumption DEF IssueWithId, ById, Ids, ErrIds
<1>1. \A d \in ById : Issued(d) => id[d] # i /\ Key(d) # k
  BY <1>0 DEF IInv, IdsInv, TInv, TypeOK, Key, Ids
<1>2. response_events[k] = NoCall /\ error_events[i] = NoCall
  BY <1>0, <1>1 DEF IInv, EventsInv, SuccessEventOf, ErrorEventOf, Issued
<1>3. /\ response_events' = [response_events EXCEPT ![k] = c]
      /\ error_events' = [error_events EXCEPT ![i] = c]
      /\ waits' = [waits EXCEPT ![c] = [ok |-> c, err |-> c]]
      /\ id' = [id EXCEPT ![c] = i]
      /\ pc' = [pc EXCEPT ![c] = "waiting"]
      /\ UNCHANGED <<response_data, contents, done, result, sent, cancelled>>
  BY <1>0, <1>2 DEF Issue
<1>4. /\ error_data' \in {error_data, [error_data EXCEPT ![i] = c]}
      /\ fired' = fired
      /\ srv' \in {srv, [srv EXCEPT ![c] = "open"]}
      /\ accumulators' = IF Method[c] \in Accumulates
                          THEN [accumulators EXCEPT ![k] = c] ELSE accumulators
  BY <1>0, <1>2 DEF Issue, SetError, Fire
<1> HIDE DEF i, k
<1>5. \A d \in Calls \ {c} : /\ Issued(d)' = Issued(d) /\ pc'[d] = pc[d]
                             /\ Key(d)' = Key(d) /\ id'[d] = id[d]
                             /\ waits'[d] = waits[d] /\ srv'[d] = srv[d]
  BY <1>0, <1>3, <1>4 DEF Issued, Key, IInv, TInv, TypeOK
<1>6. /\ Issued(c)' /\ Key(c)' = k /\ id'[c] = i /\ pc'[c] = "waiting"
      /\ waits'[c] = [ok |-> c, err |-> c] /\ srv'[c] \in {"none", "open"}
      /\ srv[c] = "none"
  BY <1>0, <1>3, <1>4 DEF Issued, Key, IInv, TInv, TypeOK, k
<1>7. Untouched'
  BY <1>3, <1>4, <1>5, <1>6 DEF IInv, Untouched
<1>8. IdsInv'
  <2>1. \A d \in Calls \ ById : id'[d] = 0
    BY <1>0, <1>5, ByIdCalls DEF IInv, IdsInv
  <2>2. \A d \in ById : Issued(d)' => id'[d] >= 1 /\ id'[d] < next_valid_id_value'
    BY <1>0, <1>5, <1>6, ByIdCalls, BoundsAssumption DEF IInv, IdsInv, i, TInv, TypeOK, Ids
  <2>3. \A d, f \in ById : Issued(d)' /\ Issued(f)' /\ d # f => id'[d] # id'[f]
    BY <1>1, <1>5, <1>6, ByIdCalls DEF IInv, IdsInv
  <2> QED
    BY <2>1, <2>2, <2>3 DEF IdsInv
<1>9. EventsInv'
  <2>1. \A x, e : SuccessEventOf(x, e) => SuccessEventOf(x, e)'
    BY <1>0, <1>5, ByIdCalls DEF SuccessEventOf, Issued
  <2>2. \A x, e : ErrorEventOf(x, e) => ErrorEventOf(x, e)'
    BY <1>0, <1>5, ByIdCalls DEF ErrorEventOf, Issued
  <2>3. /\ \A x : x = k => SuccessEventOf(x, c)'
        /\ \A x : x = i => ErrorEventOf(x, c)'
    BY <1>0, <1>6 DEF SuccessEventOf, ErrorEventOf
  <2>4. \A x \in Keys : response_events'[x] = IF x = k THEN c ELSE response_events[x]
    BY <1>3 DEF IInv, TInv, TypeOK
  <2>5. \A x \in ErrIds : error_events'[x] = IF x = i THEN c ELSE error_events[x]
    BY <1>3 DEF IInv, TInv, TypeOK
  <2>6. /\ 0 \in ErrIds /\ NoValidId \in ErrIds /\ i # 0 /\ i # NoValidId
        /\ \A x \in Ids : x \in ErrIds
    BY <1>0, BoundsAssumption DEF ErrIds, Ids, NoValidId
  <2> QED
    BY <2>1, <2>2, <2>3, <2>4, <2>5, <2>6 DEF IInv, EventsInv
<1>10. ObjectsInv'
  <2>1. \A x \in Keys : x[1] \notin ByReqId => accumulators'[x] = accumulators[x]
    BY <1>0, <1>4 DEF IInv, TInv, TypeOK
  <2>2. \A d \in ById \ {c} : Issued(d) => Key(d) \in Keys /\ accumulators'[Key(d)] = accumulators[Key(d)]
    BY <1>0, <1>1, <1>4, KeysApart, ByIdCalls DEF IInv, TInv, TypeOK
  <2>3. Method[c] \in Accumulates => accumulators'[Key(c)'] = c
    BY <1>0, <1>4, <1>6 DEF IInv, TInv, TypeOK
  <2> QED
    BY <2>1, <2>2, <2>3, <1>3, <1>5, ByIdCalls DEF IInv, ObjectsInv
<1>11. WaitingInv'
  <2>1. ASSUME NEW d \in ById \ {c}, Issued(d)
        PROVE  /\ response_events'[Key(d)] = response_events[Key(d)]
               /\ error_events'[id[d]] = error_events[id[d]]
               /\ error_data'[id[d]] = error_data[id[d]]
    <3>1. Key(d) \in Keys /\ Key(d) # k /\ id[d] # i /\ id[d] \in ErrIds
      BY <2>1, <1>1, KeysApart, ByIdCalls DEF IInv, TInv
    <3> QED
      BY <3>1, <1>3, <1>4 DEF IInv, TInv, TypeOK
  <2>2. ASSUME NEW d \in ById \ {c}, pc'[d] = "waiting"
        PROVE  AwaitsOwn(d)'
    <3>1. d \in Calls \ {c} /\ Issued(d) /\ pc[d] = "waiting"
      BY <2>2, <1>5, ByIdCalls DEF Issued
    <3>2. AwaitsOwn(d)
      BY <2>2, <3>1 DEF IInv, WaitingInv
    <3> QED
      BY <2>1, <3>1, <3>2, <1>3, <1>4, <1>5 DEF AwaitsOwn, OwnData
  <2>3. AwaitsOwn(c)'
    <3>1. <<"ok", c>> \notin fired' /\ <<"err", c>> \notin fired'
      BY <1>0, <1>4 DEF IInv, Untouched
    <3> QED
      BY <3>1, <1>0, <1>3, <1>6 DEF AwaitsOwn, IInv, TInv, TypeOK
  <2> QED
    BY <2>2, <2>3 DEF WaitingInv
<1>12. TasksInv'
  <2>1. done[c] = {} /\ c \notin cancelled
    BY <1>0 DEF IInv, Untouched, TasksInv, Issued
  <2> QED
    BY <2>1, <1>0, <1>3, <1>4, <1>5, <1>6, ByIdCalls DEF IInv, TasksInv, TInv, TypeOK
<1>13. ResultInv'
  <2>1. \A d \in Calls : pc'[d] \in {"returned", "tws_error"} =>
                           d # c /\ pc'[d] = pc[d] /\ srv'[d] = srv[d]
    BY <1>5, <1>6
  <2>2. \A d, x : OwnData(d, x) => OwnData(d, x)'
    BY <1>3 DEF OwnData
  <2> QED
    BY <1>3, <1>4, <2>1, <2>2 DEF IInv, ResultInv
<1> QED
  BY <1>7, <1>8, <1>9, <1>10, <1>11, <1>12, <1>13 DEF IInv

\* A call without an id meets only the tables of id 0 and of error id -1.
LEMMA IssueSharedIInv ==
  ASSUME IInv, TInv', NEW c \in Calls, CallShared(c)
  PROVE  IInv'
<1> DEFINE k == <<Method[c], 0>>
           ok == IF response_events[k] = NoCall THEN c ELSE response_events[k]
           err == IF error_events[0] = NoCall THEN c ELSE error_events[0]
<1>0. /\ Issue(c, 0) /\ ~Issued(c) /\ c \notin ById /\ Method[c] \notin ByReqId
      /\ k \in Keys /\ k[1] = Method[c] /\ 0 \in ErrIds /\ NoValidId \in ErrIds
      /\ next_valid_id_value' = next_valid_id_value
  BY KeyType, ByIdCalls, BoundsAssumption DEF CallShared, Issued, Shared, ByReqId, Ids, ErrIds
<1>1. /\ response_events' = [response_events EXCEPT ![k] = ok]
      /\ error_events' = [error_events EXCEPT ![0] = err]
      /\ waits' = [waits EXCEPT ![c] = [ok |-> ok, err |-> err]]
      /\ id' = [id EXCEPT ![c] = 0]
      /\ pc' = [pc EXCEPT ![c] = "waiting"]
      /\ UNCHANGED <<response_data, contents, done, result, sent, cancelled>>
  BY <1>0 DEF Issue
<1>2. /\ error_data' \in {error_data, [error_data EXCEPT ![NoValidId] = c]}
      /\ fired' = fired
      /\ srv' \in {srv, [srv EXCEPT ![c] = "open"]}
      /\ accumulators' \in {accumulators, [accumulators EXCEPT ![k] = c]}
  BY <1>0 DEF Issue, SetError, Fire, IInv, EventsInv
<1>3. /\ ok \in Calls \ ById /\ err \in Calls \ ById
  BY <1>0 DEF IInv, EventsInv, SuccessEventOf
<1> HIDE DEF k, ok, err
<1>4. \A d \in ById : Issued(d) => /\ Key(d) \in Keys /\ Key(d) # k
                                  /\ id[d] \in ErrIds /\ id[d] \notin {0, NoValidId}
  <2>1. \A d \in ById : Key(d)[1] # k[1] /\ Key(d) \in Keys
    BY <1>0, KeysApart, ByIdCalls DEF IInv, TInv
  <2> QED
    BY <2>1, KeysApart, ByIdCalls DEF IInv, TInv, Ids, NoValidId
<1>5. \A d \in Calls \ {c} : /\ Issued(d)' = Issued(d) /\ pc'[d] = pc[d]
                             /\ Key(d)' = Key(d) /\ id'[d] = id[d]
                             /\ waits'[d] = waits[d] /\ srv'[d] = srv[d]
  BY <1>0, <1>1, <1>2 DEF Issued, Key, IInv, TInv, TypeOK
<1>6. /\ Issued(c)' /\ id'[c] = 0 /\ pc'[c] = "waiting" /\ waits'[c] = [ok |-> ok, err |-> err]
  BY <1>0, <1>1, <1>2 DEF Issued, IInv, TInv, TypeOK
<1>7. Untouched'
  BY <1>0, <1>1, <1>2, <1>5, <1>6 DEF IInv, Untouched
<1>8. IdsInv'
  BY <1>0, <1>5, <1>6, ByIdCalls DEF IInv, IdsInv
<1>9. EventsInv'
  <2>1. \A x, e : SuccessEventOf(x, e) => SuccessEventOf(x, e)'
    BY <1>0, <1>5, ByIdCalls DEF SuccessEventOf
  <2>2. \A x, e : ErrorEventOf(x, e) => ErrorEventOf(x, e)'
    BY <1>0, <1>5, ByIdCalls DEF ErrorEventOf
  <2>3. \A x, e : x = k /\ e = ok => SuccessEventOf(x, e)'
    BY <1>0, <1>3 DEF SuccessEventOf
  <2>4. \A x \in Keys : response_events'[x] = IF x = k THEN ok ELSE response_events[x]
    BY <1>1 DEF IInv, TInv, TypeOK
  <2>5. \A x \in ErrIds : error_events'[x] = IF x = 0 THEN err ELSE error_events[x]
    BY <1>1 DEF IInv, TInv, TypeOK
  <2>6. 0 \in ErrIds /\ NoValidId \in ErrIds /\ NoValidId # 0 /\ \A x \in Ids : x \in ErrIds
    BY BoundsAssumption DEF ErrIds, Ids, NoValidId
  <2> QED
    BY <2>1, <2>2, <2>3, <2>4, <2>5, <2>6, <1>3 DEF IInv, EventsInv
<1>10. ObjectsInv'
  <2>1. \A x \in Keys : accumulators'[x] = accumulators[x] \/ (x = k /\ accumulators'[x] = c)
    BY <1>2 DEF IInv, TInv, TypeOK
  <2> QED
    BY <2>1, <1>0, <1>1, <1>4, <1>5, ByIdCalls DEF IInv, ObjectsInv
<1>11. WaitingInv'
  <2>1. ASSUME NEW d \in ById, pc'[d] = "waiting"
        PROVE  AwaitsOwn(d)'
    <3>1. d \in Calls \ {c} /\ Issued(d) /\ pc[d] = "waiting"
      BY <2>1, <1>0, <1>5, ByIdCalls DEF Issued
    <3>2. AwaitsOwn(d)
      BY <2>1, <3>1 DEF IInv, WaitingInv
    <3>3. /\ response_events'[Key(d)] = response_events[Key(d)]
          /\ error_events'[id[d]] = error_events[id[d]]
          /\ error_data'[id[d]] = error_data[id[d]]
      BY <2>1, <3>1, <1>1, <1>2, <1>4 DEF IInv, TInv, TypeOK
    <3> QED
      BY <3>1, <3>2, <3>3, <1>1, <1>2, <1>5 DEF AwaitsOwn, OwnData
  <2> QED
    BY <2>1 DEF WaitingInv
<1>12. TasksInv'
  <2>1. done[c] = {} /\ c \notin cancelled
    BY <1>0 DEF IInv, Untouched, TasksInv, Issued
  <2> QED
    BY <2>1, <1>0, <1>1, <1>2, <1>3, <1>5, <1>6, ByIdCalls DEF IInv, TasksInv, TInv, TypeOK
<1>13. ResultInv'
  <2>1. \A d \in Calls : pc'[d] \in {"returned", "tws_error"} =>
                           d # c /\ pc'[d] = pc[d] /\ srv'[d] = srv[d]
    BY <1>5, <1>6
  <2>2. \A d, x : OwnData(d, x) => OwnData(d, x)'
    BY <1>1 DEF OwnData
  <2> QED
    BY <1>1, <1>2, <2>1, <2>2 DEF IInv, ResultInv
<1> QED
  BY <1>7, <1>8, <1>9, <1>10, <1>11, <1>12, <1>13 DEF IInv

\* The three ways a waiting call ends: the data returned is what the tables
\* held under its own key, the error what they held under its own error id.
LEMMA OutcomeIInv ==
  ASSUME IInv, NEW c \in Calls, pc[c] = "waiting"
  PROVE  /\ "ok" \in done[c] /\ c \in ById => OwnData(c, response_data[Key(c)])
         /\ done[c] = {"err"} => c \in ById /\ srv[c] = "failed" /\ error_data[id[c]] = c
         /\ Method[c] = "executions" =>
              /\ accumulators[Key(c)] = c
              /\ contents[c] = Zero /\ <<"ok", c>> \in fired => OwnData(c, Val(Zero))
              /\ <<"ok", c>> \in fired => OwnData(c, Ref(c))
<1>1. c \in ById => AwaitsOwn(c)
  BY DEF IInv, WaitingInv
<1>2. \A kind \in done[c] : <<kind, waits[c][kind]>> \in fired
  BY DEF IInv, TasksInv
<1>3. "ok" \in done[c] /\ c \in ById => OwnData(c, response_data[Key(c)])
  BY <1>1, <1>2 DEF AwaitsOwn
<1>4. ASSUME done[c] = {"err"}
      PROVE  c \in ById /\ srv[c] = "failed" /\ error_data[id[c]] = c
  <2>1. <<"err", waits[c].err>> \in fired
    BY <1>2, <1>4
  <2>2. waits[c].err \in ById /\ waits[c].err \in Calls
    BY <2>1 DEF IInv, TasksInv, TInv, TypeOK
  <2>3. c \in ById
    BY <2>2 DEF IInv, TasksInv
  <2> QED
    BY <2>1, <2>3, <1>1 DEF AwaitsOwn, IInv, TasksInv
<1>5. ASSUME Method[c] = "executions"
      PROVE  /\ accumulators[Key(c)] = c
             /\ contents[c] = Zero /\ <<"ok", c>> \in fired => OwnData(c, Val(Zero))
             /\ <<"ok", c>> \in fired => OwnData(c, Ref(c))
  <2>1. c \in ById /\ Method[c] \in Accumulates /\ Issued(c)
    BY <1>5 DEF ById, ByReqId, Accumulates, Issued
  <2>2. accumulators[Key(c)] = c
    BY <2>1 DEF IInv, ObjectsInv
  <2>3. Items[c] \in Nat /\ (contents[c] = Zero => contents[c][c] = 0)
    BY ItemsAssumption DEF Zero, Sources
  <2>4. <<"ok", c>> \in fired => Items[c] = 0 \/ contents[c][c] >= Items[c]
    BY <1>1, <2>1 DEF AwaitsOwn, OwnData
  <2>5. contents[c][c] \in Nat
    BY DEF IInv, TInv, TypeOK, Sources
  <2> QED
    BY <2>1, <2>2, <2>3, <2>4, <2>5 DEF OwnData
<1> QED
  BY <1>3, <1>4, <1>5

\* Cleaning up after a call disturbs no other call by id.
LEMMA FinishIInv ==
  ASSUME IInv, TInv', NEW c \in Calls, pc[c] = "waiting", NEW cancels,
         NEW outcome \in {"returned", "tws_error", "timed_out"}, NEW d,
         Finish(c, outcome, d), Cleanup(c, cancels),
         cancels => outcome = "returned",
         outcome = "returned" /\ c \in ById =>
           \/ OwnData(c, d)
           \/ /\ Method[c] = "executions" /\ <<"ok", c>> \notin fired
              /\ d \in {Ref(c), Val(Zero)},
         outcome = "tws_error" => c \in ById /\ srv[c] = "failed" /\ d = Fault(c)
  PROVE  IInv'
<1>1. /\ pc' = [pc EXCEPT ![c] = outcome]
      /\ result' = [result EXCEPT ![c] = d]
      /\ UNCHANGED <<next_valid_id_value, fired, accumulators, contents, id, waits,
                     done, srv, sent>>
  BY DEF Finish, client, objects
<1>2. /\ response_events' = [response_events EXCEPT ![Key(c)] = NoCall]
      /\ response_data' = [response_data EXCEPT ![Key(c)] = NoData]
      /\ error_events' = [error_events EXCEPT ![id[c]] = NoCall]
      /\ \A i \in ErrIds \ {id[c], NoValidId} : i # id[c] /\ i # ErrId(c) => error_data'[i] = error_data[i]
      /\ cancelled' \in {cancelled, cancelled \cup {c}} /\ (cancelled' # cancelled => cancels)
  BY DEF Cleanup
<1>3. /\ Key(c) \in Keys /\ Key(c)[1] = Method[c] /\ id[c] \in ErrIds
      /\ Issued(c) /\ Issued(c)'
  BY <1>1, KeysApart DEF IInv, TInv, TypeOK, Issued
<1>4. \A x \in Calls : /\ Issued(x)' = Issued(x) /\ Key(x)' = Key(x)
                       /\ x # c => pc'[x] = pc[x] /\ result'[x] = result[x]
  BY <1>1 DEF IInv, TInv, TypeOK, Issued, Key
<1>5. pc'[c] = outcome /\ result'[c] = d
  BY <1>1 DEF IInv, TInv, TypeOK
<1>6. Untouched'
  BY <1>1, <1>4, <1>5 DEF IInv, Untouched
<1>7. IdsInv'
  BY <1>1, <1>4, ByIdCalls DEF IInv, IdsInv
<1>8. EventsInv'
  <2>1. \A k \in Keys : response_events'[k] = IF k = Key(c) THEN NoCall ELSE response_events[k]
    BY <1>2 DEF IInv, TInv, TypeOK
  <2>2. \A i \in ErrIds : error_events'[i] = IF i = id[c] THEN NoCall ELSE error_events[i]
    BY <1>2 DEF IInv, TInv, TypeOK
  <2>3. ASSUME NEW k \in Keys, response_events'[k] # NoCall
        PROVE  SuccessEventOf(k, response_events[k])' /\ response_events'[k] = response_events[k]
    <3> DEFINE e == response_events[k]
    <3>1. k # Key(c) /\ response_events'[k] = e /\ SuccessEventOf(k, e)
      BY <2>1, <2>3 DEF IInv, EventsInv
    <3>2. k[1] \in ByReqId => e # c /\ e \in Calls
      BY <3>1, ByIdCalls DEF SuccessEventOf
    <3> QED
      BY <3>1, <3>2, <1>4 DEF SuccessEventOf
  <2>4. ASSUME NEW i \in Ids \ {0}, error_events'[i] # NoCall
        PROVE  ErrorEventOf(i, error_events[i])' /\ error_events'[i] = error_events[i]
    <3> DEFINE e == error_events[i]
    <3>1. i # id[c] /\ error_events'[i] = e /\ ErrorEventOf(i, e)
      BY <2>2, <2>4 DEF IInv, EventsInv, ErrIds
    <3>2. e # c /\ e \in Calls
      BY <3>1, ByIdCalls DEF ErrorEventOf
    <3> QED
      BY <3>1, <3>2, <1>1, <1>4 DEF ErrorEventOf
  <2>5. /\ error_events'[0] \in (Calls \ ById) \cup {NoCall}
        /\ error_events'[NoValidId] = NoCall
    BY <2>2, BoundsAssumption DEF IInv, EventsInv, ErrIds, Ids
  <2> QED
    BY <2>3, <2>4, <2>5 DEF EventsInv
<1>9. ObjectsInv'
  BY <1>1, <1>4, ByIdCalls DEF IInv, ObjectsInv
<1>10. WaitingInv'
  <2>1. ASSUME NEW x \in ById, pc'[x] = "waiting"
        PROVE  AwaitsOwn(x)'
    <3>1. x \in Calls \ {c} /\ pc[x] = "waiting" /\ Issued(x) /\ Method[x] \in ByReqId
      BY <2>1, <1>4, <1>5, ByIdCalls DEF Issued
    <3>2. AwaitsOwn(x)
      BY <2>1, <3>1 DEF IInv, WaitingInv
    <3>3. Key(x) # Key(c) /\ Key(x) \in Keys /\ id[x] # id[c] /\ id[x] \in Ids \ {0}
      BY <2>1, <3>1, <1>3, KeysApart, ByIdCalls DEF IInv, TInv, IdsInv
    <3>4. id[x] \in ErrIds /\ id[x] # NoValidId /\ id[x] # ErrId(c)
      BY <3>3, BoundsAssumption DEF ErrIds, Ids, NoValidId, ErrId
    <3>5. /\ response_events'[Key(x)] = response_events[Key(x)]
          /\ response_data'[Key(x)] = response_data[Key(x)]
          /\ error_events'[id[x]] = error_events[id[x]]
          /\ error_data'[id[x]] = error_data[id[x]]
      BY <3>3, <3>4, <1>2 DEF IInv, TInv, TypeOK
    <3> QED
      BY <3>1, <3>2, <3>5, <1>1, <1>4 DEF AwaitsOwn, OwnData
  <2> QED
    BY <2>1 DEF WaitingInv
<1>11. TasksInv'
  BY <1>1, <1>2, <1>4, <1>5 DEF IInv, TasksInv
<1>12. ResultInv'
  <2> DEFINE Good(x) == /\ pc[x] = "returned" /\ x \in ById =>
                             \/ OwnData(x, result[x])
                             \/ /\ Method[x] = "executions" /\ <<"ok", x>> \notin fired
                                /\ result[x] \in {Ref(x), Val(Zero)}
                        /\ pc[x] = "tws_error" =>
                             x \in ById /\ srv[x] = "failed" /\ result[x] = Fault(x)
  <2>1. \A x : OwnData(x, result[x])' <=> OwnData(x, result'[x])
    BY <1>1 DEF OwnData
  <2>2. fired' = fired /\ srv' = srv
    BY <1>1
  <2>3. Good(c)'
    <3>1. OwnData(c, result[c])' <=> OwnData(c, d)
      BY <2>1, <1>5
    <3>2. /\ outcome = "returned" /\ c \in ById =>
               \/ OwnData(c, d)
               \/ /\ Method[c] = "executions" /\ <<"ok", c>> \notin fired
                  /\ d \in {Ref(c), Val(Zero)}
          /\ outcome = "tws_error" => c \in ById /\ srv[c] = "failed" /\ d = Fault(c)
      OBVIOUS
    <3> QED
      BY <3>1, <3>2, <2>2, <1>5
  <2>4. ASSUME NEW x \in Calls \ {c} PROVE Good(x)'
    <3>1. Good(x)
      BY <2>4 DEF IInv, ResultInv
    <3>2. /\ pc'[x] = pc[x] /\ result'[x] = result[x]
          /\ OwnData(x, result[x])' <=> OwnData(x, result[x])
      BY <2>1, <2>4, <1>4
    <3> QED
      BY <3>1, <3>2, <2>2
  <2> QED
    BY <2>3, <2>4 DEF ResultInv
<1> QED
  BY <1>6, <1>7, <1>8, <1>9, <1>10, <1>11, <1>12 DEF IInv

\* Steps that touch nothing of the calls by id, apart from refusing them an
\* id, ending a subscription they cancelled, forgetting a request, or running a
\* waiter task.
LEMMA FrameIInv ==
  ASSUME IInv, TInv',
         UNCHANGED <<response_events, error_events, id, waits, accumulators, cancelled>>,
         next_valid_id_value' >= next_valid_id_value,
         \A x \in Calls :
           \/ pc'[x] = pc[x]
           \/ ~Issued(x) /\ x \in ById /\ pc'[x] \in {"need_id", "no_id"}
           \/ ~Issued(x) /\ x \notin ById /\ pc'[x] = "returned",
         \A x \in ById : /\ contents'[x] = contents[x] /\ sent'[x] = sent[x]
                         /\ result'[x] = result[x]
                         /\ response_data'[Key(x)] = response_data[Key(x)]
                         /\ \/ srv'[x] = srv[x]
                            \/ srv[x] # "failed" /\ srv'[x] = "ended" /\ x \in cancelled
                            \/ srv[x] # "failed" /\ srv'[x] = "gone",
         \A i \in Ids \ {0} : error_data'[i] = error_data[i],
         fired \subseteq fired',
         \A x \in ById : <<"ok", x>> \in fired' => <<"ok", x>> \in fired,
         \A x \in Calls : <<"err", x>> \in fired' => <<"err", x>> \in fired,
         \A x \in Calls : ~Issued(x) => done'[x] = done[x],
         \A x \in Calls : \A kind \in done'[x] : <<kind, waits[x][kind]>> \in fired'
  PROVE  IInv'
<1>1. \A x \in Calls : Key(x)' = Key(x)
  BY DEF Key
<1>2. \A x \in ById : (Issued(x)' <=> Issued(x)) /\ (pc'[x] = "waiting" <=> pc[x] = "waiting")
  BY ByIdCalls DEF Issued
<1>3. Untouched'
  <2>1. \A x \in Calls : ~Issued(x)' => ~Issued(x)
    BY DEF Issued
  <2>2. \A x \in Calls : pc'[x] = "need_id" => x \in ById
    BY DEF IInv, Untouched
  <2> QED
    BY <2>1, <2>2, ByIdCalls DEF IInv, Untouched
<1>4. IdsInv'
  BY <1>2, ByIdCalls DEF IInv, IdsInv, TInv, TypeOK, Ids
<1>5. EventsInv'
  BY <1>1, <1>2, ByIdCalls DEF IInv, EventsInv, SuccessEventOf, ErrorEventOf
<1>6. ObjectsInv'
  BY <1>1, <1>2, ByIdCalls DEF IInv, ObjectsInv
<1>7. \A x \in ById : \A d : OwnData(x, d) => OwnData(x, d)'
  BY DEF OwnData
<1>8. WaitingInv'
  <2>1. ASSUME NEW x \in ById, pc'[x] = "waiting"
        PROVE  AwaitsOwn(x)'
    <3>1. pc[x] = "waiting" /\ AwaitsOwn(x) /\ Issued(x) /\ x \in Calls
      BY <2>1, <1>2, ByIdCalls DEF IInv, WaitingInv, Issued
    <3>2. id[x] \in Ids \ {0} /\ srv'[x] \in {srv[x], "gone"}
      BY <2>1, <3>1, KeysApart DEF IInv, TInv, TasksInv
    <3> QED
      BY <2>1, <3>1, <3>2, <1>1 DEF AwaitsOwn, OwnData
  <2> QED
    BY <2>1 DEF WaitingInv
<1>9. TasksInv'
  <2>1. \A x \in Calls \ ById : pc'[x] = "waiting" => pc[x] = "waiting"
    OBVIOUS
  <2>2. \A x \in Calls : <<"err", x>> \in fired' => x \in ById /\ srv'[x] = "failed"
    BY DEF IInv, TasksInv
  <2>3. \A x \in cancelled : pc'[x] = "returned"
    BY DEF IInv, TasksInv, TInv, TypeOK, Issued
  <2> QED
    BY <2>1, <2>2, <2>3 DEF IInv, TasksInv
<1>10. ResultInv'
  <2>1. ASSUME NEW x \in Calls, pc'[x] = "returned", x \in ById
        PROVE  \/ OwnData(x, result[x])'
               \/ /\ Method[x] = "executions" /\ <<"ok", x>> \notin fired'
                  /\ result'[x] \in {Ref(x), Val(Zero)}
    <3>1. pc[x] = "returned"
      BY <2>1
    <3> QED
      BY <2>1, <3>1, <1>7 DEF IInv, ResultInv
  <2>2. ASSUME NEW x \in Calls, pc'[x] = "tws_error"
        PROVE  x \in ById /\ srv'[x] = "failed" /\ result'[x] = Fault(x)
    <3>1. pc[x] = "tws_error"
      BY <2>2
    <3> QED
      BY <3>1 DEF IInv, ResultInv
  <2> QED
    BY <2>1, <2>2 DEF ResultInv
<1> QED
  BY <1>3, <1>4, <1>5, <1>6, <1>8, <1>9, <1>10 DEF IInv

\* Steps of the calls.
LEMMA CallIInv ==
  ASSUME IInv, TInv', NEW c \in Calls,
         \/ CallById(c) \/ CallEarly(c) \/ CallShared(c) \/ CallCached(c) \/ Awaken(c)
  PROVE  IInv'
<1> USE DEF client, tables, objects, tasks, tws
<1>1. CASE CallById(c) \/ GotId(c)
  <2>1. c \in ById /\ ~Issued(c) /\ IssueWithId(c)
    <3>1. c \in ById
      BY <1>1, ByIdCalls DEF CallById, GotId, IInv, Untouched
    <3> QED
      BY <1>1, <3>1 DEF CallById, GotId, Issued
  <2> QED
    BY <2>1, IssueByIdIInv
<1>2. CASE CallShared(c)
  BY <1>2, IssueSharedIInv
<1>3. CASE ReturnData(c)
  <2>1. /\ Finish(c, "returned", response_data[Key(c)])
        /\ Cleanup(c, Method[c] \in PairedCancel)
        /\ pc[c] = "waiting" /\ "ok" \in done[c]
    BY <1>3 DEF ReturnData
  <2> QED
    BY <2>1, OutcomeIInv, FinishIInv
<1>4. CASE RaiseTWSError(c)
  <2>1. /\ pc[c] = "waiting" /\ done[c] = {"err"} /\ Cleanup(c, FALSE)
        /\ c \in ById /\ srv[c] = "failed" /\ error_data[id[c]] = c
    BY <1>4, OutcomeIInv DEF RaiseTWSError
  <2>2. Finish(c, "tws_error", Fault(c))
    BY <1>4, <2>1, CallsAssumption DEF RaiseTWSError
  <2> QED
    BY <2>1, <2>2, FinishIInv
<1>5. CASE Timeout(c)
  <2>1. pc[c] = "waiting" /\ Cleanup(c, FALSE)
    BY <1>5 DEF Timeout
  <2>2. CASE Method[c] = "executions"
    <3>1. accumulators[Key(c)] = c
      BY <2>1, <2>2, OutcomeIInv
    <3> DEFINE d == IF contents[c] = Zero THEN Val(Zero) ELSE Ref(c)
    <3>2. Finish(c, "returned", d)
      BY <1>5, <2>2, <3>1 DEF Timeout
    <3>3. \/ OwnData(c, d)
          \/ <<"ok", c>> \notin fired /\ d \in {Ref(c), Val(Zero)}
      BY <2>1, <2>2, OutcomeIInv
    <3> HIDE DEF d
    <3> QED
      BY <2>1, <2>2, <3>2, <3>3, FinishIInv
  <2>3. CASE Method[c] # "executions"
    <3>1. Finish(c, "timed_out", NoData)
      BY <1>5, <2>3 DEF Timeout
    <3> QED
      BY <2>1, <3>1, FinishIInv
  <2> QED
    BY <2>2, <2>3
<1>6. CASE CallEarly(c) \/ GaveUpOnId(c)
  <2>1. c \in ById /\ ~Issued(c)
    BY <1>6, ByIdCalls DEF CallEarly, GaveUpOnId, Issued, IInv, Untouched
  <2>2. pc' = [pc EXCEPT ![c] = "need_id"] \/ pc' = [pc EXCEPT ![c] = "no_id"]
    BY <1>6 DEF CallEarly, GaveUpOnId
  <2>3. UNCHANGED <<next_valid_id_value, response_events, error_events, response_data,
                    error_data, fired, accumulators, contents, id, waits, done, result,
                    srv, sent, cancelled>>
    BY <1>6 DEF CallEarly, GaveUpOnId
  <2> QED
    BY <2>1, <2>2, <2>3, FrameIInv DEF IInv, TInv, TypeOK, TasksInv
<1>7. CASE CallCached(c)
  <2>1. c \notin ById /\ ~Issued(c)
    BY <1>7, ByIdCalls DEF CallCached, Issued, ByReqId
  <2>2. pc' = [pc EXCEPT ![c] = "returned"] /\ result' = [result EXCEPT ![c] = managed_accounts_value]
    BY <1>7 DEF CallCached
  <2>3. UNCHANGED <<next_valid_id_value, response_events, error_events, response_data,
                    error_data, fired, accumulators, contents, id, waits, done,
                    srv, sent, cancelled>>
    BY <1>7 DEF CallCached
  <2> QED
    BY <2>1, <2>2, <2>3, FrameIInv, ByIdCalls DEF IInv, TInv, TypeOK, TasksInv
<1>8. ASSUME NEW kind \in {"ok", "err"}, WaiterDone(c, kind)
      PROVE  IInv'
  <2>1. /\ Issued(c) /\ <<kind, waits[c][kind]>> \in fired
        /\ done' = [done EXCEPT ![c] = done[c] \cup {kind}]
    BY <1>8 DEF WaiterDone, Issued
  <2>2. UNCHANGED <<next_valid_id_value, response_events, error_events, response_data,
                    error_data, fired, accumulators, contents, id, waits, pc, result,
                    srv, sent, cancelled>>
    BY <1>8 DEF WaiterDone
  <2>3. \A x \in Calls : done'[x] = IF x = c THEN done[c] \cup {kind} ELSE done[x]
    BY <2>1 DEF IInv, TInv, TypeOK
  <2>4. \A x \in Calls : \A y \in done[x] : <<y, waits[x][y]>> \in fired
    BY DEF IInv, TasksInv
  <2>5. \A x \in Calls : \A y \in done'[x] : <<y, waits[x][y]>> \in fired
    BY <2>1, <2>3, <2>4
  <2>6. \A x \in Calls : ~Issued(x) => done'[x] = done[x]
    BY <2>1, <2>3
  <2> QED
    BY <2>2, <2>5, <2>6, FrameIInv DEF IInv, TInv, TypeOK
<1> QED
  BY <1>1, <1>2, <1>3, <1>4, <1>5, <1>6, <1>7, <1>8 DEF Awaken

\* A callback for a call by id: it adds an item, completes the answer or
\* reports the error, and reaches no entry of another call by id.
LEMMA ByIdCallbackIInv ==
  ASSUME IInv, TInv', NEW c \in ById, srv[c] \in {"open", "live"},
         UNCHANGED <<next_valid_id_value, response_events, error_events, id, waits,
                     accumulators, cancelled, pc, result, done>>,
         \A x \in ById \ {c} : contents'[x] = contents[x] /\ sent'[x] = sent[x],
         Method[c] \in Accumulates =>
           /\ contents'[c][c] = sent'[c] /\ contents'[c][c] >= contents[c][c]
           /\ \A s \in Sources \ {c} : contents'[c][s] = 0,
         \/ UNCHANGED <<response_data, error_data, fired, srv>>
         \/ /\ OwnData(c, response_data[Key(c)])'
            /\ \A k \in Keys \ {Key(c)} : response_data'[k] = response_data[k]
            /\ fired' = fired \cup Fire("ok", response_events[Key(c)])
            /\ \A x \in Calls : srv'[x] = IF x = c THEN srv'[c] ELSE srv[x]
            /\ srv'[c] \in {"live", "ended"} /\ error_data' = error_data
         \/ /\ error_data' = [error_data EXCEPT ![id[c]] = c]
            /\ fired' = fired \cup Fire("err", error_events[id[c]])
            /\ srv' = [srv EXCEPT ![c] = "failed"]
            /\ response_data' = response_data
  PROVE  IInv'
<1>0. /\ c \in Calls /\ Issued(c) /\ Key(c) \in Keys /\ id[c] \in Ids \ {0} /\ id[c] \in ErrIds
      /\ Key(c)[1] \in ByReqId
  BY ByIdCalls, KeysApart DEF IInv, TInv
<1>1. \A x \in Calls : Key(x)' = Key(x) /\ Issued(x)' = Issued(x)
  BY DEF Key, Issued
<1>2. /\ fired \subseteq fired'
      /\ \A e : <<"ok", e>> \in fired' => <<"ok", e>> \in fired \/ (e = c /\ pc[c] = "waiting")
      /\ \A e : <<"err", e>> \in fired' =>
           <<"err", e>> \in fired \/ (e = c /\ pc[c] = "waiting" /\ srv'[c] = "failed")
  <2>1. response_events[Key(c)] \in {NoCall, c} /\ (response_events[Key(c)] = c => pc[c] = "waiting")
    <3>1. ASSUME NEW e, e = response_events[Key(c)], e # NoCall
          PROVE  e = c /\ pc[c] = "waiting"
      <4>1. SuccessEventOf(Key(c), e)
        BY <3>1, <1>0 DEF IInv, EventsInv
      <4>2. e \in ById /\ pc[e] = "waiting" /\ Key(e) = Key(c)
        BY <4>1, <1>0 DEF SuccessEventOf
      <4>3. TypeOK /\ IdsInv /\ Issued(e)
        BY <4>2 DEF IInv, TInv, Issued
      <4>4. e = c
        BY <4>2, <4>3, <1>0, KeysApart
      <4> QED
        BY <4>2, <4>4
    <3> QED
      BY <3>1, <1>0, CallsAssumption
  <2>2. error_events[id[c]] \in {NoCall, c} /\ (error_events[id[c]] = c => pc[c] = "waiting")
    <3>1. ASSUME NEW e, e = error_events[id[c]], e # NoCall
          PROVE  e = c /\ pc[c] = "waiting"
      <4>1. ErrorEventOf(id[c], e)
        BY <3>1, <1>0 DEF IInv, EventsInv
      <4>2. e \in ById /\ pc[e] = "waiting" /\ id[e] = id[c]
        BY <4>1 DEF ErrorEventOf
      <4>3. TypeOK /\ IdsInv /\ Issued(e)
        BY <4>2 DEF IInv, TInv, Issued
      <4>4. e = c
        BY <4>2, <4>3, <1>0, KeysApart
      <4> QED
        BY <4>2, <4>4
    <3> QED
      BY <3>1, <1>0, CallsAssumption
  <2>3. srv' = [srv EXCEPT ![c] = "failed"] => srv'[c] = "failed"
    BY <1>0 DEF IInv, TInv, TypeOK
  <2>4. \A kind : /\ Fire(kind, response_events[Key(c)]) \subseteq {<<kind, c>>}
                  /\ Fire(kind, error_events[id[c]]) \subseteq {<<kind, c>>}
    BY <2>1, <2>2 DEF Fire
  <2>5. /\ pc[c] # "waiting" => Fire("ok", response_events[Key(c)]) = {}
        /\ pc[c] # "waiting" => Fire("err", error_events[id[c]]) = {}
    BY <2>1, <2>2 DEF Fire
  <2>6. CASE UNCHANGED <<response_data, error_data, fired, srv>>
    BY <2>6
  <2>7. CASE fired' = fired \cup Fire("ok", response_events[Key(c)])
    BY <2>4, <2>5, <2>7
  <2>8. CASE fired' = fired \cup Fire("err", error_events[id[c]]) /\ srv' = [srv EXCEPT ![c] = "failed"]
    BY <2>3, <2>4, <2>5, <2>8
  <2> QED
    BY <2>6, <2>7, <2>8
<1>3. \A x \in Calls \ {c} : srv'[x] = srv[x]
  BY <1>0 DEF IInv, TInv, TypeOK
<1>4. Untouched'
  BY <1>0, <1>1, <1>2, ByIdCalls DEF IInv, Untouched
<1>5. IdsInv'
  BY <1>1, ByIdCalls DEF IInv, IdsInv
<1>6. EventsInv'
  BY <1>1, ByIdCalls DEF IInv, EventsInv, SuccessEventOf, ErrorEventOf
<1>7. ObjectsInv'
  BY <1>1, ByIdCalls DEF IInv, ObjectsInv
<1>8. \A x \in ById : \A d : OwnData(x, d) => OwnData(x, d)'
  <2>1. Items[c] \in Int /\ contents[c][c] \in Int /\ (Method[c] \in Accumulates => contents'[c][c] \in Int)
    BY <1>0, ItemsAssumption DEF IInv, TInv, TypeOK, Sources
  <2> QED
    BY <2>1, <1>0 DEF OwnData
<1>9. WaitingInv'
  <2>1. ASSUME NEW x \in ById \ {c}, pc'[x] = "waiting"
        PROVE  AwaitsOwn(x)'
    <3>1. AwaitsOwn(x) /\ Issued(x) /\ x \in Calls
      BY <2>1, ByIdCalls DEF IInv, WaitingInv, Issued
    <3>2. Key(x) # Key(c) /\ Key(x) \in Keys /\ id[x] # id[c] /\ id[x] \in ErrIds
      BY <2>1, <3>1, <1>0, KeysApart DEF IInv, TInv
    <3>3. response_data'[Key(x)] = response_data[Key(x)] /\ error_data'[id[x]] = error_data[id[x]]
      BY <3>2 DEF IInv, TInv, TypeOK
    <3> QED
      BY <2>1, <3>1, <3>3, <1>1, <1>2, <1>3 DEF AwaitsOwn, OwnData
  <2>2. ASSUME pc[c] = "waiting"
        PROVE  AwaitsOwn(c)'
    <3>1. AwaitsOwn(c)
      BY <2>2 DEF IInv, WaitingInv
    <3>2. CASE UNCHANGED <<response_data, error_data, fired, srv>>
      <4>1. \A d : OwnData(c, d) => OwnData(c, d)'
        BY <1>8
      <4>2. OwnData(c, response_data[Key(c)]) => OwnData(c, response_data[Key(c)])'
        <5> DEFINE d == response_data[Key(c)]
        <5>1. d' = d
          BY <3>2, <1>0, <1>1
        <5> QED
          BY <4>1, <5>1 DEF OwnData
      <4> QED
        BY <3>1, <3>2, <4>2, <1>0, <1>1 DEF AwaitsOwn
    <3>3. CASE /\ OwnData(c, response_data[Key(c)])'
               /\ fired' = fired \cup Fire("ok", response_events[Key(c)])
               /\ srv'[c] \in {"live", "ended"} /\ error_data' = error_data
      <4>1. <<"ok", c>> \in fired'
        BY <3>1, <3>3, <1>0, CallsAssumption DEF AwaitsOwn, Fire
      <4> QED
        BY <3>1, <3>3, <4>1, <1>0, <1>1, <1>2 DEF AwaitsOwn
    <3>4. CASE /\ error_data' = [error_data EXCEPT ![id[c]] = c]
               /\ fired' = fired \cup Fire("err", error_events[id[c]])
               /\ srv' = [srv EXCEPT ![c] = "failed"]
               /\ response_data' = response_data
      <4>1. <<"err", c>> \in fired' /\ error_data'[id[c]] = c /\ srv'[c] = "failed"
        BY <3>1, <3>4, <1>0, CallsAssumption DEF AwaitsOwn, Fire, IInv, TInv, TypeOK
      <4>2. <<"ok", c>> \in fired' => <<"ok", c>> \in fired
        BY <3>4, <1>0 DEF Fire
      <4>3. \A d : OwnData(c, d) => OwnData(c, d)'
        BY <1>8
      <4>4. OwnData(c, response_data[Key(c)]) => OwnData(c, response_data[Key(c)])'
        <5> DEFINE d == response_data[Key(c)]
        <5>1. d' = d
          BY <3>4, <1>0, <1>1
        <5> QED
          BY <4>3, <5>1 DEF OwnData
      <4> QED
        BY <3>1, <4>1, <4>2, <4>4, <1>0, <1>1 DEF AwaitsOwn
    <3> QED
      BY <3>2, <3>3, <3>4
  <2> QED
    BY <2>1, <2>2 DEF WaitingInv
<1>10. TasksInv'
  <2>1. <<"err", c>> \notin fired
    BY <1>0 DEF IInv, TasksInv
  <2> QED
    BY <2>1, <1>0, <1>2, <1>3 DEF IInv, TasksInv
<1>11. ResultInv'
  <2>1. ASSUME NEW x \in Calls, pc[x] = "returned", x \in ById
        PROVE  \/ OwnData(x, result[x])'
               \/ /\ Method[x] = "executions" /\ <<"ok", x>> \notin fired'
                  /\ result'[x] \in {Ref(x), Val(Zero)}
    <3>1. \A d : OwnData(x, d) => OwnData(x, d)'
      BY <2>1, <1>8
    <3>2. OwnData(x, result[x]) => OwnData(x, result[x])'
      BY <3>1 DEF OwnData
    <3>3. <<"ok", x>> \notin fired => <<"ok", x>> \notin fired'
      BY <2>1, <1>2
    <3> QED
      BY <2>1, <3>2, <3>3 DEF IInv, ResultInv
  <2>2. ASSUME NEW x \in Calls, pc[x] = "tws_error"
        PROVE  x \in ById /\ srv'[x] = "failed" /\ result'[x] = Fault(x)
    BY <2>2, <1>3 DEF IInv, ResultInv
  <2> QED
    BY <2>1, <2>2 DEF ResultInv
<1> QED
  BY <1>4, <1>5, <1>6, <1>7, <1>9, <1>10, <1>11 DEF IInv

\* Every callback TWS sends for a call by id.
LEMMA ByIdEventIInv ==
  ASSUME IInv, TInv', NEW c \in ById,
         \/ ItemCallback(c) \/ EndCallback(c) \/ LastTicksCallback(c) \/ PayloadCallback(c)
         \/ \E code \in {"info", "fatal"} : ErrorCallback(c, code)
  PROVE  IInv'
<1> USE DEF client, tables, objects, tasks, tws
<1>0. /\ c \in Calls /\ srv[c] \in {"open", "live"} /\ Issued(c)
      /\ Key(c) \in Keys /\ id[c] \in Ids \ {0} /\ id[c] \in ErrIds
      /\ ErrId(c) = id[c] /\ Method[c] # "completed_orders" /\ Method[c] \in ByReqId
      /\ Method[c] \in Accumulates => accumulators[Key(c)] = c
  <2>1. c \in Calls /\ Method[c] \in ByReqId /\ srv[c] \in {"open", "live"}
    BY ByIdCalls DEF ItemCallback, EndCallback, LastTicksCallback, PayloadCallback,
                     ErrorCallback, MoreItems
  <2>2. Issued(c)
    BY <2>1 DEF IInv, TInv
  <2> QED
    BY <2>1, <2>2, KeysApart DEF IInv, TInv, ObjectsInv, ErrId, ByReqId
<1>1. Key(c)' = Key(c) /\ (Method[c] \in Accumulates => contents[c][c] = sent[c])
  BY DEF Key, IInv, ObjectsInv, ItemCallback, EndCallback, LastTicksCallback,
         PayloadCallback, ErrorCallback
<1>2. ASSUME Method[c] \in Accumulates, AddItem(c)
      PROVE  /\ \A x \in ById \ {c} : contents'[x] = contents[x] /\ sent'[x] = sent[x]
             /\ contents'[c][c] = sent'[c] /\ contents'[c][c] = contents[c][c] + 1
             /\ \A s \in Sources \ {c} : contents'[c][s] = 0
  BY <1>0, <1>1, <1>2, ByIdCalls DEF AddItem, IInv, TInv, TypeOK, ObjectsInv, Sources
<1>3. ASSUME NEW d, SetEvent(Key(c), d)
      PROVE  /\ response_data'[Key(c)] = d
             /\ \A k \in Keys \ {Key(c)} : response_data'[k] = response_data[k]
  BY <1>0, <1>3 DEF SetEvent, IInv, TInv, TypeOK
<1>4. ASSUME NEW y, srv' = [srv EXCEPT ![c] = y]
      PROVE  srv'[c] = y /\ \A x \in Calls : srv'[x] = IF x = c THEN srv'[c] ELSE srv[x]
  BY <1>0, <1>4 DEF IInv, TInv, TypeOK
<1>5. CASE ItemCallback(c)
  <2>1. Method[c] \in Accumulates /\ AddItem(c)
    BY <1>5 DEF ItemCallback
  <2>2. UNCHANGED <<next_valid_id_value, response_events, error_events, id, waits, accumulators,
                    cancelled, pc, result, done, response_data, error_data, fired, srv>>
    BY <1>5 DEF ItemCallback
  <2>3. contents[c][c] \in Nat
    BY <1>0 DEF IInv, TInv, TypeOK, Sources
  <2> QED
    BY <1>0, <1>2, <2>1, <2>2, <2>3, ByIdCallbackIInv
<1>6. CASE EndCallback(c)
  <2>1. Method[c] \in Accumulates /\ sent[c] = Items[c] /\ UNCHANGED contents
    BY <1>6 DEF EndCallback
  <2>2. \/ Accumulated(c) = Val(Zero) /\ contents[c] = Zero
        \/ Accumulated(c) = Ref(c)
    BY <1>0, <2>1 DEF Accumulated
  <2>3. contents[c] = Zero => Items[c] = 0
    BY <1>0, <1>1, <2>1 DEF Zero, Sources
  <2>4. OwnData(c, Accumulated(c)) /\ Items[c] \in Int
    BY <1>0, <1>1, <2>1, <2>2, <2>3, ItemsAssumption DEF OwnData
  <2>5. \A d : OwnData(c, d) => OwnData(c, d)'
    BY <2>1 DEF OwnData
  <2>6. SetEvent(Key(c), Accumulated(c))
    BY <1>6 DEF EndCallback
  <2>7. OwnData(c, response_data[Key(c)])'
    <3>1. PICK d : d = Accumulated(c)
      OBVIOUS
    <3>2. response_data'[Key(c)] = d /\ OwnData(c, d)'
      BY <1>3, <2>4, <2>5, <2>6, <3>1
    <3> QED
      BY <1>1, <3>2 DEF OwnData
  <2>8. srv'[c] \in {"live", "ended"} /\ \A x \in Calls : srv'[x] = IF x = c THEN srv'[c] ELSE srv[x]
    BY <1>4, <1>6 DEF EndCallback, AfterAnswer
  <2>9. \A s \in Sources \ {c} : contents[c][s] = 0
    BY <2>1 DEF IInv, ObjectsInv
  <2>10. contents[c][c] \in Nat
    BY <1>0 DEF IInv, TInv, TypeOK, Sources
  <2>11. UNCHANGED <<next_valid_id_value, response_events, error_events, id, waits, accumulators,
                     cancelled, pc, result, done, error_data, sent>>
    BY <1>6, <2>6 DEF EndCallback, SetEvent
  <2>12. fired' = fired \cup Fire("ok", response_events[Key(c)])
    BY <2>6 DEF SetEvent
  <2> QED
    BY <1>0, <1>1, <1>3, <2>1, <2>6, <2>7, <2>8, <2>9, <2>10, <2>11, <2>12, ByIdCallbackIInv
<1>7. CASE LastTicksCallback(c)
  <2>1. Method[c] \in Accumulates /\ sent[c] = Items[c] - 1 /\ AddItem(c)
        /\ SetEvent(Key(c), Ref(c))
    BY <1>0, <1>7 DEF LastTicksCallback, EndsWithItem, Accumulates
  <2>2. contents'[c][c] = Items[c] /\ contents[c][c] \in Nat
    BY <1>0, <1>1, <1>2, <2>1, ItemsAssumption DEF IInv, TInv, TypeOK, Sources
  <2>3. OwnData(c, response_data[Key(c)])'
    BY <1>1, <1>3, <2>1, <2>2, ItemsAssumption, <1>0 DEF OwnData, Ref
  <2>4. srv'[c] \in {"live", "ended"} /\ \A x \in Calls : srv'[x] = IF x = c THEN srv'[c] ELSE srv[x]
    BY <1>4, <1>7 DEF LastTicksCallback
  <2>5. UNCHANGED <<next_valid_id_value, response_events, error_events, id, waits, accumulators,
                    cancelled, pc, result, done, error_data>>
    BY <1>7, <2>1 DEF LastTicksCallback, SetEvent
  <2>6. fired' = fired \cup Fire("ok", response_events[Key(c)])
    BY <2>1 DEF SetEvent
  <2> QED
    BY <1>0, <1>2, <1>3, <2>1, <2>2, <2>3, <2>4, <2>5, <2>6, ByIdCallbackIInv
<1>8. CASE PayloadCallback(c)
  <2>1. Method[c] \notin Accumulates /\ SetEvent(Key(c), Val(One(c))) /\ UNCHANGED contents
    BY <1>8 DEF PayloadCallback
  <2>2. OwnData(c, response_data[Key(c)])'
    BY <1>1, <1>3, <2>1 DEF OwnData, Val, One, Zero
  <2>3. srv'[c] \in {"live", "ended"} /\ \A x \in Calls : srv'[x] = IF x = c THEN srv'[c] ELSE srv[x]
    BY <1>4, <1>8 DEF PayloadCallback, AfterAnswer
  <2>4. UNCHANGED <<next_valid_id_value, response_events, error_events, id, waits, accumulators,
                    cancelled, pc, result, done, error_data>>
    BY <1>8, <2>1 DEF PayloadCallback, SetEvent
  <2>5. fired' = fired \cup Fire("ok", response_events[Key(c)])
    BY <2>1 DEF SetEvent
  <2>6. \A x \in ById \ {c} : contents'[x] = contents[x] /\ sent'[x] = sent[x]
    BY <1>8, <2>1, ByIdCalls DEF PayloadCallback, IInv, TInv, TypeOK
  <2> QED
    BY <1>0, <1>3, <2>1, <2>2, <2>3, <2>4, <2>5, <2>6, ByIdCallbackIInv
<1>9. CASE \E code \in {"info", "fatal"} : ErrorCallback(c, code)
  <2>1. UNCHANGED <<next_valid_id_value, response_events, error_events, id, waits, accumulators,
                    cancelled, pc, result, done, response_data, contents, sent>>
    BY <1>9 DEF ErrorCallback
  <2>2. \/ UNCHANGED <<response_data, error_data, fired, srv>>
        \/ /\ error_data' = [error_data EXCEPT ![id[c]] = c]
           /\ fired' = fired \cup Fire("err", error_events[id[c]])
           /\ srv' = [srv EXCEPT ![c] = "failed"]
           /\ response_data' = response_data
    BY <1>0, <1>9, <2>1 DEF ErrorCallback, SetError
  <2>3. Method[c] \in Accumulates =>
          /\ contents'[c][c] = sent'[c] /\ contents'[c][c] >= contents[c][c]
          /\ \A s \in Sources \ {c} : contents'[c][s] = 0
    BY <1>0, <1>1, <2>1 DEF IInv, TInv, TypeOK, ObjectsInv, Sources
  <2> QED
    BY <1>0, <2>1, <2>2, <2>3, ByIdCallbackIInv
<1> QED
  BY <1>5, <1>6, <1>7, <1>8, <1>9

\* Callbacks for a call without an id reach no entry of a call by id.
LEMMA SharedEventIInv ==
  ASSUME IInv, TInv', NEW c \in Calls \ ById,
         \/ ItemCallback(c) \/ EndCallback(c) \/ LastTicksCallback(c) \/ PayloadCallback(c)
         \/ \E code \in {"info", "fatal"} : ErrorCallback(c, code)
  PROVE  IInv'
<1> USE DEF client, tables, objects, tasks, tws
<1>0. /\ c \in Calls /\ srv[c] \in {"open", "live"} /\ Key(c) \in Keys
      /\ Method[c] \notin ByReqId /\ Key(c)[1] \notin ByReqId /\ ErrId(c) = NoValidId
      /\ Method[c] \notin EndsWithItem
  <2>1. c \in Calls /\ srv[c] \in {"open", "live"} /\ Method[c] \notin ByReqId
    BY ByIdCalls DEF ItemCallback, EndCallback, LastTicksCallback, PayloadCallback,
                     ErrorCallback, MoreItems
  <2> QED
    BY <2>1, KeysApart DEF IInv, TInv, ErrId, ByReqId, EndsWithItem
<1>1. ~LastTicksCallback(c)
  BY <1>0 DEF LastTicksCallback
<1>2. /\ UNCHANGED <<response_events, error_events, id, waits, accumulators, cancelled,
                     pc, done, result, next_valid_id_value>>
      /\ next_valid_id_value \in Int
  BY <1>1 DEF ItemCallback, EndCallback, PayloadCallback, ErrorCallback, SetEvent,
              IInv, TInv, TypeOK
<1>3. \A x \in ById : contents'[x] = contents[x] /\ sent'[x] = sent[x]
  <2>1. CASE ItemCallback(c)
    <3>1. accumulators[Key(c)] \notin ById
      BY <1>0, CallsAssumption, ByIdCalls DEF IInv, ObjectsInv
    <3> QED
      BY <2>1, <3>1, <1>0, ByIdCalls DEF ItemCallback, AddItem, IInv, TInv, TypeOK
  <2>2. CASE ~ItemCallback(c)
    BY <2>2, <1>0, <1>1, ByIdCalls
    DEF EndCallback, PayloadCallback, ErrorCallback, IInv, TInv, TypeOK
  <2> QED
    BY <2>1, <2>2
<1>4. \A x \in ById : x \in Calls /\ Key(x) # Key(c) /\ Key(x) \in Keys
  BY <1>0, ByIdCalls, KeysApart DEF IInv, TInv
<1>5. \A x \in ById : response_data'[Key(x)] = response_data[Key(x)]
  BY <1>0, <1>1, <1>4
  DEF ItemCallback, EndCallback, PayloadCallback, ErrorCallback, SetEvent, IInv, TInv, TypeOK
<1>6. \A x \in ById : srv'[x] = srv[x]
  BY <1>0, <1>1, ByIdCalls
  DEF ItemCallback, EndCallback, PayloadCallback, ErrorCallback, IInv, TInv, TypeOK
<1>7. \A i \in Ids \ {0} : error_data'[i] = error_data[i]
  <2>1. error_data' = error_data \/ error_data' = [error_data EXCEPT ![NoValidId] = c]
    BY <1>0, <1>1
    DEF ItemCallback, EndCallback, PayloadCallback, ErrorCallback, SetError, SetEvent
  <2>2. \A i \in Ids \ {0} : i # NoValidId /\ i \in ErrIds
    BY DEF NoValidId, Ids, ErrIds
  <2> QED
    BY <2>1, <2>2 DEF IInv, TInv, TypeOK
<1>8. /\ fired \subseteq fired'
      /\ \A x \in ById : <<"ok", x>> \in fired' => <<"ok", x>> \in fired
      /\ \A x \in Calls : <<"err", x>> \in fired' => <<"err", x>> \in fired
  <2>1. response_events[Key(c)] \notin ById
    BY <1>0, CallsAssumption, ByIdCalls DEF IInv, EventsInv, SuccessEventOf
  <2>2. Fire("err", error_events[NoValidId]) = {}
    BY DEF IInv, EventsInv, Fire
  <2>3. \A x \in Calls : <<"err", x>> \notin Fire("ok", response_events[Key(c)])
    BY DEF Fire
  <2>4. \A x \in ById : <<"ok", x>> \notin Fire("ok", response_events[Key(c)])
    BY <2>1 DEF Fire
  <2>5. \/ fired' = fired
        \/ fired' = fired \cup Fire("ok", response_events[Key(c)])
        \/ fired' = fired \cup Fire("err", error_events[NoValidId])
    BY <1>0, <1>1
    DEF ItemCallback, EndCallback, PayloadCallback, ErrorCallback, SetError, SetEvent
  <2> QED
    BY <2>2, <2>3, <2>4, <2>5
<1>9. \A x \in Calls : \A kind \in done[x] : <<kind, waits[x][kind]>> \in fired
  BY DEF IInv, TasksInv
<1> QED
  BY <1>2, <1>3, <1>5, <1>6, <1>7, <1>8, <1>9, FrameIInv

\* The handshake, cancels taking effect, and the loss and the return of
\* the connection.
LEMMA EnvironmentIInv ==
  ASSUME IInv, TInv', ~StaleNextId,
         \/ \E c \in Calls : ServerCancels(c)
         \/ \E v \in 1..MaxId : NextValidId(v)
         \/ PushManagedAccounts
         \/ Drop \/ Reconnect
  PROVE  IInv'
<1> USE DEF client, tables, objects, tasks, tws
<1>1. /\ UNCHANGED <<response_events, error_events, id, waits, accumulators, cancelled,
                     pc, done, result, contents, sent, error_data>>
      /\ next_valid_id_value' >= next_valid_id_value
  BY DEF ServerCancels, NextValidId, PushManagedAccounts, Drop, Reconnect, SetEvent, IInv, TInv, TypeOK
<1>2. \A x \in ById : \/ srv'[x] = srv[x]
                      \/ srv[x] # "failed" /\ srv'[x] = "ended" /\ x \in cancelled
                      \/ srv[x] # "failed" /\ srv'[x] = "gone"
  <2>1. CASE Reconnect
    BY <2>1, ByIdCalls DEF Reconnect
  <2>2. CASE ~Reconnect
    BY <2>2, ByIdCalls DEF ServerCancels, NextValidId, PushManagedAccounts, Drop, IInv, TInv, TypeOK
  <2> QED
    BY <2>1, <2>2
<1>3. <<"managed_accounts", 0>> \in Keys /\ "managed_accounts" \notin ByReqId
  BY BoundsAssumption DEF Keys, Ids, ByReqId
<1>4. \A x \in ById : Key(x) \in Keys /\ Key(x) # <<"managed_accounts", 0>>
  BY <1>3, ByIdCalls, KeysApart DEF IInv, TInv
<1>5. \A x \in ById : response_data'[Key(x)] = response_data[Key(x)]
  BY <1>3, <1>4 DEF ServerCancels, NextValidId, PushManagedAccounts, Drop, Reconnect, SetEvent,
                    IInv, TInv, TypeOK
<1>6. response_events[<<"managed_accounts", 0>>] \notin ById
  BY <1>3, CallsAssumption, ByIdCalls DEF IInv, EventsInv, SuccessEventOf
<1>7. /\ fired \subseteq fired'
      /\ \A x \in ById : <<"ok", x>> \in fired' => <<"ok", x>> \in fired
      /\ \A x \in Calls : <<"err", x>> \in fired' => <<"err", x>> \in fired
  <2>1. fired' = fired \/ fired' = fired \cup Fire("ok", response_events[<<"managed_accounts", 0>>])
    BY DEF ServerCancels, NextValidId, PushManagedAccounts, Drop, Reconnect, SetEvent
  <2>2. /\ \A x \in ById : <<"ok", x>> \notin Fire("ok", response_events[<<"managed_accounts", 0>>])
        /\ \A x \in Calls : <<"err", x>> \notin Fire("ok", response_events[<<"managed_accounts", 0>>])
    BY <1>6 DEF Fire
  <2> QED
    BY <2>1, <2>2
<1>8. \A x \in Calls : \A kind \in done[x] : <<kind, waits[x][kind]>> \in fired
  BY DEF IInv, TasksInv
<1> QED
  BY <1>1, <1>2, <1>5, <1>7, <1>8, FrameIInv

LEMMA StepIInv ==
  ASSUME ~StaleNextId, IInv, [Next]_vars
  PROVE  IInv'
<1>1. TInv'
  BY StepTInv DEF IInv
<1>2. CASE UNCHANGED vars
  <2>1. UNCHANGED <<next_valid_id_value, response_events, error_events, response_data,
                    error_data, fired, accumulators, contents, id, waits, pc, done, result,
                    srv, sent, cancelled>>
    BY <1>2 DEF vars, client, tables, objects, tasks, tws
  <2>2. next_valid_id_value \in Int
    BY DEF IInv, TInv, TypeOK
  <2>3. \A x \in Calls : \A kind \in done[x] : <<kind, waits[x][kind]>> \in fired
    BY DEF IInv, TasksInv
  <2> QED
    BY <1>1, <2>1, <2>2, <2>3, FrameIInv
<1>3. ASSUME NEW c \in Calls,
             \/ ItemCallback(c) \/ EndCallback(c) \/ LastTicksCallback(c) \/ PayloadCallback(c)
             \/ \E code \in {"info", "fatal"} : ErrorCallback(c, code)
      PROVE  IInv'
  <2>1. CASE c \in ById
    BY <1>1, <1>3, <2>1, ByIdEventIInv
  <2>2. CASE c \notin ById
    BY <1>1, <1>3, <2>2, SharedEventIInv
  <2> QED
    BY <2>1, <2>2
<1>4. ASSUME NEW c \in Calls,
             CallById(c) \/ CallEarly(c) \/ CallShared(c) \/ CallCached(c) \/ Awaken(c)
      PROVE  IInv'
  BY <1>1, <1>4, CallIInv
<1>5. CASE \/ \E c \in Calls : ServerCancels(c)
           \/ \E v \in 1..MaxId : NextValidId(v)
           \/ PushManagedAccounts
           \/ Drop \/ Reconnect
  BY <1>1, <1>5, EnvironmentIInv
<1> QED
  BY <1>2, <1>3, <1>4, <1>5 DEF Next

\* Each call by id keeps its id, its events, its accumulator and its data to
\* itself, at every point of its life: the invariant all the others follow from.
THEOREM Invariance == ASSUME ~StaleNextId PROVE Spec => []IInv
<1>1. IInv /\ [Next]_vars => IInv'
  BY StepIInv
<1> QED
  BY <1>1, InitIInv, PTL DEF Spec

(***************************************************************************)
(* The safety properties of calls that carry a request id                  *)
(***************************************************************************)

\* What OwnData says of the items a caller sees.
LEMMA OwnDataValue ==
  ASSUME IInv, NEW c \in ById, NEW d, OwnData(c, d)
  PROVE  OnlyOf(c, d) /\ Value(d)[c] >= AnswerSize(c)
<1>1. c \in Calls /\ c \in Sources /\ contents[c][c] \in Nat
  BY ByIdCalls DEF IInv, TInv, TypeOK, Sources
<1>2. CASE Method[c] \in Accumulates /\ d = Ref(c) /\ contents[c][c] >= Items[c]
  <2>1. Value(d) = contents[c] /\ d # NoData /\ AnswerSize(c) = Items[c]
    BY <1>2 DEF Value, Ref, NoData, AnswerSize
  <2>2. \A s \in Sources \ {c} : contents[c][s] = 0
    BY <1>2 DEF IInv, ObjectsInv
  <2> QED
    BY <1>2, <2>1, <2>2 DEF OnlyOf
<1>3. CASE Method[c] \in Accumulates /\ d = Val(Zero) /\ Items[c] = 0
  BY <1>1, <1>3 DEF Value, Val, NoData, AnswerSize, OnlyOf, Zero
<1>4. CASE Method[c] \notin Accumulates /\ d = Val(One(c))
  BY <1>1, <1>4 DEF Value, Val, NoData, AnswerSize, OnlyOf, One, Zero
<1> QED
  BY <1>2, <1>3, <1>4 DEF OwnData

\* The invariant implies the properties.
LEMMA Consequences ==
  IInv => AnswerIsOwn /\ AnswerIsComplete /\ ErrorIsOwn /\ IdsAreDistinct /\ NoLostWakeup
<1> SUFFICES ASSUME IInv
             PROVE  /\ AnswerIsOwn /\ AnswerIsComplete /\ ErrorIsOwn
                    /\ IdsAreDistinct /\ NoLostWakeup
  OBVIOUS
<1>1. ASSUME NEW c \in ById, pc[c] = "returned"
      PROVE  /\ OnlyOf(c, result[c])
             /\ \/ Value(result[c])[c] >= AnswerSize(c)
                \/ Method[c] = "executions" /\ <<"ok", c>> \notin fired
  <2>1. c \in Calls /\ Issued(c)
    BY <1>1, ByIdCalls DEF Issued
  <2>2. CASE OwnData(c, result[c])
    BY <2>2, OwnDataValue
  <2>3. CASE /\ Method[c] = "executions" /\ <<"ok", c>> \notin fired
             /\ result[c] \in {Ref(c), Val(Zero)}
    <3>1. \A s \in Sources \ {c} : contents[c][s] = 0
      BY <2>3 DEF IInv, ObjectsInv, Accumulates
    <3> QED
      BY <2>3, <3>1 DEF OnlyOf, Value, Ref, Val, NoData, Zero
  <2> QED
    BY <1>1, <2>1, <2>2, <2>3 DEF IInv, ResultInv
<1>2. ErrorIsOwn
  BY DEF ErrorIsOwn, IInv, ResultInv
<1>3. IdsAreDistinct
  <2>1. \A c \in ById : id[c] # 0 => Issued(c)
    BY ByIdCalls DEF IInv, Untouched
  <2>2. \A c, d \in ById : Issued(c) /\ Issued(d) /\ c # d => id[c] # id[d]
    BY DEF IInv, IdsInv
  <2> QED
    BY <2>1, <2>2 DEF IdsAreDistinct
<1>4. NoLostWakeup
  <2>1. ASSUME NEW c \in ById, pc[c] = "waiting"
        PROVE  /\ waits[c].ok = c /\ waits[c].err = c
               /\ srv[c] \in {"live", "ended"} => <<"ok", c>> \in fired
               /\ srv[c] = "failed" => <<"err", c>> \in fired
    <3>1. AwaitsOwn(c)
      BY <2>1 DEF IInv, WaitingInv
    <3>2. waits[c] = [ok |-> c, err |-> c]
      BY <3>1 DEF AwaitsOwn
    <3>3. waits[c].ok = c /\ waits[c].err = c
      BY <3>2
    <3> QED
      BY <3>1, <3>3 DEF AwaitsOwn
  <2> QED
    BY <2>1 DEF NoLostWakeup
<1> QED
  BY <1>1, <1>2, <1>3, <1>4 DEF AnswerIsOwn, AnswerIsComplete

\* While TWS announces no used id, a get_* call that carries a request id
\* returns only what TWS sent it: never an answer, or a part of one, that
\* belongs to another of any number of concurrent, finished or timed-out calls.
THEOREM AnswersAreOwn == ASSUME ~StaleNextId PROVE Spec => []AnswerIsOwn
BY Invariance, Consequences, PTL

\* Such a call returns its whole answer, unless it is get_executions and its
\* wait timed out before execDetailsEnd.
THEOREM AnswersAreComplete == ASSUME ~StaleNextId PROVE Spec => []AnswerIsComplete
BY Invariance, Consequences, PTL

\* TWSError is raised only by a call by id that TWS itself refused, with the
\* error TWS gave for it.
THEOREM ErrorsAreOwn == ASSUME ~StaleNextId PROVE Spec => []ErrorIsOwn
BY Invariance, Consequences, PTL

\* get_next_valid_id never hands out the same id twice.
THEOREM IdsStayDistinct == ASSUME ~StaleNextId PROVE Spec => []IdsAreDistinct
BY Invariance, Consequences, PTL

\* The event a waiting call by id awaits is set by the callback that ends or
\* refuses its request, in the same step.
THEOREM NoWakeupIsLost == ASSUME ~StaleNextId PROVE Spec => []NoLostWakeup
BY Invariance, Consequences, PTL
=============================================================================
