---------------------------- MODULE SharedProofs ----------------------------
(***************************************************************************)
(* Proofs about Correlation that hold whatever ids TWS announces: finished *)
(* calls leave no event registered, and a call without a request id is     *)
(* given its own whole answer if it meets no other call of its kind.       *)
(***************************************************************************)
EXTENDS CorrelationProofs

(***************************************************************************)
(* Registered events                                                       *)
(***************************************************************************)

\* RegisteredIsAwaited is not inductive: which keys a call that ends cleans up
\* depends on its method and id, so that the invariant names the call's keys.
RegisteredInv ==
  /\ TInv
  /\ \A c \in Calls : pc[c] = "need_id" => c \in ById
  /\ \A k \in Keys :
       response_events[k] # NoCall =>
         \E c \in Calls : pc[c] = "waiting" /\ Key(c) = k /\ waits[c].ok = response_events[k]
  /\ \A i \in ErrIds :
       error_events[i] # NoCall =>
         \E c \in Calls : pc[c] = "waiting" /\ id[c] = i /\ waits[c].err = error_events[i]

\* A request is issued: the call awaits what is under its keys, its own events
\* if there were none.
LEMMA IssueRegistered ==
  ASSUME RegisteredInv, TInv', NEW c \in Calls, NEW i \in Ids, ~Issued(c), Issue(c, i)
  PROVE  RegisteredInv'
<1> DEFINE k == <<Method[c], i>>
           ok == IF response_events[k] = NoCall THEN c ELSE response_events[k]
           err == IF error_events[i] = NoCall THEN c ELSE error_events[i]
<1>0. k \in Keys /\ i \in ErrIds /\ pc[c] # "waiting"
  BY KeyType DEF ErrIds, Issued
<1>1. /\ response_events' = [response_events EXCEPT ![k] = ok]
      /\ error_events' = [error_events EXCEPT ![i] = err]
      /\ waits' = [waits EXCEPT ![c] = [ok |-> ok, err |-> err]]
      /\ id' = [id EXCEPT ![c] = i]
      /\ pc' = [pc EXCEPT ![c] = "waiting"]
  BY Zenon DEF Issue
<1> HIDE DEF k, ok, err
<1>2. /\ \A x \in Keys : response_events'[x] = IF x = k THEN ok ELSE response_events[x]
      /\ \A x \in ErrIds : error_events'[x] = IF x = i THEN err ELSE error_events[x]
  BY <1>0, <1>1 DEF RegisteredInv, TInv, TypeOK
<1>3. /\ pc'[c] = "waiting" /\ Key(c)' = k /\ id'[c] = i
      /\ waits'[c].ok = ok /\ waits'[c].err = err
  BY <1>1 DEF RegisteredInv, TInv, TypeOK, Key, k
<1>4. \A d \in Calls \ {c} :
        pc'[d] = pc[d] /\ Key(d)' = Key(d) /\ id'[d] = id[d] /\ waits'[d] = waits[d]
  BY <1>1 DEF RegisteredInv, TInv, TypeOK, Key
<1>5. ASSUME NEW x \in Keys, response_events'[x] # NoCall
      PROVE  \E d \in Calls : pc'[d] = "waiting" /\ Key(d)' = x /\ waits'[d].ok = response_events'[x]
  <2>1. CASE x = k
    BY <1>2, <1>3, <2>1
  <2>2. CASE x # k
    <3>1. PICK d \in Calls : pc[d] = "waiting" /\ Key(d) = x /\ waits[d].ok = response_events[x]
      BY <1>2, <1>5, <2>2 DEF RegisteredInv
    <3> QED
      BY <3>1, <1>0, <1>2, <1>4, <2>2
  <2> QED
    BY <2>1, <2>2
<1>6. ASSUME NEW x \in ErrIds, error_events'[x] # NoCall
      PROVE  \E d \in Calls : pc'[d] = "waiting" /\ id'[d] = x /\ waits'[d].err = error_events'[x]
  <2>1. CASE x = i
    BY <1>2, <1>3, <2>1
  <2>2. CASE x # i
    <3>1. PICK d \in Calls : pc[d] = "waiting" /\ id[d] = x /\ waits[d].err = error_events[x]
      BY <1>2, <1>6, <2>2 DEF RegisteredInv
    <3> QED
      BY <3>1, <1>0, <1>2, <1>4, <2>2
  <2> QED
    BY <2>1, <2>2
<1> QED
  BY <1>3, <1>4, <1>5, <1>6 DEF RegisteredInv

\* A call ends: no event is left under its keys, and the calls under other
\* keys go on waiting.
LEMMA FinishRegistered ==
  ASSUME RegisteredInv, TInv', NEW c \in Calls, NEW cancels, NEW d,
         NEW outcome \in {"returned", "tws_error", "timed_out"},
         Finish(c, outcome, d), Cleanup(c, cancels)
  PROVE  RegisteredInv'
<1>0. Key(c) \in Keys /\ id[c] \in ErrIds
  BY KeyType DEF RegisteredInv, TInv, TypeOK, Key, ErrIds
<1>1. /\ \A x \in Keys : response_events'[x] = IF x = Key(c) THEN NoCall ELSE response_events[x]
      /\ \A x \in ErrIds : error_events'[x] = IF x = id[c] THEN NoCall ELSE error_events[x]
  BY <1>0 DEF Cleanup, RegisteredInv, TInv, TypeOK
<1>2. \A x \in Calls \ {c} :
        pc'[x] = pc[x] /\ Key(x)' = Key(x) /\ id'[x] = id[x] /\ waits'[x] = waits[x]
  BY DEF Finish, Key, RegisteredInv, TInv, TypeOK
<1>3. ASSUME NEW x \in Keys, response_events'[x] # NoCall
      PROVE  \E a \in Calls : pc'[a] = "waiting" /\ Key(a)' = x /\ waits'[a].ok = response_events'[x]
  <2>1. PICK a \in Calls : pc[a] = "waiting" /\ Key(a) = x /\ waits[a].ok = response_events[x]
    BY <1>1, <1>3 DEF RegisteredInv
  <2> QED
    BY <1>1, <1>2, <1>3, <2>1
<1>4. ASSUME NEW x \in ErrIds, error_events'[x] # NoCall
      PROVE  \E a \in Calls : pc'[a] = "waiting" /\ id'[a] = x /\ waits'[a].err = error_events'[x]
  <2>1. PICK a \in Calls : pc[a] = "waiting" /\ id[a] = x /\ waits[a].err = error_events[x]
    BY <1>1, <1>4 DEF RegisteredInv
  <2> QED
    BY <1>1, <1>2, <1>4, <2>1
<1>5. pc'[c] = outcome
  BY DEF Finish, RegisteredInv, TInv, TypeOK
<1> QED
  BY <1>2, <1>3, <1>4, <1>5 DEF RegisteredInv

\* Every other step leaves the tables and the waiting calls as they are.
LEMMA FrameRegistered ==
  ASSUME RegisteredInv, TInv', UNCHANGED <<response_events, error_events, id, waits>>,
         \A x \in Calls : pc[x] = "waiting" => pc'[x] = "waiting",
         \A x \in Calls : pc'[x] = "need_id" => pc[x] = "need_id" \/ x \in ById
  PROVE  RegisteredInv'
BY DEF RegisteredInv, Key

\* What a step is for the tables.  Only those that end a call clean up.
Issues(c) ==
  \E i \in Ids :
    /\ ~Issued(c) /\ pc[c] # "no_id" /\ Issue(c, i)
    /\ Method[c] \in Shared => i = 0 /\ UNCHANGED next_valid_id_value

Ends(c) ==
  \E outcome \in {"returned", "tws_error", "timed_out"}, d \in Data, cancels \in BOOLEAN :
    /\ pc[c] = "waiting"
    /\ outcome = "returned" /\ c \notin ById => "ok" \in done[c] /\ d = response_data[Key(c)]
    /\ outcome = "returned" => "ok" \in done[c] \/ Method[c] = "executions"
    /\ Finish(c, outcome, d) /\ Cleanup(c, cancels)

Callback(c) ==
  \/ ItemCallback(c) \/ EndCallback(c) \/ LastTicksCallback(c) \/ PayloadCallback(c)
  \/ \E code \in {"info", "fatal"} : ErrorCallback(c, code)

Other ==
  \/ \E c \in Calls :
       \/ CallEarly(c) \/ GaveUpOnId(c) \/ CallCached(c) \/ ServerCancels(c)
       \/ \E kind \in {"ok", "err"} : WaiterDone(c, kind)
  \/ \E v \in 1..MaxId : NextValidId(v)
  \/ PushManagedAccounts \/ Drop \/ Reconnect

LEMMA Steps ==
  ASSUME RegisteredInv, Next
  PROVE  (\E c \in Calls : Issues(c) \/ Ends(c) \/ Callback(c)) \/ Other
<1>0. TInv /\ \A c \in Calls : Key(c) \in Keys
  BY KeyType DEF RegisteredInv, TInv, TypeOK, Key
<1>1. ASSUME NEW c \in Calls, CallById(c) \/ GotId(c)
      PROVE  Issues(c)
  <2>1. /\ ~Issued(c) /\ pc[c] # "no_id"
        /\ next_valid_id_value \in Ids /\ Issue(c, next_valid_id_value)
    BY <1>1, BoundsAssumption DEF CallById, GotId, IssueWithId, Issued, Ids
  <2>2. Method[c] \in ByReqId
    BY <1>1 DEF CallById, GotId, RegisteredInv, ById
  <2> QED
    BY <2>1, <2>2 DEF Issues, ByReqId, Shared
<1>2. ASSUME NEW c \in Calls, CallShared(c)
      PROVE  Issues(c)
  <2>1. /\ ~Issued(c) /\ pc[c] # "no_id" /\ Issue(c, 0)
        /\ UNCHANGED next_valid_id_value /\ 0 \in Ids
    BY <1>2, BoundsAssumption DEF CallShared, Issued, Ids
  <2> QED
    BY <2>1 DEF Issues
<1>3. ASSUME NEW c \in Calls, ReturnData(c)
      PROVE  Ends(c)
  <2>1. response_data[Key(c)] \in Data /\ (Method[c] \in PairedCancel) \in BOOLEAN
    BY <1>0 DEF TInv, TypeOK
  <2> QED
    BY <1>3, <2>1 DEF ReturnData, Ends
<1>4. ASSUME NEW c \in Calls, RaiseTWSError(c)
      PROVE  Ends(c)
  <2> DEFINE d == IF error_data[id[c]] = NoCall THEN NoData ELSE Fault(error_data[id[c]])
  <2>1. d \in Data
    BY <1>0, DataType DEF TInv, TypeOK, ErrIds
  <2> HIDE DEF d
  <2>2. pc[c] = "waiting" /\ Finish(c, "tws_error", d) /\ Cleanup(c, FALSE)
    BY <1>4 DEF RaiseTWSError, d
  <2> QED
    BY <2>1, <2>2 DEF Ends
<1>5. ASSUME NEW c \in Calls, Timeout(c)
      PROVE  Ends(c)
  <2> DEFINE o == accumulators[Key(c)]
             d == IF contents[o] = Zero THEN Val(Zero) ELSE Ref(o)
  <2>1. o \in Calls \cup {NoCall}
    BY <1>0 DEF TInv, TypeOK
  <2>2. d \in Data /\ NoData \in Data
    BY <2>1, DataType
  <2> HIDE DEF d
  <2>3. /\ pc[c] = "waiting" /\ Cleanup(c, FALSE)
        /\ \/ Method[c] = "executions" /\ Finish(c, "returned", d)
           \/ Finish(c, "timed_out", NoData)
    BY <1>5 DEF Timeout, d
  <2>4. Method[c] = "executions" => c \in ById
    BY DEF ById, ByReqId
  <2> QED
    BY <2>2, <2>3, <2>4 DEF Ends
<1> QED
  BY <1>1, <1>2, <1>3, <1>4, <1>5 DEF Next, Awaken, Callback, Other

LEMMA StepRegistered == RegisteredInv /\ [Next]_vars => RegisteredInv'
<1> SUFFICES ASSUME RegisteredInv, [Next]_vars
             PROVE  RegisteredInv'
  OBVIOUS
<1> USE DEF client, tables, objects, tasks, tws
<1>0. TInv'
  BY StepTInv DEF RegisteredInv
<1>1. ASSUME NEW c \in Calls, Issues(c)
      PROVE  RegisteredInv'
  BY <1>0, <1>1, IssueRegistered DEF Issues
<1>2. ASSUME NEW c \in Calls, Ends(c)
      PROVE  RegisteredInv'
  BY <1>0, <1>2, FinishRegistered DEF Ends
<1>3. ASSUME NEW c \in Calls, Callback(c)
      PROVE  RegisteredInv'
  <2>1. UNCHANGED <<response_events, error_events, id, waits, pc>>
    BY <1>3 DEF Callback, ItemCallback, EndCallback, LastTicksCallback, PayloadCallback,
                ErrorCallback, SetEvent
  <2> QED
    BY <1>0, <2>1, FrameRegistered
<1>4. CASE Other
  <2>1. UNCHANGED <<response_events, error_events, id, waits>>
    BY <1>4 DEF Other, CallEarly, GaveUpOnId, CallCached, ServerCancels, WaiterDone, NextValidId,
                PushManagedAccounts, Drop, Reconnect, SetEvent
  <2>2. \A x \in Calls : /\ pc[x] = "waiting" => pc'[x] = "waiting"
                         /\ pc'[x] = "need_id" => pc[x] = "need_id" \/ x \in ById
    <3>1. ASSUME NEW c \in Calls, CallEarly(c) \/ GaveUpOnId(c) \/ CallCached(c)
          PROVE  /\ \A x \in Calls \ {c} : pc'[x] = pc[x]
                 /\ pc[c] # "waiting" /\ (pc'[c] = "need_id" => c \in ById)
      BY <3>1 DEF CallEarly, GaveUpOnId, CallCached, RegisteredInv, TInv, TypeOK, ById
    <3>2. CASE UNCHANGED pc
      BY <3>2
    <3> QED
      BY <1>4, <3>1, <3>2 DEF Other, ServerCancels, WaiterDone, NextValidId,
                              PushManagedAccounts, Drop, Reconnect
  <2> QED
    BY <1>0, <2>1, <2>2, FrameRegistered
<1>5. CASE UNCHANGED vars
  BY <1>0, <1>5, FrameRegistered DEF vars
<1> QED
  BY <1>1, <1>2, <1>3, <1>4, <1>5, Steps

LEMMA RegisteredInvariance == Spec => []RegisteredInv
<1>1. Init => RegisteredInv
  BY InitTInv DEF Init, RegisteredInv
<1> QED
  BY <1>1, StepRegistered, PTL DEF Spec

\* A call that returned, raised or gave up leaves no event in the tables, even
\* where calls without an id clean up after each other, and whatever ids TWS
\* announces: what is registered is awaited.
THEOREM RegisteredAreAwaited == Spec => []RegisteredIsAwaited
<1>1. RegisteredInv => RegisteredIsAwaited
  BY DEF RegisteredInv, RegisteredIsAwaited
<1> QED
  BY <1>1, RegisteredInvariance, PTL

(***************************************************************************)
(* Calls without a request id                                              *)
(***************************************************************************)

\* A call that met no other of its kind, and one TWS may still answer.
Lone(c) == c \in Calls \ ById /\ c \notin overlapped
Unsettled(c) == pc[c] = "waiting" \/ srv[c] \in {"open", "live"}

\* What the tables hold under the key of an event or an accumulator is the work
\* of a call that has the key.
OwnersInv ==
  /\ \A k \in Keys :
       response_events[k] # NoCall => Issued(response_events[k]) /\ Key(response_events[k]) = k
  /\ \A k \in Keys :
       accumulators[k] # NoCall => Issued(accumulators[k]) /\ Key(accumulators[k]) = k
  /\ \A c \in Calls : ~Issued(c) => done[c] = {} /\ <<"ok", c>> \notin fired
  /\ \A c \in Calls \ ById : id[c] = 0
  /\ \A c \in Calls : "ok" \in done[c] => <<"ok", waits[c].ok>> \in fired

LoneInv == \A c \in Calls : Lone(c) /\ Unsettled(c) => Rivals(c) = {}

\* The accumulator of a lone call is its own while TWS may fill it, and is left
\* alone from then on.
LoneObjectsInv ==
  \A c \in Calls : Lone(c) /\ Method[c] \in Accumulates =>
    /\ Unsettled(c) => accumulators[Key(c)] = c
    /\ accumulators[Key(c)] = c =>
         \A d \in Calls \ {c} : Method[d] = Method[c] => srv[d] \notin {"open", "live"}
    /\ contents[c][c] = sent[c]
    /\ \A s \in Sources \ {c} : contents[c][s] = 0

\* The data TWS's whole answer to c leaves under its key.  The handshake answers
\* managed_accounts as well.
LoneData(c, d) ==
  \/ Method[c] = "managed_accounts" /\ d.kind = "val"
  \/ /\ Method[c] = "completed_orders"
     /\ d.kind = "val" /\ d.bag[c] >= Items[c] /\ \A s \in Sources \ {c} : d.bag[s] = 0
  \/ /\ Method[c] \in Accumulates \ {"completed_orders"}
     /\ d = Ref(c) /\ contents[c][c] >= Items[c]
  \/ Method[c] \notin Accumulates \cup {"managed_accounts"} /\ d = Val(One(c))

LoneAnswersInv ==
  /\ managed_accounts_value = NoData \/ managed_accounts_value.kind = "val"
  /\ \A c \in Calls : Lone(c) /\ pc[c] = "waiting" =>
       waits[c].ok = c /\ (<<"ok", c>> \in fired => LoneData(c, response_data[Key(c)]))
  /\ \A c \in Calls : Lone(c) /\ pc[c] = "returned" => LoneData(c, result[c])

SharedInv == RegisteredInv /\ OwnersInv /\ LoneInv /\ LoneObjectsInv /\ LoneAnswersInv

LEMMA SharedCalls ==
  \A c \in Calls : c \in ById \/ (c \notin ById /\ Method[c] \in Shared /\ Method[c] \notin ByReqId)
BY MethodAssumption DEF ById, Methods

LEMMA LoneDataKept ==
  ASSUME NEW c \in Calls, NEW d, LoneData(c, d), TInv, TInv', contents'[c][c] >= contents[c][c]
  PROVE  LoneData(c, d)'
<1>1. contents[c][c] \in Nat /\ contents'[c][c] \in Nat /\ Items[c] \in Nat
  BY ItemsAssumption DEF TInv, TypeOK, Sources
<1> QED
  BY <1>1 DEF LoneData

\* A request is issued: its call is lone only if it finds no other of its kind,
\* and the others of its kind that TWS may still answer are no longer lone.
LEMMA IssueShared ==
  ASSUME SharedInv, TInv', NEW c \in Calls, Issues(c)
  PROVE  OwnersInv' /\ LoneInv' /\ LoneObjectsInv' /\ LoneAnswersInv'
<1>0. PICK i \in Ids : /\ ~Issued(c) /\ Issue(c, i)
                       /\ Method[c] \in Shared => i = 0
  BY DEF Issues
<1> DEFINE k == <<Method[c], i>>
           ok == IF response_events[k] = NoCall THEN c ELSE response_events[k]
<1>1. /\ k \in Keys /\ k[1] = Method[c] /\ pc[c] # "waiting" /\ srv[c] = "none"
      /\ \A x \in Calls : Key(x) \in Keys
  BY <1>0, KeyType DEF SharedInv, RegisteredInv, TInv, TypeOK, Issued, Key
<1>2. /\ response_events' = [response_events EXCEPT ![k] = ok]
      /\ waits'[c].ok = ok
      /\ \A x \in Calls \ {c} : waits'[x] = waits[x]
      /\ id' = [id EXCEPT ![c] = i]
      /\ pc' = [pc EXCEPT ![c] = "waiting"]
      /\ UNCHANGED <<managed_accounts_value, response_data, contents, done, result, sent>>
  BY <1>0 DEF Issue, SharedInv, RegisteredInv, TInv, TypeOK
<1>3. /\ accumulators' = IF Method[c] \in Accumulates
                          THEN [accumulators EXCEPT ![k] = c] ELSE accumulators
      /\ srv' \in {srv, [srv EXCEPT ![c] = "open"]}
      /\ overlapped' = IF Rivals(c) = {} THEN overlapped
                       ELSE overlapped \cup {c} \cup Rivals(c)
  BY <1>0 DEF Issue
<1>4. \A x : <<"ok", x>> \in fired' <=> <<"ok", x>> \in fired
  BY <1>0 DEF Issue, SetError, Fire
<1> HIDE DEF k, ok
<1>5. \A x \in Calls \ {c} : /\ pc'[x] = pc[x] /\ srv'[x] = srv[x] /\ Key(x)' = Key(x)
                             /\ Issued(x)' = Issued(x) /\ Unsettled(x)' = Unsettled(x)
                             /\ Lone(x)' => Lone(x)
  BY <1>2, <1>3 DEF SharedInv, RegisteredInv, TInv, TypeOK, Issued, Key, Lone, Unsettled
<1>6. /\ pc'[c] = "waiting" /\ Issued(c)' /\ Key(c)' = k /\ Unsettled(c)'
      /\ Lone(c)' => Lone(c) /\ Rivals(c) = {}
  BY <1>2, <1>3 DEF SharedInv, RegisteredInv, TInv, TypeOK, Issued, Key, Lone, Unsettled, k
<1>7. \A x \in Calls : Rivals(x)' \subseteq Rivals(x) \cup {c}
  BY <1>5 DEF Rivals
<1>8. ASSUME NEW x \in Calls \ {c}, Method[x] = Method[c], Lone(x)'
      PROVE  ~Unsettled(x)
  BY <1>3, <1>8, SharedCalls DEF Rivals, Lone, Unsettled
<1>9. OwnersInv'
  <2>1. ASSUME NEW x \in Keys, response_events'[x] # NoCall
        PROVE  Issued(response_events[x])' /\ Key(response_events[x])' = x
    <3>1. response_events'[x] = IF x = k THEN ok ELSE response_events[x]
      BY <1>2 DEF SharedInv, RegisteredInv, TInv, TypeOK
    <3>2. CASE response_events'[x] = c /\ x = k
      BY <3>2, <1>6 DEF Issued, Key
    <3>3. CASE response_events'[x] = response_events[x]
      <4>1. response_events[x] \in Calls \ {c} /\ Issued(response_events[x]) /\ Key(response_events[x]) = x
        <5>1. response_events[x] \in Calls \cup {NoCall}
          BY DEF SharedInv, RegisteredInv, TInv, TypeOK
        <5> QED
          BY <5>1, <2>1, <3>3, <1>0 DEF SharedInv, OwnersInv, Issued
      <4> QED
        BY <3>3, <4>1, <1>5 DEF Issued, Key
    <3> QED
      BY <3>1, <3>2, <3>3 DEF ok
  <2>2. ASSUME NEW x \in Keys, accumulators'[x] # NoCall
        PROVE  Issued(accumulators[x])' /\ Key(accumulators[x])' = x
    <3>1. \/ accumulators'[x] = c /\ x = k
          \/ accumulators'[x] = accumulators[x]
      BY <1>3 DEF SharedInv, RegisteredInv, TInv, TypeOK
    <3>2. CASE accumulators'[x] = c /\ x = k
      BY <3>2, <1>6 DEF Issued, Key
    <3>3. CASE accumulators'[x] = accumulators[x]
      <4>1. accumulators[x] \in Calls \ {c} /\ Issued(accumulators[x]) /\ Key(accumulators[x]) = x
        <5>1. accumulators[x] \in Calls \cup {NoCall}
          BY DEF SharedInv, RegisteredInv, TInv, TypeOK
        <5> QED
          BY <5>1, <2>2, <3>3, <1>0 DEF SharedInv, OwnersInv, Issued
      <4> QED
        BY <3>3, <4>1, <1>5 DEF Issued, Key
    <3> QED
      BY <3>1, <3>2, <3>3
  <2>3. \A x \in Calls : ~Issued(x)' => done'[x] = {} /\ <<"ok", x>> \notin fired'
    BY <1>2, <1>4, <1>5, <1>6 DEF SharedInv, OwnersInv
  <2>4. \A x \in Calls \ ById : id'[x] = 0
    BY <1>0, <1>2, SharedCalls DEF SharedInv, OwnersInv, RegisteredInv, TInv, TypeOK
  <2>5. \A x \in Calls : "ok" \in done'[x] => <<"ok", waits'[x].ok>> \in fired'
    BY <1>0, <1>2, <1>4 DEF SharedInv, OwnersInv
  <2> QED
    BY <2>1, <2>2, <2>3, <2>4, <2>5 DEF OwnersInv
<1>10. LoneInv'
  <2>1. ASSUME NEW x \in Calls, Lone(x)', Unsettled(x)'
        PROVE  Rivals(x)' = {}
    <3>1. CASE x = c
      BY <2>1, <3>1, <1>6, <1>7 DEF Rivals
    <3>2. CASE x # c
      <4>1. Method[x] # Method[c] /\ Rivals(x) = {}
        BY <2>1, <3>2, <1>5, <1>8 DEF SharedInv, LoneInv
      <4> QED
        BY <4>1, <1>7 DEF Rivals
    <3> QED
      BY <3>1, <3>2
  <2> QED
    BY <2>1 DEF LoneInv
<1>11. LoneObjectsInv'
  <2>1. ASSUME NEW x \in Calls, Lone(x)', Method[x] \in Accumulates
        PROVE  /\ Unsettled(x)' => accumulators'[Key(x)'] = x
               /\ accumulators'[Key(x)'] = x =>
                    \A d \in Calls \ {x} : Method[d] = Method[x] => srv'[d] \notin {"open", "live"}
    <3>1. CASE x = c
      <4>1. accumulators'[k] = c
        BY <1>1, <1>3, <2>1, <3>1 DEF SharedInv, RegisteredInv, TInv, TypeOK
      <4>2. \A d \in Calls \ {c} : Method[d] = Method[c] => srv[d] \notin {"open", "live"}
        BY <2>1, <3>1, <1>6, SharedCalls DEF Rivals, Lone
      <4> QED
        BY <3>1, <4>1, <4>2, <1>5, <1>6
    <3>2. CASE x # c /\ Method[x] = Method[c]
      <4>1. Key(x) = k
        BY <2>1, <3>2, <1>0, <1>5, SharedCalls DEF SharedInv, OwnersInv, Key, k, Lone
      <4>2. accumulators'[k] = c
        BY <1>1, <1>3, <2>1, <3>2 DEF SharedInv, RegisteredInv, TInv, TypeOK
      <4> QED
        BY <2>1, <3>2, <4>1, <4>2, <1>5, <1>8
    <3>3. CASE x # c /\ Method[x] # Method[c]
      <4>1. Key(x) # k /\ Key(x) \in Keys /\ Lone(x)
        BY <2>1, <3>3, <1>1, <1>5 DEF Key, k
      <4>2. accumulators'[Key(x)] = accumulators[Key(x)]
        BY <4>1, <1>3 DEF SharedInv, RegisteredInv, TInv, TypeOK
      <4> QED
        BY <2>1, <3>3, <4>1, <4>2, <1>5 DEF SharedInv, LoneObjectsInv
    <3> QED
      BY <3>1, <3>2, <3>3
  <2>2. ASSUME NEW x \in Calls, Lone(x)', Method[x] \in Accumulates
        PROVE  contents'[x][x] = sent'[x] /\ \A s \in Sources \ {x} : contents'[x][s] = 0
    BY <2>2, <1>2, <1>5, <1>6 DEF SharedInv, LoneObjectsInv
  <2> QED
    BY <2>1, <2>2 DEF LoneObjectsInv
<1>12. LoneAnswersInv'
  <2>1. \A x, d : LoneData(x, d)' <=> LoneData(x, d')
    BY <1>2 DEF LoneData
  <2>2. ASSUME NEW x \in Calls, Lone(x)', pc'[x] = "waiting"
        PROVE  waits'[x].ok = x /\ (<<"ok", x>> \in fired' => LoneData(x, response_data[Key(x)])')
    <3>1. CASE x = c
      <4>1. response_events[k] = NoCall
        <5>1. ASSUME NEW d \in Calls, pc[d] = "waiting", Key(d) = k
              PROVE  d \in Rivals(c)
          BY <5>1, <2>2, <3>1, <1>1, SharedCalls DEF Rivals, Key, k, Lone
        <5> QED
          BY <5>1, <1>1, <1>6, <2>2, <3>1 DEF SharedInv, RegisteredInv
      <4>2. <<"ok", c>> \notin fired'
        BY <1>0, <1>4 DEF SharedInv, OwnersInv
      <4> QED
        BY <3>1, <4>1, <4>2, <1>2 DEF ok
    <3>2. CASE x # c
      <4>1. waits[x].ok = x /\ (<<"ok", x>> \in fired => LoneData(x, response_data[Key(x)]))
        BY <2>2, <3>2, <1>5 DEF SharedInv, LoneAnswersInv
      <4>2. LoneData(x, response_data[Key(x)])' <=> LoneData(x, response_data[Key(x)])
        BY <3>2, <1>2, <1>5 DEF LoneData
      <4> QED
        BY <3>2, <4>1, <4>2, <1>2, <1>4
    <3> QED
      BY <3>1, <3>2
  <2>3. ASSUME NEW x \in Calls, Lone(x)', pc'[x] = "returned"
        PROVE  LoneData(x, result[x])'
    <3>1. x # c /\ Lone(x) /\ pc[x] = "returned"
      BY <2>3, <1>5, <1>6
    <3> QED
      BY <3>1, <1>2 DEF SharedInv, LoneAnswersInv, LoneData
  <2>4. managed_accounts_value' = managed_accounts_value
    BY <1>2
  <2> QED
    BY <2>2, <2>3, <2>4 DEF SharedInv, LoneAnswersInv
<1> QED
  BY <1>9, <1>10, <1>11, <1>12

\* A call ends: it returns what is under its key, and cleans up no key that a
\* lone call still waits for.
LEMMA FinishShared ==
  ASSUME SharedInv, TInv', NEW c \in Calls, Ends(c)
  PROVE  OwnersInv' /\ LoneInv' /\ LoneObjectsInv' /\ LoneAnswersInv'
<1>0. PICK outcome \in {"returned", "tws_error", "timed_out"}, d \in Data, cancels \in BOOLEAN :
        /\ pc[c] = "waiting"
        /\ outcome = "returned" /\ c \notin ById => "ok" \in done[c] /\ d = response_data[Key(c)]
        /\ Finish(c, outcome, d) /\ Cleanup(c, cancels)
  BY DEF Ends
<1>1. /\ pc' = [pc EXCEPT ![c] = outcome]
      /\ result' = [result EXCEPT ![c] = d]
      /\ UNCHANGED <<managed_accounts_value, fired, accumulators, contents, id, waits, done,
                     srv, sent, overlapped>>
      /\ response_events' = [response_events EXCEPT ![Key(c)] = NoCall]
      /\ response_data' = [response_data EXCEPT ![Key(c)] = NoData]
  BY <1>0 DEF Finish, Cleanup, client, objects
<1>2. \A x \in Calls : Key(x) \in Keys
  BY KeyType DEF SharedInv, RegisteredInv, TInv, TypeOK, Key
<1>3. \A x \in Calls : /\ Issued(x)' = Issued(x) /\ Key(x)' = Key(x) /\ Lone(x)' = Lone(x)
                       /\ Unsettled(x)' => Unsettled(x)
                       /\ Rivals(x)' \subseteq Rivals(x)
  BY <1>0, <1>1 DEF SharedInv, RegisteredInv, TInv, TypeOK, Issued, Key, Lone, Unsettled, Rivals
<1>4. OwnersInv'
  <2>1. \A x \in Keys : response_events'[x] \in {NoCall, response_events[x]}
    BY <1>1 DEF SharedInv, RegisteredInv, TInv, TypeOK
  <2>2. \A x : Issued(x)' <=> Issued(x) \/ (x = c /\ Issued(c)')
    BY <1>1 DEF SharedInv, RegisteredInv, TInv, TypeOK, Issued
  <2>3. ASSUME NEW x \in Keys, response_events'[x] # NoCall
        PROVE  Issued(response_events[x])' /\ Key(response_events[x])' = x
    <3>1. /\ response_events[x] \in Calls /\ response_events'[x] = response_events[x]
          /\ Issued(response_events[x]) /\ Key(response_events[x]) = x
      BY <2>1, <2>3 DEF SharedInv, OwnersInv, RegisteredInv, TInv, TypeOK
    <3> QED
      BY <3>1, <1>3 DEF Issued, Key
  <2>4. ASSUME NEW x \in Keys, accumulators'[x] # NoCall
        PROVE  Issued(accumulators[x])' /\ Key(accumulators[x])' = x
    <3>1. /\ accumulators[x] \in Calls /\ accumulators'[x] = accumulators[x]
          /\ Issued(accumulators[x]) /\ Key(accumulators[x]) = x
      BY <1>1, <2>4 DEF SharedInv, OwnersInv, RegisteredInv, TInv, TypeOK
    <3> QED
      BY <3>1, <1>3 DEF Issued, Key
  <2> QED
    BY <2>3, <2>4, <1>1, <1>3 DEF SharedInv, OwnersInv
<1>5. LoneInv'
  BY <1>3 DEF SharedInv, LoneInv
<1>6. LoneObjectsInv'
  BY <1>1, <1>3 DEF SharedInv, LoneObjectsInv
<1>7. LoneAnswersInv'
  <2>1. ASSUME NEW x \in Calls, Lone(x)', pc'[x] = "waiting"
        PROVE  waits'[x].ok = x /\ (<<"ok", x>> \in fired' => LoneData(x, response_data[Key(x)])')
    <3>1. x # c /\ pc[x] = "waiting" /\ Lone(x)
      BY <2>1, <1>1, <1>3 DEF SharedInv, RegisteredInv, TInv, TypeOK
    <3>2. Method[x] # Method[c]
      <4>1. Rivals(x) = {}
        BY <3>1 DEF SharedInv, LoneInv, Unsettled
      <4> QED
        BY <3>1, <4>1, <1>0, SharedCalls DEF Rivals, Lone
    <3>3. response_data'[Key(x)] = response_data[Key(x)]
      BY <3>2, <1>1, <1>2 DEF Key, SharedInv, RegisteredInv, TInv, TypeOK
    <3>4. waits[x].ok = x /\ (<<"ok", x>> \in fired => LoneData(x, response_data[Key(x)]))
      BY <3>1 DEF SharedInv, LoneAnswersInv
    <3>5. LoneData(x, response_data[Key(x)])' <=> LoneData(x, response_data[Key(x)])
      BY <3>3, <1>1, <1>3 DEF LoneData
    <3> QED
      BY <3>4, <3>5, <1>1
  <2>2. ASSUME NEW x \in Calls, Lone(x)', pc'[x] = "returned"
        PROVE  LoneData(x, result[x])'
    <3>1. CASE x = c
      <4>1. Lone(c) /\ outcome = "returned" /\ result'[c] = d
        BY <2>2, <3>1, <1>1, <1>3 DEF SharedInv, RegisteredInv, TInv, TypeOK
      <4>2. "ok" \in done[c] /\ d = response_data[Key(c)]
        BY <4>1, <1>0 DEF Lone
      <4>3. <<"ok", c>> \in fired
        BY <4>1, <4>2, <1>0 DEF SharedInv, OwnersInv, LoneAnswersInv
      <4>4. LoneData(c, d)
        BY <4>1, <4>2, <4>3, <1>0 DEF SharedInv, LoneAnswersInv
      <4> QED
        BY <3>1, <4>1, <4>4, <1>1 DEF LoneData
    <3>2. CASE x # c
      <4>1. Lone(x) /\ pc[x] = "returned" /\ result'[x] = result[x]
        BY <2>2, <3>2, <1>1, <1>3 DEF SharedInv, RegisteredInv, TInv, TypeOK
      <4>2. LoneData(x, result[x])
        BY <4>1 DEF SharedInv, LoneAnswersInv
      <4> QED
        BY <4>1, <4>2, <1>1 DEF LoneData
    <3> QED
      BY <3>1, <3>2
  <2>3. managed_accounts_value' = managed_accounts_value
    BY <1>1
  <2> QED
    BY <2>1, <2>2, <2>3 DEF SharedInv, LoneAnswersInv
<1> QED
  BY <1>4, <1>5, <1>6, <1>7

\* A step that leaves keys, events and accumulators where they are, and starts
\* no request, keeps what is known of their owners and of lone calls.
LEMMA QuietShared ==
  ASSUME SharedInv, TInv',
         UNCHANGED <<response_events, accumulators, id, waits, overlapped>>,
         \A x \in Calls : /\ Issued(x) => Issued(x)'
                          /\ pc'[x] = "waiting" => pc[x] = "waiting"
                          /\ srv'[x] \in {"open", "live"} => srv[x] \in {"open", "live"},
         \A x \in Calls : /\ <<"ok", x>> \in fired => <<"ok", x>> \in fired'
                          /\ <<"ok", x>> \in fired' =>
                               <<"ok", x>> \in fired \/ \E k \in Keys : response_events[k] = x,
         \A x \in Calls : \/ done'[x] = done[x]
                          \/ Issued(x) /\ ("ok" \in done'[x] => <<"ok", waits[x].ok>> \in fired')
  PROVE  /\ OwnersInv' /\ LoneInv'
         /\ \A x \in Calls : Key(x)' = Key(x) /\ Lone(x)' = Lone(x)
         /\ \A x \in Calls : Lone(x) /\ Method[x] \in Accumulates =>
              /\ Unsettled(x)' => accumulators'[Key(x)] = x
              /\ accumulators'[Key(x)] = x =>
                   \A d \in Calls \ {x} : Method[d] = Method[x] => srv'[d] \notin {"open", "live"}
<1>1. \A x \in Calls : /\ Key(x)' = Key(x) /\ Lone(x)' = Lone(x)
                       /\ Unsettled(x)' => Unsettled(x)
                       /\ Rivals(x)' \subseteq Rivals(x)
  BY DEF Key, Lone, Unsettled, Rivals
<1>2. LoneInv'
  BY <1>1 DEF SharedInv, LoneInv
<1>3. OwnersInv'
  <2>1. ASSUME NEW x \in Keys, response_events'[x] # NoCall
        PROVE  Issued(response_events[x])' /\ Key(response_events[x])' = x
    <3>1. response_events[x] \in Calls /\ Issued(response_events[x]) /\ Key(response_events[x]) = x
      BY <2>1 DEF SharedInv, OwnersInv, RegisteredInv, TInv, TypeOK
    <3> QED
      BY <3>1, <1>1 DEF Issued, Key
  <2>2. ASSUME NEW x \in Keys, accumulators'[x] # NoCall
        PROVE  Issued(accumulators[x])' /\ Key(accumulators[x])' = x
    <3>1. accumulators[x] \in Calls /\ Issued(accumulators[x]) /\ Key(accumulators[x]) = x
      BY <2>2 DEF SharedInv, OwnersInv, RegisteredInv, TInv, TypeOK
    <3> QED
      BY <3>1, <1>1 DEF Issued, Key
  <2>3. ASSUME NEW x \in Calls, ~Issued(x)'
        PROVE  done'[x] = {} /\ <<"ok", x>> \notin fired'
    <3>1. \A k \in Keys : response_events[k] # x
      BY <2>3, CallsAssumption DEF SharedInv, OwnersInv
    <3> QED
      BY <2>3, <3>1 DEF SharedInv, OwnersInv
  <2>4. ASSUME NEW x \in Calls, "ok" \in done'[x]
        PROVE  <<"ok", waits'[x].ok>> \in fired'
    <3>1. CASE done'[x] = done[x]
      <4>1. <<"ok", waits[x].ok>> \in fired
        BY <2>4, <3>1 DEF SharedInv, OwnersInv
      <4>2. waits[x].ok \in Calls
        BY <4>1 DEF SharedInv, RegisteredInv, TInv, TypeOK
      <4> QED
        BY <4>1, <4>2
    <3> QED
      BY <2>4, <3>1
  <2> QED
    BY <2>1, <2>2, <2>3, <2>4 DEF SharedInv, OwnersInv
<1>4. ASSUME NEW x \in Calls, Lone(x), Method[x] \in Accumulates
      PROVE  /\ Unsettled(x)' => accumulators'[Key(x)] = x
             /\ accumulators'[Key(x)] = x =>
                  \A d \in Calls \ {x} : Method[d] = Method[x] => srv'[d] \notin {"open", "live"}
  BY <1>1, <1>4 DEF SharedInv, LoneObjectsInv
<1> QED
  BY <1>1, <1>2, <1>3, <1>4

\* A callback stores its data and sets the event of its key: only the call that
\* waits under that key is answered.
LEMMA AnswerShared ==
  ASSUME SharedInv, TInv', NEW k \in Keys, NEW d, SetEvent(k, d),
         UNCHANGED <<pc, id, waits, result, overlapped>>,
         managed_accounts_value' = managed_accounts_value \/ managed_accounts_value'.kind = "val",
         \A x \in Calls : contents'[x][x] >= contents[x][x],
         \A x \in Calls : Lone(x) /\ pc[x] = "waiting" /\ Key(x) = k => LoneData(x, d)'
  PROVE  LoneAnswersInv'
<1>1. \A x \in Calls : Key(x) \in Keys /\ Key(x)' = Key(x) /\ Lone(x)' = Lone(x)
  BY KeyType DEF Key, Lone, SharedInv, RegisteredInv, TInv, TypeOK
<1>2. \A x \in Keys : response_data'[x] = IF x = k THEN d ELSE response_data[x]
  BY DEF SetEvent, SharedInv, RegisteredInv, TInv, TypeOK
<1>3. ASSUME NEW x \in Calls, Lone(x)', pc'[x] = "waiting"
      PROVE  waits'[x].ok = x /\ (<<"ok", x>> \in fired' => LoneData(x, response_data[Key(x)])')
  <2>0. waits[x].ok = x /\ (<<"ok", x>> \in fired => LoneData(x, response_data[Key(x)]))
    BY <1>1, <1>3 DEF SharedInv, LoneAnswersInv
  <2>1. CASE Key(x) = k
    <3>1. LoneData(x, d)' /\ response_data'[Key(x)'] = d
      BY <1>1, <1>2, <1>3, <2>1
    <3> QED
      BY <2>0, <3>1 DEF LoneData
  <2>2. CASE Key(x) # k
    <3>1. response_events[k] # x
      BY <2>2, CallsAssumption DEF SharedInv, OwnersInv
    <3>2. <<"ok", x>> \in fired' => <<"ok", x>> \in fired
      BY <3>1 DEF SetEvent, Fire
    <3>3. response_data'[Key(x)'] = response_data[Key(x)]
      BY <1>1, <1>2, <2>2
    <3>4. ASSUME LoneData(x, response_data[Key(x)])
          PROVE  LoneData(x, response_data[Key(x)])'
      <4> DEFINE r == response_data[Key(x)]
      <4> HIDE DEF r
      <4>1. LoneData(x, r)
        BY <3>4 DEF r
      <4>2. r' = r
        BY <3>3 DEF r
      <4>3. LoneData(x, r)'
        BY <4>1, <4>2, LoneDataKept DEF SharedInv, RegisteredInv, LoneData, TInv
      <4> QED
        BY <4>3 DEF r
    <3> QED
      BY <2>0, <3>2, <3>4
  <2> QED
    BY <2>1, <2>2
<1>4. ASSUME NEW x \in Calls, Lone(x)', pc'[x] = "returned"
      PROVE  LoneData(x, result[x])'
  <2> DEFINE r == result[x]
  <2> HIDE DEF r
  <2>1. LoneData(x, r) /\ r' = r
    BY <1>1, <1>4 DEF SharedInv, LoneAnswersInv, r
  <2>2. LoneData(x, r)'
    BY <2>1, LoneDataKept DEF SharedInv, RegisteredInv, LoneData, TInv
  <2> QED
    BY <2>2 DEF r
<1> QED
  BY <1>3, <1>4 DEF SharedInv, LoneAnswersInv

\* A step that stores no data and sets no success event answers no lone call;
\* a call that returns in it returns the cached accounts.
LEMMA SilentShared ==
  ASSUME SharedInv, TInv', UNCHANGED <<id, waits, overlapped, response_data>>,
         managed_accounts_value' = managed_accounts_value,
         \A x \in Calls : <<"ok", x>> \in fired' => <<"ok", x>> \in fired,
         \A x \in Calls : contents'[x][x] >= contents[x][x],
         \A x \in Calls :
           /\ pc'[x] = "waiting" => pc[x] = "waiting"
           /\ pc'[x] = "returned" =>
                \/ pc[x] = "returned" /\ result'[x] = result[x]
                \/ Method[x] = "managed_accounts" /\ result'[x].kind = "val"
  PROVE  LoneAnswersInv'
<1>1. \A x \in Calls : Key(x)' = Key(x) /\ Lone(x)' = Lone(x)
  BY DEF Key, Lone
<1>2. ASSUME NEW x \in Calls, Lone(x)', pc'[x] = "waiting"
      PROVE  waits'[x].ok = x /\ (<<"ok", x>> \in fired' => LoneData(x, response_data[Key(x)])')
  <2> DEFINE r == response_data[Key(x)]
  <2>1. r' = r
    BY <1>1
  <2>2. waits[x].ok = x /\ (<<"ok", x>> \in fired => LoneData(x, r))
    BY <1>1, <1>2 DEF SharedInv, LoneAnswersInv
  <2>3. PICK data : data = r
    OBVIOUS
  <2> HIDE DEF r
  <2>4. TInv /\ contents'[x][x] >= contents[x][x]
    BY DEF SharedInv, RegisteredInv
  <2>5. LoneData(x, data) => LoneData(x, data)'
    BY <2>4, LoneDataKept
  <2>6. LoneData(x, r) => LoneData(x, r)'
    BY <2>1, <2>3, <2>5 DEF LoneData
  <2> QED
    BY <2>2, <2>6 DEF r
<1>3. ASSUME NEW x \in Calls, Lone(x)', pc'[x] = "returned"
      PROVE  LoneData(x, result[x])'
  <2>1. CASE pc[x] = "returned" /\ result'[x] = result[x]
    <3> DEFINE r == result[x]
    <3>1. LoneData(x, r) /\ r' = r
      BY <1>1, <1>3, <2>1 DEF SharedInv, LoneAnswersInv
    <3> HIDE DEF r
    <3>2. LoneData(x, r)'
      BY <3>1, LoneDataKept DEF SharedInv, RegisteredInv, LoneData, TInv
    <3> QED
      BY <3>2 DEF r
  <2>2. CASE Method[x] = "managed_accounts" /\ result'[x].kind = "val"
    BY <2>2 DEF LoneData
  <2> QED
    BY <1>3, <2>1, <2>2
<1> QED
  BY <1>2, <1>3 DEF SharedInv, LoneAnswersInv

\* Callbacks of TWS.
LEMMA CallbackShared ==
  ASSUME SharedInv, TInv', NEW c \in Calls, Callback(c)
  PROVE  OwnersInv' /\ LoneInv' /\ LoneObjectsInv' /\ LoneAnswersInv'
<1> USE DEF client, tables, objects, tasks, tws
<1>0. /\ TypeOK /\ TypeOK' /\ Key(c) \in Keys /\ response_events[Key(c)] \in Calls \cup {NoCall}
  BY KeyType DEF SharedInv, RegisteredInv, TInv, TypeOK, Key
<1>1. /\ UNCHANGED <<pc, response_events, accumulators, id, waits, done, result, overlapped>>
      /\ srv[c] \in {"open", "live"}
      /\ \A x \in Calls \ {c} : srv'[x] = srv[x] /\ sent'[x] = sent[x]
      /\ managed_accounts_value' = managed_accounts_value \/ managed_accounts_value'.kind = "val"
  <2>1. \A x \in Calls \ {c} : srv'[x] = srv[x] /\ sent'[x] = sent[x]
    BY <1>0 DEF Callback, ItemCallback, EndCallback, LastTicksCallback, PayloadCallback,
                ErrorCallback, MoreItems, AddItem, TypeOK
  <2> QED
    BY <2>1 DEF Callback, ItemCallback, EndCallback, LastTicksCallback, PayloadCallback,
                ErrorCallback, SetEvent, MoreItems, Val
<1>2. \A x \in Calls : /\ <<"ok", x>> \in fired => <<"ok", x>> \in fired'
                       /\ <<"ok", x>> \in fired' =>
                            <<"ok", x>> \in fired \/ \E k \in Keys : response_events[k] = x
  BY <1>0 DEF Callback, ItemCallback, EndCallback, LastTicksCallback, PayloadCallback,
              ErrorCallback, SetEvent, SetError, Fire
<1>3. \A x \in Calls : /\ Issued(x)' <=> Issued(x)
                       /\ pc'[x] = "waiting" => pc[x] = "waiting"
                       /\ srv'[x] \in {"open", "live"} => srv[x] \in {"open", "live"}
  BY <1>1 DEF Issued
<1>4. /\ OwnersInv' /\ LoneInv'
      /\ \A x \in Calls : Key(x)' = Key(x) /\ Lone(x)' = Lone(x)
      /\ \A x \in Calls : Lone(x) /\ Method[x] \in Accumulates =>
           /\ Unsettled(x)' => accumulators'[Key(x)] = x
           /\ accumulators'[Key(x)] = x =>
                \A d \in Calls \ {x} : Method[d] = Method[x] => srv'[d] \notin {"open", "live"}
  BY <1>1, <1>2, <1>3, QuietShared
\* The only call of its kind that TWS may answer is c.
<1>5. ASSUME NEW x \in Calls, Lone(x), pc[x] = "waiting", Key(x) = Key(c)
      PROVE  x = c
  BY <1>1, <1>5, SharedCalls DEF SharedInv, LoneInv, Rivals, Unsettled, Key, Lone
<1> DEFINE o == accumulators[Key(c)]
<1>6. CASE ItemCallback(c) \/ LastTicksCallback(c)
  <2>1. /\ contents' = [contents EXCEPT ![o][c] = @ + 1]
        /\ sent' = [sent EXCEPT ![c] = @ + 1]
        /\ Method[c] \in Accumulates
    BY <1>6 DEF ItemCallback, LastTicksCallback, AddItem, Accumulates, EndsWithItem
  <2>2. o \in Calls
    <3>1. Issued(c) /\ srv[c] # "none"
      BY <1>1 DEF SharedInv, RegisteredInv, TInv
    <3> QED
      BY <2>1, <3>1 DEF SharedInv, RegisteredInv, TInv
  <2> HIDE DEF o
  <2>3. /\ \A x \in Calls \ {o} : contents'[x] = contents[x]
        /\ contents'[o][c] = contents[o][c] + 1
        /\ \A s \in Sources \ {c} : contents'[o][s] = contents[o][s]
        /\ contents[o][c] \in Nat
        /\ sent'[c] = sent[c] + 1
    BY <1>0, <2>1, <2>2 DEF TypeOK, Sources
  <2>4. \A x \in Calls : contents'[x][x] >= contents[x][x]
    <3>1. \A x \in Calls : contents[x][x] \in Nat
      BY <1>0 DEF TypeOK, Sources
    <3> QED
      BY <2>2, <2>3, <3>1 DEF Sources
  \* A lone object is filled by its own call only.
  <2>5. ASSUME NEW x \in Calls, Lone(x), Method[x] \in Accumulates
        PROVE  x = o <=> x = c
    <3>1. ASSUME x = o, x # c
          PROVE  FALSE
      <4>1. Key(o) = Key(c)
        BY <1>0, <2>2, CallsAssumption DEF SharedInv, OwnersInv, o
      <4>2. accumulators[Key(x)] = x /\ Method[x] = Method[c]
        BY <3>1, <4>1 DEF o, Key
      <4> QED
        BY <1>1, <2>5, <3>1, <4>2 DEF SharedInv, LoneObjectsInv
    <3>2. ASSUME x = c
          PROVE  x = o
      BY <1>1, <2>5, <3>2 DEF SharedInv, LoneObjectsInv, Unsettled, o
    <3> QED
      BY <3>1, <3>2
  <2>6. LoneObjectsInv'
    <3>1. ASSUME NEW x \in Calls, Lone(x), Method[x] \in Accumulates
          PROVE  contents'[x][x] = sent'[x] /\ \A s \in Sources \ {x} : contents'[x][s] = 0
      <4>1. contents[x][x] = sent[x] /\ \A s \in Sources \ {x} : contents[x][s] = 0
        BY <3>1 DEF SharedInv, LoneObjectsInv
      <4>2. CASE x = c
        BY <2>3, <2>5, <3>1, <4>1, <4>2
      <4>3. CASE x # c
        BY <1>1, <2>3, <2>5, <3>1, <4>1, <4>3
      <4> QED
        BY <4>2, <4>3
    <3> QED
      BY <1>4, <3>1 DEF LoneObjectsInv
  <2>7. LoneAnswersInv'
    <3>1. CASE ItemCallback(c)
      BY <1>1, <2>4, <3>1, SilentShared DEF ItemCallback
    <3>2. CASE LastTicksCallback(c)
      <4>1. SetEvent(Key(c), Ref(o)) /\ Method[c] \in ByReqId
        BY <3>2 DEF LastTicksCallback, EndsWithItem, ByReqId, o
      <4>2. \A x \in Calls : ~(Lone(x) /\ pc[x] = "waiting" /\ Key(x) = Key(c))
        BY <1>5, <4>1 DEF Lone, ById
      <4> HIDE DEF Callback
      <4> QED
        BY <1>0, <1>1, <2>4, <4>1, <4>2, AnswerShared
    <3> QED
      BY <1>6, <3>1, <3>2
  <2> QED
    BY <1>4, <2>6, <2>7
<1>7. CASE EndCallback(c) \/ PayloadCallback(c) \/ \E code \in {"info", "fatal"} : ErrorCallback(c, code)
  <2>1. /\ UNCHANGED contents
        /\ \A x \in Calls : Method[x] \in Accumulates => sent'[x] = sent[x]
    BY <1>1, <1>7 DEF EndCallback, PayloadCallback, ErrorCallback
  <2>2. LoneObjectsInv'
    BY <1>4, <2>1 DEF SharedInv, LoneObjectsInv
  <2>3. \A x \in Calls : contents'[x][x] >= contents[x][x]
    BY <1>0, <2>1 DEF TypeOK, Sources
  <2>4. LoneAnswersInv'
    <3>1. CASE EndCallback(c)
      <4>0. PICK d : d = Accumulated(c)
        OBVIOUS
      <4>1. SetEvent(Key(c), d)
        BY <3>1, <4>0 DEF EndCallback
      <4>2. ASSUME Lone(c)
            PROVE  LoneData(c, d)'
        <5>1. o = c /\ contents[c][c] = Items[c] /\ \A s \in Sources \ {c} : contents[c][s] = 0
          BY <1>1, <3>1, <4>2 DEF SharedInv, LoneObjectsInv, Unsettled, EndCallback
        <5>2. Method[c] \notin ByReqId /\ Method[c] # "managed_accounts" /\ Method[c] \in Accumulates
          BY <3>1, <4>2, SharedCalls DEF Lone, EndCallback, Accumulates
        <5>3. d = IF Method[c] = "completed_orders" THEN Val(contents[c]) ELSE Ref(c)
          BY <4>0, <5>1, <5>2 DEF Accumulated
        <5>4. Items[c] \in Nat
          BY ItemsAssumption
        <5> QED
          BY <2>1, <5>1, <5>2, <5>3, <5>4 DEF LoneData, Val
      <4> QED
        BY <1>0, <1>1, <1>5, <2>3, <4>1, <4>2, AnswerShared
    <3>2. CASE PayloadCallback(c)
      <4>1. SetEvent(Key(c), Val(One(c))) /\ Method[c] \notin Accumulates
        BY <3>2 DEF PayloadCallback
      <4>2. LoneData(c, Val(One(c)))'
        BY <4>1 DEF LoneData, Val
      <4> QED
        BY <1>0, <1>1, <1>5, <2>3, <4>1, <4>2, AnswerShared
    <3>3. CASE \E code \in {"info", "fatal"} : ErrorCallback(c, code)
      <4>1. /\ \A x \in Calls : <<"ok", x>> \in fired' => <<"ok", x>> \in fired
            /\ UNCHANGED <<response_data, managed_accounts_value>>
        BY <3>3 DEF ErrorCallback, SetError, Fire
      <4> QED
        BY <1>1, <2>3, <4>1, SilentShared
    <3> QED
      BY <1>7, <3>1, <3>2, <3>3
  <2> QED
    BY <1>4, <2>2, <2>4
<1> QED
  BY <1>6, <1>7 DEF Callback

\* Steps that answer and end no waiting call, and PushManagedAccounts, which
\* answers those that wait for the accounts.
LEMMA OtherShared ==
  ASSUME SharedInv, TInv', Other \/ UNCHANGED vars
  PROVE  OwnersInv' /\ LoneInv' /\ LoneObjectsInv' /\ LoneAnswersInv'
<1> USE DEF client, tables, objects, tasks, tws
<1>0. TypeOK /\ TypeOK' /\ \A x \in Calls : contents[x][x] \in Nat
  <2>1. TypeOK /\ TypeOK'
    BY DEF SharedInv, RegisteredInv, TInv
  <2>2. contents \in [Calls -> [Sources -> Nat]]
    BY <2>1 DEF TypeOK
  <2> QED
    BY <2>1, <2>2 DEF Sources
<1>1. UNCHANGED <<response_events, accumulators, contents, id, waits, overlapped, sent>>
  BY DEF Other, CallEarly, GaveUpOnId, CallCached, ServerCancels, WaiterDone, NextValidId,
         PushManagedAccounts, Drop, Reconnect, SetEvent, vars
<1>2. \A x \in Calls : /\ pc'[x] = "waiting" => pc[x] = "waiting"
                       /\ pc'[x] = "returned" =>
                            \/ pc[x] = "returned" /\ result'[x] = result[x]
                            \/ Method[x] = "managed_accounts" /\ result'[x].kind = "val"
                       /\ Issued(x) => Issued(x)'
  <2>1. ASSUME NEW c \in Calls, CallCached(c), NEW x \in Calls
        PROVE  /\ pc'[x] = IF x = c THEN "returned" ELSE pc[x]
               /\ result'[x] = IF x = c THEN managed_accounts_value ELSE result[x]
               /\ Method[c] = "managed_accounts" /\ managed_accounts_value.kind = "val"
    BY <2>1, <1>0 DEF CallCached, SharedInv, LoneAnswersInv, TypeOK
  <2>2. ASSUME NEW c \in Calls, CallEarly(c) \/ GaveUpOnId(c), NEW x \in Calls
        PROVE  /\ x # c => pc'[x] = pc[x]
               /\ pc[c] \in {"idle", "need_id"} /\ pc'[c] \in {"need_id", "no_id"}
               /\ result' = result
    BY <2>2, <1>0 DEF CallEarly, GaveUpOnId, TypeOK
  <2>3. CASE UNCHANGED <<pc, result>>
    BY <2>3 DEF Issued
  <2>4. CASE \E c \in Calls : CallCached(c)
    BY <2>1, <2>4 DEF Issued
  <2>5. CASE \E c \in Calls : CallEarly(c) \/ GaveUpOnId(c)
    BY <2>2, <2>5 DEF Issued
  <2> QED
    BY <2>3, <2>4, <2>5 DEF Other, ServerCancels, WaiterDone, NextValidId,
                            PushManagedAccounts, Drop, Reconnect, vars
<1>3. \A x \in Calls : srv'[x] \in {"open", "live"} => srv[x] \in {"open", "live"}
  <2>1. ASSUME NEW c \in Calls, ServerCancels(c), NEW x \in Calls
        PROVE  srv'[x] \in {srv[x], "ended"}
    BY <2>1, <1>0 DEF ServerCancels, TypeOK
  <2>2. ASSUME Reconnect, NEW x \in Calls
        PROVE  srv'[x] \in {srv[x], "gone"}
    BY <2>2 DEF Reconnect
  <2>3. CASE srv' = srv
    BY <2>3
  <2>4. CASE \E c \in Calls : ServerCancels(c)
    BY <2>1, <2>4
  <2>5. CASE Reconnect
    BY <2>2, <2>5
  <2> QED
    BY <2>3, <2>4, <2>5 DEF Other, CallEarly, GaveUpOnId, CallCached, WaiterDone, NextValidId,
                            PushManagedAccounts, Drop, vars
<1>4. \A x \in Calls : \/ done'[x] = done[x]
                       \/ Issued(x) /\ ("ok" \in done'[x] => <<"ok", waits[x].ok>> \in fired')
  <2>1. ASSUME NEW c \in Calls, NEW kind \in {"ok", "err"}, WaiterDone(c, kind), NEW x \in Calls
        PROVE  <1>4!(x)
    <3>1. CASE x # c
      BY <2>1, <3>1, <1>0 DEF WaiterDone, TypeOK
    <3>2. CASE x = c /\ kind = "ok"
      BY <2>1, <3>2 DEF WaiterDone, Issued
    <3>3. CASE x = c /\ kind = "err"
      <4>1. "ok" \in done'[c] => "ok" \in done[c]
        BY <2>1, <3>3, <1>0 DEF WaiterDone, TypeOK
      <4>2. "ok" \in done[c] => <<"ok", waits[c].ok>> \in fired
        BY DEF SharedInv, OwnersInv
      <4>3. Issued(c) /\ fired' = fired
        BY <2>1 DEF WaiterDone, Issued
      <4> QED
        BY <3>3, <4>1, <4>2, <4>3
    <3> QED
      BY <3>1, <3>2, <3>3
  <2>2. CASE \E c \in Calls : \E kind \in {"ok", "err"} : WaiterDone(c, kind)
    BY <2>1, <2>2
  <2>3. CASE done' = done
    BY <2>3
  <2> QED
    BY <2>2, <2>3 DEF Other, CallEarly, GaveUpOnId, CallCached, ServerCancels, NextValidId,
                      PushManagedAccounts, Drop, Reconnect, vars
<1>5. \/ UNCHANGED <<fired, response_data, managed_accounts_value>>
      \/ PushManagedAccounts
  BY DEF Other, CallEarly, GaveUpOnId, CallCached, ServerCancels, WaiterDone, NextValidId,
         Drop, Reconnect, vars
<1>6. \A x \in Calls : /\ <<"ok", x>> \in fired => <<"ok", x>> \in fired'
                       /\ <<"ok", x>> \in fired' =>
                            <<"ok", x>> \in fired \/ \E k \in Keys : response_events[k] = x
  <2>1. <<"managed_accounts", 0>> \in Keys
    BY BoundsAssumption DEF Keys, Ids
  <2> QED
    BY <1>5, <2>1 DEF PushManagedAccounts, SetEvent, Fire
<1>7. /\ OwnersInv' /\ LoneInv'
      /\ \A x \in Calls : Key(x)' = Key(x) /\ Lone(x)' = Lone(x)
      /\ \A x \in Calls : Lone(x) /\ Method[x] \in Accumulates =>
           /\ Unsettled(x)' => accumulators'[Key(x)] = x
           /\ accumulators'[Key(x)] = x =>
                \A d \in Calls \ {x} : Method[d] = Method[x] => srv'[d] \notin {"open", "live"}
  BY <1>1, <1>2, <1>3, <1>4, <1>6, QuietShared
<1>8. LoneObjectsInv'
  BY <1>1, <1>7 DEF SharedInv, LoneObjectsInv
<1>9. \A x \in Calls : contents'[x][x] >= contents[x][x]
  BY <1>0, <1>1
<1>10. LoneAnswersInv'
  <2>1. CASE UNCHANGED <<fired, response_data, managed_accounts_value>>
    BY <1>1, <1>2, <1>9, <2>1, SilentShared
  <2>2. CASE PushManagedAccounts
    <3> DEFINE k == <<"managed_accounts", 0>>
               d == Val(One(Push))
    <3>1. SetEvent(k, d) /\ UNCHANGED <<pc, result>> /\ managed_accounts_value'.kind = "val"
      BY <2>2 DEF PushManagedAccounts, Val
    <3>2. k \in Keys
      BY BoundsAssumption DEF Keys, Ids
    <3>3. \A x \in Calls : Key(x) = k => LoneData(x, d)'
      BY DEF Key, LoneData, Val
    <3> HIDE DEF k, d
    <3> QED
      BY <1>1, <1>9, <3>1, <3>2, <3>3, AnswerShared
  <2> QED
    BY <1>5, <2>1, <2>2
<1> QED
  BY <1>7, <1>8, <1>10

LEMMA SharedInvariance == Spec => []SharedInv
<1>1. Init => SharedInv
  <2>1. ASSUME Init
        PROVE  OwnersInv /\ LoneInv /\ LoneObjectsInv /\ LoneAnswersInv
    <3>1. /\ \A c \in Calls : /\ pc[c] = "idle" /\ srv[c] = "none" /\ id[c] = 0 /\ done[c] = {}
                              /\ sent[c] = 0 /\ \A s \in Sources : contents[c][s] = 0
          /\ fired = {} /\ managed_accounts_value = NoData
          /\ \A k \in Keys : response_events[k] = NoCall /\ accumulators[k] = NoCall
          /\ \A c \in Calls : Key(c) \in Keys
      BY <2>1, KeyType, BoundsAssumption DEF Init, Zero, Key, Ids
    <3>2. Calls \subseteq Sources
      BY DEF Sources
    <3>3. \A c \in Calls : ~Unsettled(c) /\ ~Issued(c)
      BY <3>1 DEF Unsettled, Issued
    <3> QED
      BY <3>1, <3>2, <3>3, CallsAssumption DEF OwnersInv, LoneInv, LoneObjectsInv, LoneAnswersInv
  <2>2. Init => RegisteredInv
    BY InitTInv DEF Init, RegisteredInv
  <2> QED
    BY <2>1, <2>2 DEF SharedInv
<1>2. SharedInv /\ [Next]_vars => SharedInv'
  <2> SUFFICES ASSUME SharedInv, [Next]_vars
               PROVE  SharedInv'
    OBVIOUS
  <2>1. RegisteredInv'
    BY StepRegistered DEF SharedInv
  <2>2. TInv'
    BY <2>1 DEF RegisteredInv
  <2>3. OwnersInv' /\ LoneInv' /\ LoneObjectsInv' /\ LoneAnswersInv'
    <3>1. CASE Next
      BY <2>2, <3>1, Steps, IssueShared, FinishShared, CallbackShared, OtherShared DEF SharedInv
    <3>2. CASE UNCHANGED vars
      BY <2>2, <3>2, OtherShared
    <3> QED
      BY <3>1, <3>2
  <2> QED
    BY <2>1, <2>3 DEF SharedInv
<1> QED
  BY <1>1, <1>2, PTL DEF Spec

\* A get_* method without a request id returns its own whole answer, provided it
\* met no other call of its kind; get_managed_accounts may be given what the
\* handshake announced.
THEOREM SharedAnswersAreOwn == Spec => []SharedAnswerIsOwn
<1>1. SharedInv => SharedAnswerIsOwn
  <2> SUFFICES ASSUME SharedInv, NEW c \in Calls \ ById, pc[c] = "returned", c \notin overlapped
               PROVE  \/ OnlyOf(c, result[c]) /\ Value(result[c])[c] >= AnswerSize(c)
                      \/ Method[c] = "managed_accounts" /\ result[c].kind = "val"
    BY DEF SharedAnswerIsOwn
  <2>1. LoneData(c, result[c]) /\ Lone(c)
    BY DEF SharedInv, LoneAnswersInv, Lone
  <2>2. CASE Method[c] = "completed_orders"
    <3>1. /\ result[c].kind = "val" /\ result[c].bag[c] >= Items[c]
          /\ \A s \in Sources \ {c} : result[c].bag[s] = 0
      BY <2>1, <2>2 DEF LoneData, Accumulates
    <3> QED
      BY <2>2, <3>1 DEF OnlyOf, Value, AnswerSize, Accumulates, NoData
  <2>3. CASE Method[c] \in Accumulates \ {"completed_orders"}
    <3>1. result[c] = Ref(c) /\ contents[c][c] >= Items[c]
      BY <2>1, <2>3 DEF LoneData, Accumulates
    <3>2. \A s \in Sources \ {c} : contents[c][s] = 0
      BY <2>1, <2>3 DEF SharedInv, LoneObjectsInv
    <3> QED
      BY <2>3, <3>1, <3>2 DEF OnlyOf, Value, AnswerSize, NoData, Ref
  <2>4. CASE Method[c] \notin Accumulates \cup {"managed_accounts"}
    <3>1. result[c] = Val(One(c))
      BY <2>1, <2>4 DEF LoneData, Accumulates
    <3>2. One(c)[c] = 1 /\ \A s \in Sources \ {c} : One(c)[s] = 0
      BY DEF One, Zero, Sources
    <3> QED
      BY <2>4, <3>1, <3>2 DEF OnlyOf, Value, AnswerSize, NoData, Val
  <2>5. CASE Method[c] = "managed_accounts"
    BY <2>1, <2>5 DEF LoneData, Accumulates
  <2> QED
    BY <2>2, <2>3, <2>4, <2>5
<1> QED
  BY <1>1, SharedInvariance, PTL
=============================================================================
