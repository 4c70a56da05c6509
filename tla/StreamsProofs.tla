---------------------------- MODULE StreamsProofs ----------------------------
(***************************************************************************)
(* Proofs about Streams, for any number of streams, of items and of rows:  *)
(* what is left when a stream ends, and that queues, end marks and         *)
(* exceptions implement StreamContract.                                    *)
(***************************************************************************)
EXTENDS Streams, SequenceTheorems, TLAPS

(***************************************************************************)
(* The rows of a book                                                      *)
(***************************************************************************)

\* A row inserted below the others, where there is room, moves none of them.
LEMMA WithRows ==
  ASSUME NEW rows \in Seq(Nat), NEW p \in 0..Len(rows), NEW n \in Nat
  PROVE  /\ With(rows, p, n) \in Seq(Nat)
         /\ p = Len(rows) /\ p < Depth =>
              /\ Len(With(rows, p, n)) = Len(rows) + 1
              /\ \A i \in 1..Len(rows) : With(rows, p, n)[i] = rows[i]
              /\ With(rows, p, n)[Len(rows) + 1] = n
<1> DEFINE above == SubSeq(rows, 1, p)
           below == SubSeq(rows, p + 1, Len(rows))
           all == above \o <<n>> \o below
           m == IF Len(rows) < Depth THEN Len(rows) + 1 ELSE Depth
<1>0. Len(rows) \in Nat /\ Depth \in Nat /\ p \in Nat /\ \A i \in 1..Len(rows) : rows[i] \in Nat
  BY BoundsAssumption, LenProperties, ElementOfSeq
<1>1. /\ above \in Seq(Nat) /\ Len(above) = p /\ \A i \in 1..p : above[i] = rows[i]
  BY <1>0, SubSeqProperties
<1>2. below \in Seq(Nat) /\ Len(below) = Len(rows) - p
  BY <1>0, SubSeqProperties
<1>3. <<n>> \in Seq(Nat) /\ Len(<<n>>) = 1 /\ <<n>>[1] = n
  OBVIOUS
<1> HIDE DEF above, below
<1>4. /\ above \o <<n>> \in Seq(Nat) /\ Len(above \o <<n>>) = p + 1
      /\ \A i \in 1..p : (above \o <<n>>)[i] = rows[i]
      /\ (above \o <<n>>)[p + 1] = n
  <2>1. /\ above \o <<n>> \in Seq(Nat) /\ Len(above \o <<n>>) = Len(above) + Len(<<n>>)
        /\ \A i \in 1..Len(above) + Len(<<n>>) :
             (above \o <<n>>)[i] = IF i <= Len(above) THEN above[i] ELSE <<n>>[i - Len(above)]
    BY <1>1, <1>3, ConcatProperties, Zenon
  <2> DEFINE longer == above \o <<n>>
  <2> HIDE DEF longer
  <2>2. /\ longer \in Seq(Nat) /\ Len(longer) = p + 1
        /\ \A i \in 1..p + 1 : longer[i] = IF i <= p THEN above[i] ELSE <<n>>[i - p]
    BY <1>0, <1>1, <1>3, <2>1 DEF longer
  <2>3. \A i \in 1..p : longer[i] = rows[i]
    BY <1>0, <1>1, <2>2
  <2>4. longer[p + 1] = <<n>>[p + 1 - p] /\ p + 1 - p = 1
    BY <1>0, <2>2
  <2> QED
    BY <1>3, <2>2, <2>3, <2>4 DEF longer
<1>5. /\ all \in Seq(Nat) /\ Len(all) = Len(rows) + 1
      /\ \A i \in 1..p + 1 : all[i] = (above \o <<n>>)[i]
  BY <1>0, <1>2, <1>4, ConcatProperties
<1>6. m \in Nat /\ m =< Len(all) /\ With(rows, p, n) = SubSeq(all, 1, m)
  <2>1. With(rows, p, n) = SubSeq(all, 1, m)
    BY Zenon DEF With, above, below
  <2> QED
    BY <1>0, <1>5, <2>1
<1> HIDE DEF all, m
<1>7. \A i \in 1..m : all[i] \in Nat
  BY <1>5, <1>6, ElementOfSeq
<1>8. /\ With(rows, p, n) \in Seq(Nat) /\ Len(With(rows, p, n)) = m
      /\ \A i \in 1..m : With(rows, p, n)[i] = all[i]
  BY <1>6, <1>7, SubSeqProperties
<1>9. ASSUME p = Len(rows), p < Depth
      PROVE  /\ Len(With(rows, p, n)) = Len(rows) + 1
             /\ \A i \in 1..Len(rows) : With(rows, p, n)[i] = rows[i]
             /\ With(rows, p, n)[Len(rows) + 1] = n
  <2>1. m = p + 1
    BY <1>9 DEF m
  <2>2. \A i \in 1..p + 1 : With(rows, p, n)[i] = (above \o <<n>>)[i]
    BY <1>5, <1>8, <2>1
  <2>3. \A i \in 1..p : i \in 1..p + 1
    BY <1>0
  <2>4. p + 1 \in 1..p + 1
    BY <1>0
  <2> QED
    BY <1>4, <1>8, <1>9, <2>1, <2>2, <2>3, <2>4
<1> QED
  BY <1>8, <1>9

\* The last of these facts, for a row known to be inserted at the end.
LEMMA RowAtTheEnd ==
  ASSUME NEW rows \in Seq(Nat), NEW p \in 0..Len(rows), NEW n \in Nat, p = Len(rows), p < Depth
  PROVE  /\ Len(With(rows, p, n)) = Len(rows) + 1
         /\ \A i \in 1..Len(rows) : With(rows, p, n)[i] = rows[i]
         /\ With(rows, p, n)[Len(rows) + 1] = n
BY WithRows

\* Nor does the last row when it is deleted.
LEMMA WithoutRow ==
  ASSUME NEW rows \in Seq(Nat), NEW p \in 0..Len(rows) - 1
  PROVE  /\ Without(rows, p) \in Seq(Nat)
         /\ p + 1 = Len(rows) =>
              /\ Len(Without(rows, p)) = p
              /\ \A i \in 1..p : Without(rows, p)[i] = rows[i]
<1> DEFINE above == SubSeq(rows, 1, p)
           below == SubSeq(rows, p + 2, Len(rows))
<1>0. Len(rows) \in Nat /\ p \in Nat /\ \A i \in 1..Len(rows) : rows[i] \in Nat
  BY LenProperties, ElementOfSeq
<1>1. /\ above \in Seq(Nat) /\ Len(above) = p /\ \A i \in 1..p : above[i] = rows[i]
  BY <1>0, SubSeqProperties
<1>2. below \in Seq(Nat) /\ (p + 1 = Len(rows) => Len(below) = 0)
  BY <1>0, SubSeqProperties
<1>3. Without(rows, p) = above \o below
  BY DEF Without
<1> HIDE DEF above, below
<1>4. /\ above \o below \in Seq(Nat) /\ Len(above \o below) = p + Len(below)
      /\ \A i \in 1..p + Len(below) :
           (above \o below)[i] = IF i <= p THEN above[i] ELSE below[i - p]
  BY <1>1, <1>2, ConcatProperties
<1>5. ASSUME p + 1 = Len(rows)
      PROVE  Len(Without(rows, p)) = p /\ \A i \in 1..p : Without(rows, p)[i] = rows[i]
  <2>1. Len(below) = 0 /\ p + Len(below) = p
    BY <1>0, <1>2, <1>5
  <2>2. \A i \in 1..p : i <= p
    BY <1>0
  <2> QED
    BY <1>1, <1>3, <1>4, <2>1, <2>2
<1> QED
  BY <1>3, <1>4, <1>5

\* A row that is updated, and a row of a book.
LEMMA TwsRows ==
  ASSUME TypeOK, NEW s \in Streams, NEW p \in Rows, NEW n \in Nat,
         NEW operation \in {"insert", "update", "delete"}, TwsChanges(s, p, operation, n)
  PROVE  /\ \A t \in Streams \ {s} : levels'[t] = levels[t]
         /\ levels'[s] \in Seq(Nat)
         /\ levels' = [levels EXCEPT ![s] = levels'[s]]
         /\ operation = "insert" => p =< Len(levels[s]) /\ levels'[s] = With(levels[s], p, n)
         /\ operation = "update" =>
              /\ p < Len(levels[s]) /\ Len(levels'[s]) = Len(levels[s])
              /\ \A i \in 1..Len(levels[s]) : levels'[s][i] = IF i = p + 1 THEN n ELSE levels[s][i]
         /\ operation = "delete" => p < Len(levels[s]) /\ levels'[s] = Without(levels[s], p)
<1>0. levels \in [Streams -> Seq(Nat)] /\ levels[s] \in Seq(Nat)
  BY DEF TypeOK
<1>1. Len(levels[s]) \in Nat /\ p \in Nat
  BY <1>0, BoundsAssumption DEF Rows
<1>2. CASE operation = "insert"
  <2>1. p =< Len(levels[s]) /\ levels' = [levels EXCEPT ![s] = With(levels[s], p, n)]
    BY <1>2 DEF TwsChanges
  <2>2. With(levels[s], p, n) \in Seq(Nat)
    BY <1>0, <1>1, <2>1, WithRows
  <2> QED
    BY <1>0, <1>2, <2>1, <2>2
<1>3. CASE operation = "update"
  <2>1. p < Len(levels[s]) /\ levels' = [levels EXCEPT ![s] = [levels[s] EXCEPT ![p + 1] = n]]
    BY <1>3 DEF TwsChanges
  <2> DEFINE rows == [levels[s] EXCEPT ![p + 1] = n]
  <2>2. /\ rows \in Seq(Nat) /\ Len(rows) = Len(levels[s])
        /\ \A i \in 1..Len(levels[s]) : rows[i] = IF i = p + 1 THEN n ELSE levels[s][i]
    <3>1. p + 1 \in 1..Len(levels[s])
      BY <1>1, <2>1
    <3> QED
      BY <1>0, <3>1, ExceptSeq
  <2>3. levels' = [levels EXCEPT ![s] = rows]
    BY <2>1
  <2> HIDE DEF rows
  <2> QED
    BY <1>0, <1>3, <2>1, <2>2, <2>3
<1>4. CASE operation = "delete"
  <2>1. p < Len(levels[s]) /\ levels' = [levels EXCEPT ![s] = Without(levels[s], p)]
    BY <1>4 DEF TwsChanges
  <2>2. Without(levels[s], p) \in Seq(Nat)
    BY <1>0, <1>1, <2>1, WithoutRow
  <2> QED
    BY <1>0, <1>4, <2>1, <2>2
<1> QED
  BY <1>2, <1>3, <1>4

(***************************************************************************)
(* Types                                                                   *)
(***************************************************************************)

Marks == [mark : {"item", "end", "error"}, n : Nat]

LEMMA PutTyped ==
  ASSUME TypeOK, NEW s \in Streams, NEW x \in Marks, Put(s, x)
  PROVE  queue' \in [Streams -> Seq(Marks)]
<1>1. queue \in [Streams -> Seq(Marks)]
  BY DEF TypeOK, Marks
<1>2. Append(queue[s], x) \in Seq(Marks)
  BY <1>1
<1> QED
  BY <1>1, <1>2 DEF Put

LEMMA SendsTyped ==
  ASSUME TypeOK, NEW s \in Streams, Sends(s)
  PROVE  /\ sent' \in [Streams -> Nat] /\ sent[s] + 1 \in Nat
         /\ Item(sent[s] + 1) \in Marks
         /\ sent' = [sent EXCEPT ![s] = @ + 1]
         /\ UNCHANGED <<connected, kind, pc, registered, received, cancelled, srv, verdict>>
BY DEF TypeOK, Sends, Item, Marks

LEMMA FinishTypeOK ==
  ASSUME TypeOK, NEW s \in Streams, NEW outcome \in Finished, NEW cancels, Finish(s, outcome, cancels)
  PROVE  TypeOK'
<1>1. /\ pc' \in [Streams -> {"idle"} \cup Active \cup Finished]
      /\ cancelled' \subseteq Streams /\ registered' \subseteq Streams
      /\ historical_data' \in [Streams -> Nat]
  BY DEF Finish, TypeOK
<1>2. queue' \in [Streams -> Seq([mark : {"item", "end", "error"}, n : Nat])]
  BY DEF Finish, TypeOK
<1> QED
  BY <1>1, <1>2 DEF Finish, TypeOK, tws, books

\* Steps of a generator.
LEMMA GeneratorTypeOK ==
  ASSUME TypeOK, NEW s \in Streams,
         Open(s) \/ OpenRefused(s) \/ Advance(s) \/ TaskCancelled(s)
  PROVE  TypeOK'
<1> USE DEF tws, books
<1>1. CASE Open(s) \/ OpenRefused(s) \/ Pull(s) \/ Break(s)
  BY <1>1 DEF Open, OpenRefused, Pull, Break, TypeOK, Active, Finished
<1>2. CASE TakeItem(s)
  <2>1. queue[s] \in Seq(Marks) /\ queue[s] # <<>> /\ received[s] \in Seq(Nat)
    BY <1>2 DEF TakeItem, Gets, TypeOK, Marks
  <2>2. Head(queue[s]) \in Marks /\ Tail(queue[s]) \in Seq(Marks)
    BY <2>1, HeadTailProperties
  <2>3. Append(received[s], Head(queue[s]).n) \in Seq(Nat)
    BY <2>1, <2>2 DEF Marks
  <2>4. queue' \in [Streams -> Seq(Marks)] /\ received' \in [Streams -> Seq(Nat)]
    BY <1>2, <2>2, <2>3 DEF TakeItem, TypeOK, Marks
  <2>5. pc' \in [Streams -> {"idle"} \cup Active \cup Finished]
    BY <1>2 DEF TakeItem, TypeOK, Active
  <2> QED
    BY <1>2, <2>4, <2>5 DEF TakeItem, TypeOK, Marks
<1>3. CASE TakeEnd(s) \/ TakeError(s) \/ Timeout(s) \/ SettleOver(s) \/ Close(s) \/ TaskCancelled(s)
  BY <1>3, FinishTypeOK DEF TakeEnd, TakeError, Timeout, SettleOver, Close, TaskCancelled, Finished
<1> QED
  BY <1>1, <1>2, <1>3 DEF Advance

\* Callbacks.
LEMMA CallbackTypeOK ==
  ASSUME TypeOK, NEW s \in Streams,
         \/ LiveCallback(s) \/ HistoricalData(s) \/ HistoricalDataEnd(s) \/ UpdateMktDepth(s)
         \/ \E code \in {"info", "fatal"} : ErrorCallback(s, code)
  PROVE  TypeOK'
<1> USE DEF books
<1>1. CASE LiveCallback(s) \/ HistoricalData(s)
  <2>1. Sends(s) /\ Put(s, Item(sent[s] + 1)) /\ UNCHANGED books
    BY <1>1 DEF LiveCallback, HistoricalData
  <2>2. queue' \in [Streams -> Seq(Marks)]
    BY <2>1, SendsTyped, PutTyped
  <2>3. historical_data' \in [Streams -> Nat]
    <3>1. historical_data \in [Streams -> Nat]
      BY DEF TypeOK
    <3> QED
      BY <1>1, <3>1 DEF LiveCallback, HistoricalData
  <2> QED
    BY <2>1, <2>2, <2>3, SendsTyped DEF TypeOK, Marks
<1>2. CASE HistoricalDataEnd(s)
  <2>1. HistoricalEnd \in Marks
    BY DEF HistoricalEnd, Marks
  <2>2. queue' \in [Streams -> Seq(Marks)]
    BY <1>2, <2>1, PutTyped DEF HistoricalDataEnd
  <2> QED
    BY <1>2, <2>2 DEF HistoricalDataEnd, TypeOK, Marks
<1>3. CASE UpdateMktDepth(s)
  <2>1. Sends(s) /\ Put(s, Item(sent[s] + 1)) /\ shifted' \subseteq shifted \cup {s}
        /\ UNCHANGED historical_data
    BY <1>3 DEF UpdateMktDepth
  <2>2. queue' \in [Streams -> Seq(Marks)] /\ sent[s] + 1 \in Nat
    BY <2>1, SendsTyped, PutTyped
  <2> PICK n : n = sent[s] + 1
    OBVIOUS
  <2>3. PICK p \in Rows, operation \in {"insert", "update", "delete"} :
          TwsChanges(s, p, operation, n) /\ BookChanges(s, p, operation, n)
    BY <1>3 DEF UpdateMktDepth
  <2>4. levels' \in [Streams -> Seq(Nat)]
    <3>1. levels' = [levels EXCEPT ![s] = levels'[s]] /\ levels'[s] \in Seq(Nat)
      <4>1. /\ n \in Nat /\ TwsChanges(s, p, operation, n)
            /\ p \in Rows /\ operation \in {"insert", "update", "delete"}
        BY <2>2, <2>3
      <4> QED
        BY <4>1, TwsRows
    <3>2. levels \in [Streams -> Seq(Nat)]
      BY DEF TypeOK
    <3> QED
      BY <3>1, <3>2
  <2>5. market_depth' \in [Streams -> [Rows -> Nat]]
    BY <2>2, <2>3 DEF BookChanges, TypeOK
  <2> QED
    BY <2>1, <2>2, <2>4, <2>5, SendsTyped DEF TypeOK, Marks
<1>4. ASSUME NEW code \in {"info", "fatal"}, ErrorCallback(s, code)
      PROVE  TypeOK'
  <2>1. Error \in Marks
    BY DEF Error, Marks
  <2>2. queue' \in [Streams -> Seq(Marks)]
    BY <1>4, <2>1, PutTyped DEF ErrorCallback, TypeOK, Marks
  <2> QED
    BY <1>4, <2>2 DEF ErrorCallback, TypeOK, Marks
<1> QED
  BY <1>1, <1>2, <1>3, <1>4

LEMMA InitTypeOK == Init => TypeOK
BY EmptySeq DEF Init, TypeOK

LEMMA StepTypeOK == TypeOK /\ [Next]_vars => TypeOK'
<1> USE DEF consumer, tws, books
<1>1. ASSUME TypeOK, NEW s \in Streams, ServerCancels(s)
      PROVE  TypeOK'
  BY <1>1 DEF ServerCancels, TypeOK
<1>2. ASSUME TypeOK, Drop \/ UNCHANGED vars
      PROVE  TypeOK'
  BY <1>2 DEF Drop, vars, TypeOK
<1> QED
  BY <1>1, <1>2, GeneratorTypeOK, CallbackTypeOK DEF Next

\* Types, for any number of streams, items and rows.
THEOREM TypeCorrect == Spec => []TypeOK
BY InitTypeOK, StepTypeOK, PTL DEF Spec

(***************************************************************************)
(* Queues                                                                  *)
(***************************************************************************)

\* Items the consumer has not been given.
Pending(s) == sent[s] - Len(received[s])

\* The queue of a stream holds the items not received yet, in order, then the
\* verdict.  An error that follows the end of a history is behind it.
QueueOK(s) ==
  s \in registered =>
    /\ Pending(s) \in 0..Len(queue[s])
    /\ \A i \in 1..Pending(s) : queue[s][i] = Item(Len(received[s]) + i)
    /\ verdict[s] = "none" => Len(queue[s]) = Pending(s)
    /\ verdict[s] # "none" => /\ Pending(s) < Len(queue[s])
                              /\ queue[s][Pending(s) + 1] = [mark |-> verdict[s], n |-> 0]
    /\ srv[s] = "failed" => \E i \in 1..Len(queue[s]) : queue[s][i] = Error

\* Where a generator is, what TWS knows of its request, and what is left of it.
StateOK(s) ==
  /\ s \in registered <=> pc[s] \in Active
  /\ s \notin registered => queue[s] = <<>>
  /\ pc[s] = "idle" => srv[s] = "none"
  /\ srv[s] = "none" => /\ pc[s] \in {"idle", "raised"}
                        /\ sent[s] = 0 /\ verdict[s] = "none" /\ received[s] = <<>>
  /\ verdict[s] = "error" => srv[s] = "failed"
  /\ srv[s] = "failed" => verdict[s] # "none"
  /\ pc[s] = "settling" => received[s] # <<>>
  /\ pc[s] \in {"settling", "returned"} => kind[s] = "depth"
  /\ pc[s] = "ended" => verdict[s] # "none"
  /\ pc[s] = "raised" => srv[s] \in {"none", "failed"}
  /\ pc[s] \in Finished /\ srv[s] = "open" => s \in cancelled \/ ~connected
  /\ historical_data[s] > 0 => pc[s] \in {"closed", "timed_out"} /\ kind[s] = "history"

SInv == TypeOK /\ (\A s \in Streams : StateOK(s) /\ QueueOK(s)) /\ BookIsExactUnlessShifted

\* A step of one stream leaves the others as they are.
Same(s) ==
  /\ pc'[s] = pc[s] /\ (s \in registered' <=> s \in registered) /\ queue'[s] = queue[s]
  /\ received'[s] = received[s] /\ (s \in cancelled' <=> s \in cancelled)
  /\ srv'[s] = srv[s] /\ sent'[s] = sent[s] /\ verdict'[s] = verdict[s]
  /\ historical_data'[s] = historical_data[s] /\ kind'[s] = kind[s]

SameBook(s) ==
  /\ market_depth'[s] = market_depth[s] /\ levels'[s] = levels[s]
  /\ s \in shifted' <=> s \in shifted

LEMMA SameOK ==
  ASSUME NEW s \in Streams, StateOK(s), QueueOK(s), Same(s), connected' => connected
  PROVE  StateOK(s)' /\ QueueOK(s)'
BY DEF StateOK, QueueOK, Same, Pending

LEMMA SameBookOK ==
  ASSUME BookIsExactUnlessShifted, \A s \in Streams : SameBook(s)
  PROVE  BookIsExactUnlessShifted'
BY DEF BookIsExactUnlessShifted, SameBook

\* An item, a mark or nothing is appended.
LEMMA PutAppends ==
  ASSUME TypeOK, NEW s \in Streams, NEW x \in Marks, Put(s, x)
  PROVE  /\ \A t \in Streams \ {s} : queue'[t] = queue[t]
         /\ s \notin registered => queue'[s] = queue[s]
         /\ s \in registered => /\ Len(queue'[s]) = Len(queue[s]) + 1
                                /\ \A i \in 1..Len(queue[s]) : queue'[s][i] = queue[s][i]
                                /\ queue'[s][Len(queue[s]) + 1] = x
<1>1. queue \in [Streams -> Seq(Marks)] /\ queue[s] \in Seq(Marks)
  BY DEF TypeOK, Marks
<1> DEFINE q == queue[s]
<1>2. /\ Len(Append(q, x)) = Len(q) + 1
      /\ \A i \in 1..Len(q) : Append(q, x)[i] = q[i]
      /\ Append(q, x)[Len(q) + 1] = x
  BY <1>1
<1>3. queue' = IF s \in registered THEN [queue EXCEPT ![s] = Append(q, x)] ELSE queue
  BY DEF Put
<1> HIDE DEF q
<1>4. s \in registered => queue'[s] = Append(q, x)
  BY <1>1, <1>3
<1>5. /\ \A t \in Streams \ {s} : queue'[t] = queue[t]
      /\ s \notin registered => queue'[s] = queue[s]
  BY <1>1, <1>3
<1> QED
  BY <1>2, <1>4, <1>5 DEF q

\* TWS sends an item: it is the next one in the queue.
LEMMA SendsOK ==
  ASSUME TypeOK, NEW s \in Streams, StateOK(s), QueueOK(s), Sends(s), Put(s, Item(sent[s] + 1)),
         \/ historical_data' = historical_data
         \/ s \notin registered /\ kind[s] = "history"
  PROVE  StateOK(s)' /\ QueueOK(s)'
<1>0. /\ sent[s] \in Nat /\ sent[s] + 1 \in Nat /\ Item(sent[s] + 1) \in Marks
      /\ sent'[s] = sent[s] + 1 /\ \A t \in Streams \ {s} : sent'[t] = sent[t]
      /\ UNCHANGED <<connected, kind, pc, registered, received, cancelled, srv, verdict>>
      /\ connected /\ srv[s] = "open" /\ verdict[s] = "none"
      /\ queue[s] \in Seq(Marks) /\ received[s] \in Seq(Nat)
  BY SendsTyped DEF TypeOK, Sends, Marks
<1>1. /\ s \notin registered => queue'[s] = queue[s]
      /\ s \in registered => /\ Len(queue'[s]) = Len(queue[s]) + 1
                             /\ \A i \in 1..Len(queue[s]) : queue'[s][i] = queue[s][i]
                             /\ queue'[s][Len(queue[s]) + 1] = Item(sent[s] + 1)
  <2> PICK x : x = Item(sent[s] + 1)
    OBVIOUS
  <2>1. x \in Marks /\ Put(s, x)
    BY <1>0
  <2> QED
    BY <2>1, PutAppends
<1>2. StateOK(s)'
  <2>1. CASE historical_data' = historical_data
    BY <1>0, <1>1, <2>1 DEF StateOK
  <2>2. CASE s \notin registered /\ kind[s] = "history"
    <3>1. pc[s] \in {"closed", "timed_out"}
      BY <1>0, <2>2 DEF StateOK, TypeOK, Finished
    <3> QED
      BY <1>0, <1>1, <2>2, <3>1 DEF StateOK
  <2> QED
    BY <2>1, <2>2
<1>3. QueueOK(s)'
  <2> SUFFICES ASSUME s \in registered
               PROVE  /\ Pending(s)' \in 0..Len(queue'[s])
                      /\ \A i \in 1..Pending(s)' : queue'[s][i] = Item(Len(received[s]) + i)
                      /\ Len(queue'[s]) = Pending(s)'
    BY <1>0 DEF QueueOK
  <2>1. /\ Len(received[s]) \in Nat /\ Len(queue[s]) \in Nat
        /\ Pending(s)' = Pending(s) + 1
    BY <1>0 DEF Pending
  <2>2. /\ Len(queue[s]) = Pending(s)
        /\ \A i \in 1..Pending(s) : queue[s][i] = Item(Len(received[s]) + i)
    BY <1>0 DEF QueueOK
  <2>3. Len(received[s]) + Len(queue[s]) + 1 = sent[s] + 1
    BY <1>0, <2>1, <2>2 DEF Pending
  <2>4. ASSUME NEW i \in 1..Pending(s) + 1
        PROVE  queue'[s][i] = Item(Len(received[s]) + i)
    <3>1. CASE i = Pending(s) + 1
      <4>1. queue'[s][i] = Item(sent[s] + 1)
        BY <1>1, <2>2, <3>1
      <4>2. Len(received[s]) + i = sent[s] + 1
        BY <2>1, <2>2, <2>3, <3>1
      <4> QED
        BY <4>1, <4>2
    <3>2. CASE i # Pending(s) + 1
      <4>1. i \in 1..Len(queue[s])
        BY <2>1, <2>2, <3>2
      <4> QED
        BY <1>1, <2>2, <4>1
    <3> QED
      BY <3>1, <3>2
  <2>5. Len(queue'[s]) = Pending(s) + 1 /\ Pending(s) + 1 \in 0..Len(queue'[s])
    BY <1>1, <2>1, <2>2
  <2> QED
    BY <2>1, <2>4, <2>5
<1> QED
  BY <1>2, <1>3

\* TWS closes a stream: the verdict is behind the items.
LEMMA ClosesOK ==
  ASSUME TypeOK, NEW s \in Streams, StateOK(s), QueueOK(s), NEW v \in {"end", "error"},
         Put(s, [mark |-> v, n |-> 0]),
         srv[s] = "open", connected,
         verdict'[s] = IF verdict[s] = "none" THEN v ELSE verdict[s],
         IF v = "error" THEN srv'[s] = "failed" ELSE srv'[s] \in {"open", "over"},
         UNCHANGED <<connected, kind, pc, registered, received, cancelled, sent, historical_data>>
  PROVE  StateOK(s)' /\ QueueOK(s)'
<1> DEFINE x == [mark |-> v, n |-> 0]
<1>0. /\ x \in Marks /\ queue[s] \in Seq(Marks) /\ received[s] \in Seq(Nat) /\ sent[s] \in Nat
      /\ verdict[s] \in {"none", "end", "error"}
  BY DEF TypeOK, Marks
<1>1. /\ s \notin registered => queue'[s] = queue[s]
      /\ s \in registered => /\ Len(queue'[s]) = Len(queue[s]) + 1
                             /\ \A i \in 1..Len(queue[s]) : queue'[s][i] = queue[s][i]
                             /\ queue'[s][Len(queue[s]) + 1] = x
  BY <1>0, PutAppends
<1>2. StateOK(s)'
  BY <1>0, <1>1 DEF StateOK
<1>3. QueueOK(s)'
  <2> SUFFICES ASSUME s \in registered
               PROVE  QueueOK(s)'
    BY DEF QueueOK
  <2>1. /\ Len(received[s]) \in Nat /\ Len(queue[s]) \in Nat /\ Pending(s)' = Pending(s)
        /\ Pending(s) \in 0..Len(queue[s])
        /\ \A i \in 1..Pending(s) : queue[s][i] = Item(Len(received[s]) + i)
    BY <1>0 DEF Pending, QueueOK
  <2>2. /\ Pending(s) < Len(queue'[s])
        /\ queue'[s][Pending(s) + 1] = [mark |-> verdict'[s], n |-> 0]
    <3>1. CASE verdict[s] = "none"
      BY <1>1, <2>1, <3>1 DEF QueueOK
    <3>2. CASE verdict[s] # "none"
      <4>1. /\ Pending(s) < Len(queue[s])
            /\ queue[s][Pending(s) + 1] = [mark |-> verdict[s], n |-> 0]
        BY <3>2 DEF QueueOK
      <4>2. Pending(s) + 1 \in 1..Len(queue[s]) /\ Pending(s) < Len(queue[s]) + 1
        BY <2>1, <4>1
      <4> QED
        BY <1>1, <2>1, <3>2, <4>1, <4>2
    <3> QED
      BY <3>1, <3>2
  <2>3. srv'[s] = "failed" => queue'[s][Len(queue[s]) + 1] = Error /\ Len(queue[s]) + 1 \in 1..Len(queue'[s])
    BY <1>1, <2>1 DEF Error
  <2>4. ASSUME NEW i \in 1..Pending(s)
        PROVE  queue'[s][i] = Item(Len(received[s]) + i)
    <3>1. i \in 1..Len(queue[s])
      BY <2>1
    <3> QED
      BY <1>1, <2>1, <3>1
  <2>5. verdict'[s] # "none" /\ Pending(s) \in 0..Len(queue'[s])
    BY <1>0, <1>1, <2>1
  <2> QED
    BY <2>1, <2>2, <2>3, <2>4, <2>5 DEF QueueOK
<1> QED
  BY <1>2, <1>3

\* The next item is taken.
LEMMA TakeItemOK ==
  ASSUME TypeOK, NEW s \in Streams, StateOK(s), QueueOK(s), TakeItem(s)
  PROVE  /\ StateOK(s)' /\ QueueOK(s)'
         /\ Len(received[s]) < sent[s] /\ Head(queue[s]).n = Len(received[s]) + 1
<1>0. /\ queue[s] \in Seq(Marks) /\ queue[s] # <<>> /\ received[s] \in Seq(Nat) /\ sent[s] \in Nat
      /\ verdict[s] \in {"none", "end", "error"} /\ queue[s][1].mark = "item"
      /\ s \in registered /\ srv[s] # "none"
  BY DEF TakeItem, Gets, TypeOK, Marks, StateOK, Active
<1>1. /\ Len(queue[s]) \in Nat \ {0} /\ Len(received[s]) \in Nat
      /\ Pending(s) \in 0..Len(queue[s])
  BY <1>0 DEF QueueOK
<1>2. Pending(s) > 0 /\ queue[s][1] = Item(Len(received[s]) + 1)
  <2>1. ASSUME Pending(s) = 0
        PROVE  FALSE
    <3>1. queue[s][1] = [mark |-> verdict[s], n |-> 0] /\ verdict[s] # "none"
      BY <1>0, <1>1, <2>1 DEF QueueOK
    <3> QED
      BY <1>0, <3>1
  <2> QED
    BY <1>0, <1>1, <2>1 DEF QueueOK
<1>3. /\ queue'[s] = Tail(queue[s])
      /\ received'[s] = Append(received[s], Head(queue[s]).n)
      /\ UNCHANGED <<connected, kind, registered, cancelled, srv, sent, verdict, historical_data>>
      /\ pc'[s] = IF kind[s] = "depth" THEN "settling" ELSE "yielded"
  BY DEF TakeItem, TypeOK, tws
<1>4. /\ Len(queue'[s]) = Len(queue[s]) - 1
      /\ \A i \in 1..Len(queue'[s]) : queue'[s][i] = queue[s][i + 1]
      /\ Len(received'[s]) = Len(received[s]) + 1
      /\ received'[s] # <<>>
  BY <1>0, <1>1, <1>3, HeadTailProperties
<1>5. Head(queue[s]).n = Len(received[s]) + 1
  BY <1>0, <1>2 DEF Item
<1>6. StateOK(s)'
  <2>1. historical_data[s] > 0 => FALSE
    BY <1>0 DEF StateOK, Active
  <2> QED
    BY <1>0, <1>3, <1>4, <2>1 DEF StateOK, Active, Finished
<1>7. QueueOK(s)'
  <2>1. Pending(s)' = Pending(s) - 1
    BY <1>0, <1>1, <1>3, <1>4 DEF Pending
  <2>2. \A i \in 1..Pending(s)' : queue'[s][i] = Item(Len(received'[s]) + i)
    <3>1. ASSUME NEW i \in 1..Pending(s)'
          PROVE  queue'[s][i] = Item(Len(received'[s]) + i)
      <4>1. i + 1 \in 1..Pending(s) /\ i \in 1..Len(queue'[s])
        BY <1>1, <1>4, <2>1, <3>1
      <4>2. queue[s][i + 1] = Item(Len(received[s]) + (i + 1))
        BY <1>0, <4>1 DEF QueueOK
      <4>3. Len(received[s]) + (i + 1) = (Len(received[s]) + 1) + i
        <5>1. i \in Int /\ Len(received[s]) \in Int
          BY <1>1, <3>1
        <5>2. \A a, b \in Int : a + (b + 1) = (a + 1) + b
          OBVIOUS
        <5> QED
          BY <5>1, <5>2
      <4> QED
        BY <1>4, <4>1, <4>2, <4>3
    <3> QED
      BY <3>1
  <2>3. /\ Pending(s)' \in 0..Len(queue'[s])
        /\ verdict[s] = "none" => Len(queue'[s]) = Pending(s)'
    BY <1>0, <1>1, <1>2, <1>4, <2>1 DEF QueueOK
  <2>4. verdict[s] # "none" =>
          Pending(s)' < Len(queue'[s]) /\ queue'[s][Pending(s)' + 1] = [mark |-> verdict[s], n |-> 0]
    <3> SUFFICES ASSUME verdict[s] # "none"
                 PROVE  Pending(s)' < Len(queue'[s])
                        /\ queue'[s][Pending(s)' + 1] = [mark |-> verdict[s], n |-> 0]
      OBVIOUS
    <3>1. Pending(s) < Len(queue[s]) /\ queue[s][Pending(s) + 1] = [mark |-> verdict[s], n |-> 0]
      BY <1>0 DEF QueueOK
    <3>2. Pending(s) \in 1..Len(queue'[s]) /\ Pending(s)' + 1 = Pending(s)
      BY <1>1, <1>2, <1>4, <2>1, <3>1
    <3>3. queue'[s][Pending(s)] = queue[s][Pending(s) + 1]
      BY <1>4, <3>2
    <3>4. Pending(s)' < Len(queue'[s])
      BY <1>1, <1>4, <2>1, <3>1
    <3> QED
      BY <3>1, <3>2, <3>3, <3>4
  <2>5. srv[s] = "failed" => \E i \in 1..Len(queue'[s]) : queue'[s][i] = Error
    <3> SUFFICES ASSUME srv[s] = "failed"
                 PROVE  \E i \in 1..Len(queue'[s]) : queue'[s][i] = Error
      OBVIOUS
    <3>1. PICK i \in 1..Len(queue[s]) : queue[s][i] = Error
      BY <1>0 DEF QueueOK
    <3>2. i # 1
      BY <1>0, <3>1 DEF Error
    <3>3. i - 1 \in 1..Len(queue'[s]) /\ (i - 1) + 1 = i
      BY <1>1, <1>4, <3>1, <3>2
    <3> QED
      BY <1>4, <3>1, <3>3
  <2> QED
    BY <1>3, <2>2, <2>3, <2>4, <2>5 DEF QueueOK
<1> QED
  BY <1>0, <1>1, <1>2, <1>5, <1>6, <1>7 DEF Pending

\* A mark is taken: the consumer has every item, and the mark is the verdict.
LEMMA TakesVerdict ==
  ASSUME TypeOK, NEW s \in Streams, StateOK(s), QueueOK(s), NEW v \in {"end", "error"}, Gets(s, v)
  PROVE  verdict[s] = v /\ Len(received[s]) = sent[s] /\ srv[s] # "none"
<1>0. /\ queue[s] \in Seq(Marks) /\ queue[s] # <<>> /\ received[s] \in Seq(Nat) /\ sent[s] \in Nat
      /\ verdict[s] \in {"none", "end", "error"} /\ queue[s][1].mark = v
      /\ s \in registered /\ srv[s] # "none"
  BY DEF Gets, TypeOK, Marks, StateOK, Active
<1>1. /\ Len(queue[s]) \in Nat \ {0} /\ Len(received[s]) \in Nat
      /\ Pending(s) \in 0..Len(queue[s])
  BY <1>0 DEF QueueOK
<1>2. Pending(s) = 0
  <2>1. Pending(s) > 0 => queue[s][1] = Item(Len(received[s]) + 1)
    BY <1>0, <1>1 DEF QueueOK
  <2> QED
    BY <1>0, <1>1, <2>1 DEF Item
<1>3. verdict[s] # "none" /\ queue[s][1] = [mark |-> verdict[s], n |-> 0]
  BY <1>0, <1>1, <1>2 DEF QueueOK
<1> QED
  BY <1>0, <1>1, <1>2, <1>3 DEF Pending

(***************************************************************************)
(* Steps                                                                   *)
(***************************************************************************)

\* The finally clause leaves neither a queue nor a request.
LEMMA FinishOK ==
  ASSUME TypeOK, NEW s \in Streams, StateOK(s), NEW outcome \in Finished, NEW cancels \in BOOLEAN,
         Finish(s, outcome, cancels), s \in registered,
         cancels \/ srv[s] # "open",
         outcome = "returned" => kind[s] = "depth",
         outcome = "ended" => verdict[s] # "none",
         outcome = "raised" => srv[s] = "failed"
  PROVE  StateOK(s)' /\ QueueOK(s)'
<1>1. /\ pc'[s] = outcome /\ s \notin registered' /\ queue'[s] = <<>> /\ historical_data'[s] = 0
      /\ cancelled' = IF cancels /\ connected THEN cancelled \cup {s} ELSE cancelled
      /\ UNCHANGED <<connected, kind, received, srv, sent, verdict>>
  BY DEF Finish, TypeOK, tws
<1>2. outcome \notin Active \cup {"idle"} /\ srv[s] # "none"
  BY DEF Finished, Active, StateOK
<1>3. outcome # "settling"
  BY DEF Finished
<1> QED
  BY <1>1, <1>2, <1>3 DEF StateOK, QueueOK

\* A generator that runs its finally clause: how it ends, and whether it cancels.
FinishesAs(s, outcome, cancels) ==
  \/ TakeEnd(s) /\ outcome = "ended" /\ cancels = TRUE
  \/ TakeError(s) /\ outcome = "raised" /\ cancels = FALSE
  \/ Timeout(s) /\ outcome = "timed_out" /\ cancels = TRUE
  \/ SettleOver(s) /\ outcome = "returned" /\ cancels = TRUE
  \/ (Close(s) \/ TaskCancelled(s)) /\ outcome = "closed" /\ cancels = TRUE

LEMMA FinishesOK ==
  ASSUME TypeOK, NEW s \in Streams, StateOK(s), QueueOK(s), NEW outcome, NEW cancels,
         FinishesAs(s, outcome, cancels)
  PROVE  /\ outcome \in Finished /\ cancels \in BOOLEAN /\ Finish(s, outcome, cancels)
         /\ s \in registered /\ StateOK(s)' /\ QueueOK(s)'
<1>1. outcome \in Finished /\ cancels \in BOOLEAN /\ Finish(s, outcome, cancels)
  BY DEF FinishesAs, TakeEnd, TakeError, Timeout, SettleOver, Close, TaskCancelled, Finished
<1>2. s \in registered
  BY DEF FinishesAs, TakeEnd, TakeError, Gets, Timeout, SettleOver, Close, TaskCancelled,
         StateOK, Active
<1>3. outcome = "returned" => kind[s] = "depth"
  BY DEF FinishesAs, SettleOver, StateOK
<1>4. /\ outcome = "ended" => verdict[s] # "none"
      /\ outcome = "raised" => srv[s] = "failed"
  BY TakesVerdict DEF FinishesAs, TakeEnd, TakeError, StateOK
<1>5. cancels \/ srv[s] # "open"
  BY <1>4 DEF FinishesAs
<1> QED
  BY <1>1, <1>2, <1>3, <1>4, <1>5, FinishOK

LEMMA GeneratorOK ==
  ASSUME TypeOK, NEW s \in Streams, StateOK(s), QueueOK(s),
         Open(s) \/ OpenRefused(s) \/ Advance(s) \/ TaskCancelled(s)
  PROVE  /\ StateOK(s)' /\ QueueOK(s)' /\ connected' = connected
         /\ \A t \in Streams \ {s} : Same(t)
         /\ \A t \in Streams : SameBook(t)
<1> USE DEF tws, books
<1>1. CASE Open(s)
  <2>1. /\ pc'[s] = "pulling" /\ s \in registered' /\ srv'[s] = "open" /\ pc[s] = "idle"
        /\ \A t \in Streams \ {s} : Same(t)
        /\ \A t \in Streams : SameBook(t)
        /\ UNCHANGED <<connected, kind, queue, received, cancelled, sent, verdict, historical_data>>
    BY <1>1 DEF Open, TypeOK, Same, SameBook
  <2>2. /\ queue[s] = <<>> /\ received[s] = <<>> /\ sent[s] = 0 /\ verdict[s] = "none"
        /\ historical_data[s] \in Nat /\ ~(historical_data[s] > 0)
    BY <2>1 DEF StateOK, Active, TypeOK
  <2>3. Pending(s)' = 0
    <3>1. Len(received'[s]) = 0 /\ sent'[s] = 0
      BY <2>1, <2>2, EmptySeq
    <3> QED
      BY <3>1 DEF Pending
  <2>4. StateOK(s)'
    BY <2>1, <2>2 DEF StateOK, Active, Finished
  <2>5. QueueOK(s)'
    BY <2>1, <2>2, <2>3 DEF QueueOK
  <2> QED
    BY <2>1, <2>4, <2>5
<1>2. CASE OpenRefused(s)
  <2>1. /\ pc'[s] = "raised" /\ pc[s] = "idle"
        /\ \A t \in Streams \ {s} : Same(t)
        /\ \A t \in Streams : SameBook(t)
        /\ UNCHANGED <<connected, kind, registered, queue, received, cancelled, srv, sent, verdict,
                       historical_data>>
    BY <1>2 DEF OpenRefused, TypeOK, Same, SameBook
  <2>2. StateOK(s)' /\ QueueOK(s)'
    BY <2>1 DEF StateOK, QueueOK, Pending, Active, Finished
  <2> QED
    BY <2>1, <2>2
<1>3. CASE Pull(s) \/ Break(s)
  <2>1. /\ pc'[s] \in {"pulling", "dropped"} /\ pc[s] = "yielded"
        /\ \A t \in Streams \ {s} : Same(t)
        /\ \A t \in Streams : SameBook(t)
        /\ UNCHANGED <<connected, kind, registered, queue, received, cancelled, srv, sent, verdict,
                       historical_data>>
    BY <1>3 DEF Pull, Break, TypeOK, Same, SameBook
  <2>2. StateOK(s)' /\ QueueOK(s)'
    BY <2>1 DEF StateOK, QueueOK, Pending, Active, Finished
  <2> QED
    BY <2>1, <2>2
<1>4. CASE TakeItem(s)
  <2>1. /\ connected' = connected
        /\ \A t \in Streams \ {s} : Same(t)
        /\ \A t \in Streams : SameBook(t)
    BY <1>4 DEF TakeItem, TypeOK, Same, SameBook
  <2> QED
    BY <1>4, <2>1, TakeItemOK
<1>5. ASSUME NEW outcome, NEW cancels, FinishesAs(s, outcome, cancels)
      PROVE  /\ StateOK(s)' /\ QueueOK(s)' /\ connected' = connected
             /\ \A t \in Streams \ {s} : Same(t)
             /\ \A t \in Streams : SameBook(t)
  <2>1. Finish(s, outcome, cancels) /\ StateOK(s)' /\ QueueOK(s)'
    BY <1>5, FinishesOK
  <2>2. /\ connected' = connected
        /\ \A t \in Streams \ {s} : Same(t)
        /\ \A t \in Streams : SameBook(t)
    BY <2>1 DEF Finish, TypeOK, Same, SameBook
  <2> QED
    BY <2>1, <2>2
<1>6. CASE TakeEnd(s) \/ TakeError(s) \/ Timeout(s) \/ SettleOver(s) \/ Close(s) \/ TaskCancelled(s)
  <2>1. \E outcome, cancels : FinishesAs(s, outcome, cancels)
    BY <1>6 DEF FinishesAs
  <2> QED
    BY <1>5, <2>1
<1> QED
  BY <1>1, <1>2, <1>3, <1>4, <1>6 DEF Advance

\* The client changes its book as TWS changes its own, unless rows move.
LEMMA BookOK ==
  ASSUME TypeOK, BookIsExactUnlessShifted, NEW s \in Streams, UpdateMktDepth(s)
  PROVE  BookIsExactUnlessShifted'
<1> PICK n : n = sent[s] + 1
  OBVIOUS
<1>1. n \in Nat
  BY SendsTyped DEF UpdateMktDepth
<1>2. PICK p \in Rows, operation \in {"insert", "update", "delete"} :
        /\ TwsChanges(s, p, operation, n)
        /\ BookChanges(s, p, operation, n)
        /\ shifted' = IF \/ operation = "insert" /\ p < Len(levels[s])
                         \/ operation = "delete" /\ p + 1 < Len(levels[s])
                        THEN shifted \cup {s} ELSE shifted
  BY DEF UpdateMktDepth
<1>3. /\ \A t \in Streams \ {s} : levels'[t] = levels[t]
      /\ levels'[s] \in Seq(Nat)
      /\ operation = "insert" => p =< Len(levels[s]) /\ levels'[s] = With(levels[s], p, n)
      /\ operation = "update" =>
           /\ p < Len(levels[s]) /\ Len(levels'[s]) = Len(levels[s])
           /\ \A i \in 1..Len(levels[s]) : levels'[s][i] = IF i = p + 1 THEN n ELSE levels[s][i]
      /\ operation = "delete" => p < Len(levels[s]) /\ levels'[s] = Without(levels[s], p)
  BY <1>1, <1>2, TwsRows
<1>4. /\ \A t \in Streams \ {s} : market_depth'[t] = market_depth[t]
      /\ \A q \in Rows : market_depth'[s][q] =
           IF q = p THEN IF operation = "delete" THEN 0 ELSE n ELSE market_depth[s][q]
  BY <1>2 DEF BookChanges, TypeOK
<1> SUFFICES ASSUME NEW t \in Streams, t \notin shifted', NEW q \in Rows
             PROVE  market_depth'[t][q] = IF q < Len(levels'[t]) THEN levels'[t][q + 1] ELSE 0
  BY DEF BookIsExactUnlessShifted
<1>5. market_depth[t][q] = IF q < Len(levels[t]) THEN levels[t][q + 1] ELSE 0
  BY <1>2 DEF BookIsExactUnlessShifted
<1>6. CASE t # s
  BY <1>3, <1>4, <1>5, <1>6
<1>7. CASE t = s
  <2>1. /\ operation = "insert" => p = Len(levels[s])
        /\ operation = "delete" => p + 1 = Len(levels[s])
        /\ levels[s] \in Seq(Nat) /\ Len(levels[s]) \in Nat
        /\ p \in 0..Depth - 1 /\ q \in 0..Depth - 1 /\ Depth \in Nat
    BY <1>2, <1>3, <1>7, BoundsAssumption DEF Rows, TypeOK
  <2>2. CASE operation = "insert"
    <3>1. /\ Len(levels'[s]) = Len(levels[s]) + 1
          /\ \A i \in 1..Len(levels[s]) : levels'[s][i] = levels[s][i]
          /\ levels'[s][Len(levels[s]) + 1] = n
      <4>1. p \in 0..Len(levels[s]) /\ p = Len(levels[s]) /\ p < Depth
        BY <2>1, <2>2
      <4>2. PICK rows : rows = levels[s]
        OBVIOUS
      <4>3. rows \in Seq(Nat) /\ p \in 0..Len(rows) /\ p = Len(rows) /\ p < Depth
        BY <2>1, <4>1, <4>2
      <4>4. /\ Len(With(rows, p, n)) = Len(rows) + 1
            /\ \A i \in 1..Len(rows) : With(rows, p, n)[i] = rows[i]
            /\ With(rows, p, n)[Len(rows) + 1] = n
        <5>1. n \in Nat
          BY <1>1
        <5> QED
          BY <4>3, <5>1, RowAtTheEnd
      <4> QED
        BY <1>3, <2>2, <4>2, <4>4
    <3>2. CASE q = p
      BY <1>4, <1>7, <2>1, <2>2, <3>1, <3>2
    <3>3. CASE q < p
      <4>1. q + 1 \in 1..Len(levels[s]) /\ q < Len(levels'[s])
        BY <2>1, <2>2, <3>1, <3>3
      <4> QED
        BY <1>4, <1>5, <1>7, <2>1, <3>1, <3>3, <4>1
    <3>4. CASE q > p
      BY <1>4, <1>5, <1>7, <2>1, <2>2, <3>1, <3>4
    <3> QED
      BY <2>1, <3>2, <3>3, <3>4
  <2>3. CASE operation = "update"
    <3>1. q < Len(levels[s]) => q + 1 \in 1..Len(levels[s]) /\ (q + 1 = p + 1 <=> q = p)
      BY <2>1
    <3> QED
      BY <1>3, <1>4, <1>5, <1>7, <2>1, <2>3, <3>1
  <2>4. CASE operation = "delete"
    <3>1. /\ Len(levels'[s]) = p
          /\ \A i \in 1..p : levels'[s][i] = levels[s][i]
      BY <1>3, <2>1, <2>4, WithoutRow
    <3> QED
      BY <1>4, <1>5, <1>7, <2>1, <2>4, <3>1
  <2> QED
    BY <2>2, <2>3, <2>4
<1> QED
  BY <1>6, <1>7

LEMMA CallbackOK ==
  ASSUME TypeOK, NEW s \in Streams, StateOK(s), QueueOK(s), BookIsExactUnlessShifted,
         \/ LiveCallback(s) \/ HistoricalData(s) \/ HistoricalDataEnd(s) \/ UpdateMktDepth(s)
         \/ \E code \in {"info", "fatal"} : ErrorCallback(s, code)
         \/ ServerCancels(s)
  PROVE  /\ StateOK(s)' /\ QueueOK(s)' /\ connected' = connected
         /\ \A t \in Streams \ {s} : Same(t)
         /\ BookIsExactUnlessShifted'
<1> USE DEF books, consumer
<1>1. CASE LiveCallback(s) \/ HistoricalData(s) \/ UpdateMktDepth(s)
  <2>1. /\ Sends(s) /\ Put(s, Item(sent[s] + 1))
        /\ \/ historical_data' = historical_data
           \/ s \notin registered /\ kind[s] = "history"
        /\ \A t \in Streams \ {s} : historical_data'[t] = historical_data[t]
    BY <1>1 DEF LiveCallback, HistoricalData, UpdateMktDepth, TypeOK
  <2>2. StateOK(s)' /\ QueueOK(s)'
    BY <2>1, SendsOK
  <2>3. \A t \in Streams \ {s} : queue'[t] = queue[t]
    BY <2>1 DEF Put, TypeOK
  <2>4. \A t \in Streams \ {s} : Same(t)
    BY <2>1, <2>3, SendsTyped DEF Same, TypeOK
  <2>5. BookIsExactUnlessShifted'
    <3>1. CASE LiveCallback(s) \/ HistoricalData(s)
      BY <3>1, SameBookOK DEF LiveCallback, HistoricalData, SameBook
    <3> QED
      BY <1>1, <3>1, BookOK
  <2>6. connected' = connected
    BY <2>1 DEF Sends
  <2> QED
    BY <2>2, <2>4, <2>5, <2>6
<1>2. ASSUME NEW v \in {"end", "error"}, connected, srv[s] = "open",
             Put(s, [mark |-> v, n |-> 0]),
             verdict' = IF verdict[s] = "none" THEN [verdict EXCEPT ![s] = v] ELSE verdict,
             \/ v = "error" /\ srv' = [srv EXCEPT ![s] = "failed"]
             \/ v = "end" /\ srv' \in {srv, [srv EXCEPT ![s] = "over"]},
             UNCHANGED <<connected, kind, pc, registered, received, cancelled, sent,
                         historical_data, books>>
      PROVE  /\ StateOK(s)' /\ QueueOK(s)'
             /\ \A t \in Streams \ {s} : Same(t)
             /\ BookIsExactUnlessShifted'
  <2>1. /\ verdict'[s] = IF verdict[s] = "none" THEN v ELSE verdict[s]
        /\ IF v = "error" THEN srv'[s] = "failed" ELSE srv'[s] \in {"open", "over"}
        /\ \A t \in Streams \ {s} : verdict'[t] = verdict[t] /\ srv'[t] = srv[t]
    BY <1>2 DEF TypeOK
  <2>2. StateOK(s)' /\ QueueOK(s)'
    BY <1>2, <2>1, ClosesOK
  <2>3. \A t \in Streams \ {s} : queue'[t] = queue[t]
    BY <1>2 DEF Put, TypeOK
  <2>4. \A t \in Streams \ {s} : Same(t)
    BY <1>2, <2>1, <2>3 DEF Same
  <2>5. BookIsExactUnlessShifted'
    BY <1>2, SameBookOK DEF SameBook
  <2> QED
    BY <2>2, <2>4, <2>5
<1>3. CASE HistoricalDataEnd(s)
  BY <1>2, <1>3 DEF HistoricalDataEnd, HistoricalEnd
<1>4. ASSUME NEW code \in {"info", "fatal"}, ErrorCallback(s, code)
      PROVE  /\ StateOK(s)' /\ QueueOK(s)' /\ connected' = connected
             /\ \A t \in Streams \ {s} : Same(t)
             /\ BookIsExactUnlessShifted'
  <2>1. CASE code = "info"
    <3>1. /\ UNCHANGED <<srv, verdict, queue, connected, kind, pc, registered, received, cancelled,
                         sent, historical_data, books>>
      BY <1>4, <2>1 DEF ErrorCallback
    <3> QED
      BY <3>1, SameBookOK DEF SameBook, Same, StateOK, QueueOK, Pending
  <2>2. CASE code = "fatal"
    BY <1>2, <1>4, <2>2 DEF ErrorCallback, Error
  <2> QED
    BY <2>1, <2>2
<1>5. CASE ServerCancels(s)
  <2>1. /\ srv[s] = "open" /\ srv'[s] = "over" /\ \A t \in Streams \ {s} : srv'[t] = srv[t]
        /\ UNCHANGED <<verdict, queue, connected, kind, pc, registered, received, cancelled,
                       sent, historical_data, books>>
    BY <1>5 DEF ServerCancels, TypeOK
  <2>2. StateOK(s)' /\ QueueOK(s)'
    BY <2>1 DEF StateOK, QueueOK, Pending
  <2>3. BookIsExactUnlessShifted'
    BY <2>1, SameBookOK DEF SameBook
  <2> QED
    BY <2>1, <2>2, <2>3 DEF Same
<1>6. HistoricalDataEnd(s) => connected' = connected
  BY DEF HistoricalDataEnd
<1> QED
  BY <1>1, <1>3, <1>4, <1>5, <1>6

LEMMA StepSInv == SInv /\ [Next]_vars => SInv'
<1> SUFFICES ASSUME SInv, [Next]_vars
             PROVE  SInv'
  OBVIOUS
<1>0. TypeOK'
  BY StepTypeOK DEF SInv
<1>1. ASSUME NEW s \in Streams, StateOK(s)', QueueOK(s)', connected' = connected,
             \A t \in Streams \ {s} : Same(t), BookIsExactUnlessShifted'
      PROVE  SInv'
  <2>1. ASSUME NEW t \in Streams
        PROVE  StateOK(t)' /\ QueueOK(t)'
    BY <1>1, SameOK DEF SInv
  <2> QED
    BY <1>0, <1>1, <2>1 DEF SInv
<1>2. ASSUME NEW s \in Streams, Open(s) \/ OpenRefused(s) \/ Advance(s) \/ TaskCancelled(s)
      PROVE  SInv'
  BY <1>1, <1>2, GeneratorOK, SameBookOK DEF SInv
<1>3. ASSUME NEW s \in Streams,
             \/ LiveCallback(s) \/ HistoricalData(s) \/ HistoricalDataEnd(s) \/ UpdateMktDepth(s)
             \/ \E code \in {"info", "fatal"} : ErrorCallback(s, code)
             \/ ServerCancels(s)
      PROVE  SInv'
  BY <1>1, <1>3, CallbackOK DEF SInv
<1>4. CASE Drop \/ UNCHANGED vars
  <2>1. /\ \A t \in Streams : Same(t) /\ SameBook(t)
        /\ connected' => connected
    BY <1>4 DEF Drop, vars, consumer, tws, books, Same, SameBook
  <2>2. \A t \in Streams : StateOK(t)' /\ QueueOK(t)'
    BY <2>1, SameOK DEF SInv
  <2>3. BookIsExactUnlessShifted'
    BY <2>1, SameBookOK DEF SInv
  <2> QED
    BY <1>0, <2>2, <2>3 DEF SInv
<1> QED
  BY <1>2, <1>3, <1>4 DEF Next

LEMMA StreamsInvariance == Spec => []SInv
<1>1. Init => SInv
  <2> SUFFICES ASSUME Init
               PROVE  SInv
    OBVIOUS
  <2>1. \A s \in Streams : StateOK(s) /\ QueueOK(s)
    <3> SUFFICES ASSUME NEW s \in Streams
                 PROVE  StateOK(s) /\ QueueOK(s)
      OBVIOUS
    <3>1. /\ pc[s] = "idle" /\ registered = {} /\ queue[s] = <<>> /\ srv[s] = "none"
          /\ sent[s] = 0 /\ verdict[s] = "none" /\ received[s] = <<>> /\ historical_data[s] = 0
      BY DEF Init
    <3>2. ~(historical_data[s] > 0)
      BY <3>1
    <3> QED
      BY <3>1, <3>2 DEF StateOK, QueueOK, Active, Finished
  <2>2. BookIsExactUnlessShifted
    <3>1. \A s \in Streams : Len(levels[s]) = 0
      BY EmptySeq DEF Init
    <3>2. \A s \in Streams, p \in Rows : market_depth[s][p] = 0 /\ ~(p < 0)
      BY BoundsAssumption DEF Init, Rows
    <3> QED
      BY <3>1, <3>2 DEF BookIsExactUnlessShifted
  <2> QED
    BY <2>1, <2>2, InitTypeOK DEF SInv
<1> QED
  BY <1>1, StepSInv, PTL DEF Spec

\* However and whenever a stream ends, its queue is gone and TWS has been asked
\* to end its request, if it still serves it and there is a connection.
THEOREM NothingIsLeftRunning == Spec => []NothingLeftRunning
<1>1. SInv => NothingLeftRunning
  BY DEF SInv, StateOK, NothingLeftRunning, Active, Finished
<1> QED
  BY <1>1, StreamsInvariance, PTL

\* Bars of a stream reach the accumulator of get_historical_data only after its
\* consumer has left.
THEOREM OnlyLateBarsAccumulate == Spec => []AccumulatesOnlyLate
<1>1. SInv => AccumulatesOnlyLate
  BY DEF SInv, StateOK, AccumulatesOnlyLate
<1> QED
  BY <1>1, StreamsInvariance, PTL

\* The book of the client is TWS's, row by row, for every depth, until TWS moves
\* a row to another position.
THEOREM BooksAreExact == Spec => []BookIsExactUnlessShifted
<1>1. SInv => BookIsExactUnlessShifted
  BY DEF SInv
<1> QED
  BY <1>1, StreamsInvariance, PTL

\* TWS is asked to cancel what it has failed only by a generator that has not
\* read its queue to the error.
THEOREM CancelsAreBlind == Spec => CancelsBlindly
<1>1. ASSUME SInv, [Next]_vars, NEW s \in cancelled', s \notin cancelled, srv[s] = "failed"
      PROVE  pc'[s] # "raised" /\ \E i \in 1..Len(queue[s]) : queue[s][i] = Error
  <2> USE DEF consumer, tws, books
  <2>1. \E t, outcome, cancels : t \in Streams /\ FinishesAs(t, outcome, cancels)
    <3>1. cancelled' # cancelled
      BY <1>1
    <3> QED
      BY <1>1, <3>1
         DEF Next, Advance, Open, OpenRefused, Pull, TakeItem, Break, LiveCallback, HistoricalData,
             HistoricalDataEnd, UpdateMktDepth, Sends, ErrorCallback, ServerCancels, Drop, vars,
             FinishesAs
  <2>2. PICK t, outcome, cancels : t \in Streams /\ FinishesAs(t, outcome, cancels)
    BY <2>1
  <2>3. TypeOK /\ StateOK(t) /\ QueueOK(t)
    BY <1>1, <2>2 DEF SInv
  <2>4. Finish(t, outcome, cancels) /\ t \in registered
    BY <2>2, <2>3, FinishesOK
  <2>5. t = s /\ cancels /\ pc'[s] = outcome
    BY <1>1, <2>3, <2>4 DEF Finish, TypeOK
  <2>6. outcome # "raised"
    BY <2>2, <2>5 DEF FinishesAs
  <2> QED
    BY <1>1, <2>3, <2>4, <2>5, <2>6 DEF QueueOK
<1>2. SInv /\ [Next]_vars =>
        [\A s \in cancelled' \ cancelled :
           srv[s] = "failed" =>
             /\ pc'[s] # "raised"
             /\ \E i \in 1..Len(queue[s]) : queue[s][i] = Error]_vars
  BY <1>1
<1> QED
  BY <1>2, StreamsInvariance, PTL DEF Spec, CancelsBlindly

(***************************************************************************)
(* The contract                                                            *)
(***************************************************************************)

\* The outcomes that the refinement mapping gives to the contract.
Outcomes == [s \in Streams |-> Outcome(s)]

\* A stream concludes: the outcomes of the others are what they were.
LEMMA Concludes ==
  ASSUME NEW s \in Streams, pc[s] \notin Finished, UNCHANGED <<sent, verdict, received>>,
         \A t \in Streams \ {s} : pc'[t] = pc[t] /\ srv'[t] = srv[t]
  PROVE  Contract!Conclude(s, Outcome(s)')
<1>1. Outcome(s) = "none"
  BY DEF Outcome, Finished
<1>2. \A t \in Streams \ {s} : Outcome(t)' = Outcome(t)
  BY DEF Outcome
<1>3. [t \in Streams |-> Outcome(t)]' = [[t \in Streams |-> Outcome(t)] EXCEPT ![s] = Outcome(s)']
  BY <1>2
<1> QED
  BY <1>1, <1>3 DEF Contract!Conclude

\* No stream concludes.
LEMMA SameOutcomes ==
  ASSUME \A s \in Streams :
           \/ pc'[s] = pc[s] /\ (srv'[s] = "none" <=> srv[s] = "none")
           \/ pc[s] \notin Finished /\ pc'[s] \notin Finished
  PROVE  [s \in Streams |-> Outcome(s)]' = [s \in Streams |-> Outcome(s)]
<1>1. \A s \in Streams : Outcome(s)' = Outcome(s)
  BY DEF Outcome, Finished
<1> QED
  BY <1>1

\* Every end of a generator is one the contract knows.
LEMMA FinishImplements ==
  ASSUME TypeOK, NEW s \in Streams, StateOK(s), QueueOK(s), NEW outcome, NEW cancels,
         FinishesAs(s, outcome, cancels)
  PROVE  Contract!Next
<1>0. /\ Finish(s, outcome, cancels) /\ s \in registered
  BY FinishesOK
<1>1. /\ pc[s] \notin Finished /\ pc'[s] = outcome /\ UNCHANGED <<sent, verdict, received, srv>>
      /\ \A t \in Streams \ {s} : pc'[t] = pc[t] /\ srv'[t] = srv[t]
  BY <1>0 DEF Finish, TypeOK, StateOK, Active, Finished, tws
<1>2. Contract!Conclude(s, Outcome(s)')
  BY <1>1, Concludes
<1>3. CASE TakeEnd(s)
  <2>1. verdict[s] = "end" /\ Len(received[s]) = sent[s]
    BY <1>3, TakesVerdict DEF TakeEnd
  <2>2. Outcome(s)' = "end"
    BY <1>1, <1>3 DEF FinishesAs, TakeEnd, TakeError, Gets, Timeout, SettleOver, Close,
                      TaskCancelled, Finish, TypeOK, Outcome
  <2> QED
    BY <1>2, <2>1, <2>2 DEF Contract!Next, Contract!Learn
<1>4. CASE TakeError(s)
  <2>1. verdict[s] = "error" /\ Len(received[s]) = sent[s] /\ srv[s] # "none"
    BY <1>4, TakesVerdict DEF TakeError
  <2>2. Outcome(s)' = "error"
    BY <1>1, <1>4, <2>1 DEF TakeError, Finish, TypeOK, Outcome
  <2> QED
    BY <1>2, <2>1, <2>2 DEF Contract!Next, Contract!Learn
<1>5. CASE SettleOver(s)
  <2>1. received[s] # <<>>
    BY <1>5 DEF SettleOver, StateOK
  <2>2. Outcome(s)' = "snapshot"
    BY <1>1, <1>5 DEF SettleOver, Finish, TypeOK, Outcome
  <2> QED
    BY <1>2, <2>1, <2>2 DEF Contract!Next, Contract!Snapshot
<1>6. CASE Timeout(s) \/ Close(s) \/ TaskCancelled(s)
  <2>1. Outcome(s)' = "stopped"
    BY <1>1, <1>6 DEF Timeout, Close, TaskCancelled, Finish, TypeOK, Outcome
  <2> QED
    BY <1>2, <2>1 DEF Contract!Next, Contract!Stop
<1> QED
  BY <1>3, <1>4, <1>5, <1>6 DEF FinishesAs

LEMMA StepImplements == SInv /\ [Next]_vars => [Contract!Next]_(Contract!vars)
<1> SUFFICES ASSUME SInv, [Next]_vars
             PROVE  [Contract!Next]_(Contract!vars)
  OBVIOUS
<1> USE DEF consumer, tws, books
<1>0. TypeOK /\ \A s \in Streams : StateOK(s) /\ QueueOK(s)
  BY DEF SInv
\* A step that leaves what TWS sent, and what the consumer was given, stutters
\* unless a stream concludes.
<1>1. ASSUME UNCHANGED <<sent, verdict, received>>,
             \A s \in Streams :
               \/ pc'[s] = pc[s] /\ (srv'[s] = "none" <=> srv[s] = "none")
               \/ pc[s] \notin Finished /\ pc'[s] \notin Finished
      PROVE  UNCHANGED Contract!vars
  BY <1>1, SameOutcomes DEF Contract!vars
<1>2. ASSUME NEW s \in Streams, Open(s) \/ Pull(s) \/ Break(s) \/ ServerCancels(s)
      PROVE  UNCHANGED Contract!vars
  <2>1. UNCHANGED <<sent, verdict, received>>
    BY <1>2 DEF Open, Pull, Break, ServerCancels
  <2>2. \A t \in Streams :
          \/ pc'[t] = pc[t] /\ (srv'[t] = "none" <=> srv[t] = "none")
          \/ pc[t] \notin Finished /\ pc'[t] \notin Finished
    BY <1>0, <1>2 DEF Open, Pull, Break, ServerCancels, TypeOK, Finished
  <2> QED
    BY <1>1, <2>1, <2>2
<1>3. CASE Drop \/ UNCHANGED vars
  BY <1>1, <1>3 DEF Drop, vars
<1>4. ASSUME NEW s \in Streams, OpenRefused(s)
      PROVE  Contract!Next
  <2>1. /\ pc[s] = "idle" /\ pc'[s] = "raised" /\ UNCHANGED <<sent, verdict, received, srv>>
        /\ \A t \in Streams \ {s} : pc'[t] = pc[t] /\ srv'[t] = srv[t]
    BY <1>0, <1>4 DEF OpenRefused, TypeOK
  <2>2. sent[s] = 0 /\ Outcome(s)' = "refused" /\ pc[s] \notin Finished
    BY <1>0, <2>1 DEF StateOK, Outcome, Finished
  <2>3. Contract!Conclude(s, Outcome(s)')
    BY <2>1, <2>2, Concludes
  <2> QED
    BY <2>2, <2>3 DEF Contract!Next, Contract!Refuse
<1>5. ASSUME NEW s \in Streams, TakeItem(s)
      PROVE  Contract!Next
  <2>1. Len(received[s]) < sent[s] /\ Head(queue[s]).n = Len(received[s]) + 1
    BY <1>0, <1>5, TakeItemOK
  <2>2. /\ received' = [received EXCEPT ![s] = Append(@, Head(queue[s]).n)]
        /\ UNCHANGED <<sent, verdict, srv>>
        /\ pc[s] \notin Finished /\ pc'[s] \notin Finished
        /\ \A t \in Streams \ {s} : pc'[t] = pc[t]
    BY <1>0, <1>5 DEF TakeItem, Gets, TypeOK, Finished
  <2>3. received' = [received EXCEPT ![s] = Append(@, Len(@) + 1)]
    BY <2>1, <2>2
  <2>4. Outcomes' = Outcomes
    BY <2>2, SameOutcomes DEF Outcomes
  <2>5. Outcomes[s] = "none"
    BY <2>2 DEF Outcomes, Outcome, Finished
  <2> QED
    BY <2>1, <2>2, <2>3, <2>4, <2>5 DEF Contract!Next, Contract!Deliver, Outcomes
<1>6. ASSUME NEW s \in Streams, Sends(s)
      PROVE  Contract!Next
  <2>1. /\ sent' = [sent EXCEPT ![s] = @ + 1] /\ verdict[s] = "none"
        /\ UNCHANGED <<verdict, received, pc, srv>>
    BY <1>6 DEF Sends
  <2>2. Outcomes' = Outcomes
    BY <2>1, SameOutcomes DEF Outcomes
  <2> QED
    BY <2>1, <2>2 DEF Contract!Next, Contract!Send, Outcomes
<1>7. ASSUME NEW s \in Streams, NEW v \in {"end", "error"}, verdict[s] = "none", srv[s] = "open",
             srv' \in {srv, [srv EXCEPT ![s] = "over"], [srv EXCEPT ![s] = "failed"]},
             verdict' = [verdict EXCEPT ![s] = v], UNCHANGED <<sent, received, pc>>
      PROVE  Contract!Next
  <2>1. \A t \in Streams : pc'[t] = pc[t] /\ (srv'[t] = "none" <=> srv[t] = "none")
    BY <1>0, <1>7 DEF TypeOK
  <2>2. Outcomes' = Outcomes
    BY <2>1, SameOutcomes DEF Outcomes
  <2> QED
    BY <1>7, <2>2 DEF Contract!Next, Contract!Finish, Outcomes
<1>8. ASSUME NEW s \in Streams, HistoricalDataEnd(s)
      PROVE  Contract!Next
  <2>1. /\ verdict[s] = "none" /\ srv[s] = "open" /\ srv' \in {srv, [srv EXCEPT ![s] = "over"]}
        /\ verdict' = [verdict EXCEPT ![s] = "end"] /\ UNCHANGED <<sent, received, pc>>
    BY <1>8 DEF HistoricalDataEnd
  <2> QED
    BY <1>7, <2>1
<1>9. ASSUME NEW s \in Streams, NEW code \in {"info", "fatal"}, ErrorCallback(s, code)
      PROVE  [Contract!Next]_(Contract!vars)
  <2>1. CASE code = "fatal" /\ verdict[s] = "none"
    <3>1. /\ srv[s] = "open" /\ srv' = [srv EXCEPT ![s] = "failed"]
          /\ verdict' = [verdict EXCEPT ![s] = "error"] /\ UNCHANGED <<sent, received, pc>>
      BY <1>9, <2>1 DEF ErrorCallback
    <3> QED
      BY <1>7, <2>1, <3>1
  <2>2. CASE code = "info" \/ verdict[s] # "none"
    <3>1. /\ UNCHANGED <<sent, received, pc, verdict>>
          /\ \A t \in Streams : srv'[t] = "none" <=> srv[t] = "none"
      BY <1>0, <1>9, <2>2 DEF ErrorCallback, TypeOK
    <3> QED
      BY <1>1, <3>1
  <2> QED
    BY <2>1, <2>2
<1>10. ASSUME NEW s \in Streams, NEW outcome, NEW cancels, FinishesAs(s, outcome, cancels)
       PROVE  Contract!Next
  BY <1>0, <1>10, FinishImplements
<1>11. ASSUME NEW s \in Streams,
              \/ TakeEnd(s) \/ TakeError(s) \/ Timeout(s) \/ SettleOver(s) \/ Close(s)
              \/ TaskCancelled(s)
       PROVE  Contract!Next
  <2>1. \E outcome, cancels : FinishesAs(s, outcome, cancels)
    BY <1>11 DEF FinishesAs
  <2> QED
    BY <1>10, <2>1
<1>12. ASSUME NEW s \in Streams, LiveCallback(s) \/ HistoricalData(s) \/ UpdateMktDepth(s)
       PROVE  Contract!Next
  BY <1>6, <1>12 DEF LiveCallback, HistoricalData, UpdateMktDepth
<1> QED
  BY <1>2, <1>3, <1>4, <1>5, <1>8, <1>9, <1>11, <1>12 DEF Next, Advance

\* The generators, their queues, end marks and exceptions implement a stream:
\* the consumer is given every item once and in order, then the verdict, unless
\* it stops.
THEOREM StreamsImplementContract == Spec => ImplementsContract
<1>1. Init => Contract!Init
  <2>1. Init => Outcomes = [s \in Streams |-> "none"]
    BY DEF Init, Outcomes, Outcome
  <2> QED
    BY <2>1 DEF Init, Contract!Init, Outcomes
<1> QED
  BY <1>1, StreamsInvariance, StepImplements, PTL DEF Spec, ImplementsContract, Contract!Spec
=============================================================================
