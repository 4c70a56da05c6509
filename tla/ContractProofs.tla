--------------------------- MODULE ContractProofs ---------------------------
(***************************************************************************)
(* What is proved of the calls that carry a request id against the         *)
(* contract of RequestContract: every step of Correlation is a step of the *)
(* contract or leaves what the contract sees of a call unchanged.          *)
(***************************************************************************)
EXTENDS SharedProofs

\* What the caller sees, where the invariant rules out corrupt answers.
Seen(c) ==
  CASE pc[c] = "returned" -> IF <<"ok", c>> \in fired THEN "answer" ELSE "partial"
    [] pc[c] = "tws_error" -> "error"
    [] pc[c] \in {"timed_out", "no_id"} -> "gave_up"
    [] OTHER -> "none"

Asked == {c \in ById : pc[c] # "idle"}
Answered == {c \in ById : <<"ok", c>> \in fired}
Failed == {c \in ById : <<"err", c>> \in fired}
Outcomes == [c \in ById |-> Seen(c)]

\* The invariant makes the outcome of every call one of those the contract has.
LEMMA OutcomeIsSeen == IInv => [c \in ById |-> Outcome(c)] = Outcomes
<1> SUFFICES ASSUME IInv, NEW c \in ById PROVE Outcome(c) = Seen(c)
  BY DEF Outcomes
<1>1. c \in Calls
  BY ByIdCalls
<1>2. CASE pc[c] = "returned"
  <2>1. OnlyOf(c, result[c])
    BY <1>2, Consequences DEF AnswerIsOwn
  <2>2. Value(result[c])[c] >= AnswerSize(c) \/ <<"ok", c>> \notin fired
    BY <1>2, Consequences DEF AnswerIsComplete
  <2> QED
    BY <1>2, <2>1, <2>2 DEF Outcome, Seen
<1>3. CASE pc[c] = "tws_error"
  <2>1. result[c] = Fault(c)
    BY <1>1, <1>3 DEF IInv, ResultInv
  <2> QED
    BY <1>3, <2>1 DEF Outcome, Seen
<1>4. CASE pc[c] \notin {"returned", "tws_error"}
  BY <1>4 DEF Outcome, Seen
<1> QED
  BY <1>2, <1>3, <1>4

\* The contract's variables, under the invariant.
LEMMA ContractVars ==
  IInv => Contract!vars = <<Asked, Answered, Failed, Outcomes>>
BY OutcomeIsSeen DEF Contract!vars, Asked, Answered, Failed

LEMMA OutcomeIsSeenNext == IInv' => [c \in ById |-> Outcome(c)]' = Outcomes'
<1>1. IInv' => ([c \in ById |-> Outcome(c)] = Outcomes)'
  BY OutcomeIsSeen, PTL
<1> QED
  BY <1>1

\* What a step does to what the contract sees of a call.
Same(c) ==
  /\ pc'[c] = "idle" <=> pc[c] = "idle"
  /\ <<"ok", c>> \in fired' <=> <<"ok", c>> \in fired
  /\ <<"err", c>> \in fired' <=> <<"err", c>> \in fired
  /\ Seen(c)' = Seen(c)

LEMMA Stutters ==
  ASSUME IInv, IInv', \A c \in ById : Same(c)
  PROVE  UNCHANGED Contract!vars
<1>1. Asked' = Asked /\ Answered' = Answered /\ Failed' = Failed
  BY DEF Same, Asked, Answered, Failed
<1>2. Outcomes' = Outcomes
  BY DEF Same, Outcomes
<1>3. [c \in ById |-> Outcome(c)]' = [c \in ById |-> Outcome(c)]
  BY <1>2, OutcomeIsSeen, OutcomeIsSeenNext
<1> QED
  BY <1>1, <1>3 DEF Contract!vars, Asked, Answered, Failed

\* One call is asked, answered or failed.
LEMMA OneAsked ==
  ASSUME IInv, IInv', NEW e \in ById, \A c \in ById \ {e} : Same(c),
         pc[e] = "idle", pc'[e] # "idle",
         <<"ok", e>> \in fired' <=> <<"ok", e>> \in fired,
         <<"err", e>> \in fired' <=> <<"err", e>> \in fired,
         Seen(e)' = Seen(e)
  PROVE  Contract!Next
<1>1. Asked' = Asked \cup {e} /\ e \notin Asked /\ Answered' = Answered /\ Failed' = Failed
  BY DEF Same, Asked, Answered, Failed
<1>2. Outcomes' = Outcomes
  BY DEF Same, Outcomes
<1>3. [c \in ById |-> Outcome(c)]' = [c \in ById |-> Outcome(c)]
  BY <1>2, OutcomeIsSeen, OutcomeIsSeenNext
<1>4. Contract!Ask(e)
  BY <1>1, <1>3 DEF Contract!Ask, Asked, Answered, Failed
<1> QED
  BY <1>4 DEF Contract!Next

LEMMA OneSettles ==
  ASSUME IInv, IInv', NEW e \in ById, NEW kind \in {"ok", "err"},
         pc[e] = "waiting", UNCHANGED pc, fired' = fired \cup {<<kind, e>>},
         \A c \in ById : Seen(c)' = Seen(c)
  PROVE  Contract!Next
<1>1. Asked' = Asked /\ e \in Asked
  BY DEF Asked
<1>2. Outcomes' = Outcomes /\ Outcomes[e] = "none"
  BY DEF Outcomes, Seen
<1>3. /\ [c \in ById |-> Outcome(c)]' = [c \in ById |-> Outcome(c)]
      /\ [c \in ById |-> Outcome(c)][e] = "none"
  BY <1>2, OutcomeIsSeen, OutcomeIsSeenNext
<1>4. CASE kind = "ok"
  <2>1. Answered' = Answered \cup {e} /\ Failed' = Failed
    BY <1>4 DEF Answered, Failed
  <2>2. Contract!Answer(e)
    BY <1>1, <1>3, <2>1 DEF Contract!Answer, Contract!Pending, Asked, Answered, Failed
  <2> QED
    BY <2>2 DEF Contract!Next
<1>5. CASE kind = "err"
  <2>1. Failed' = Failed \cup {e} /\ Answered' = Answered
    BY <1>5 DEF Answered, Failed
  <2>2. Contract!Fail(e)
    BY <1>1, <1>3, <2>1 DEF Contract!Fail, Contract!Pending, Asked, Answered, Failed
  <2> QED
    BY <2>2 DEF Contract!Next
<1> QED
  BY <1>4, <1>5

\* One call ends.
LEMMA OneEnds ==
  ASSUME IInv, IInv', NEW e \in ById, NEW o \in {"answer", "error", "gave_up", "partial"},
         fired' = fired, \A c \in ById \ {e} : Same(c),
         pc[e] \in {"need_id", "waiting"}, pc'[e] # "idle", Seen(e)' = o,
         o = "answer" => <<"ok", e>> \in fired,
         o = "error" => <<"err", e>> \in fired,
         o = "partial" => Method[e] = "executions"
  PROVE  Contract!Next
<1>1. Asked' = Asked /\ e \in Asked /\ Answered' = Answered /\ Failed' = Failed
  BY DEF Same, Asked, Answered, Failed
<1>2. Outcomes' = [Outcomes EXCEPT ![e] = o] /\ Outcomes[e] = "none"
  <2>1. Outcomes[e] = "none"
    BY DEF Outcomes, Seen
  <2>2. Outcomes' = [c \in ById |-> IF c = e THEN o ELSE Outcomes[c]]
    BY DEF Outcomes, Same
  <2>3. [Outcomes EXCEPT ![e] = o] = [c \in ById |-> IF c = e THEN o ELSE Outcomes[c]]
    BY DEF Outcomes
  <2> QED
    BY <2>1, <2>2, <2>3
<1>3. /\ [c \in ById |-> Outcome(c)]' = [[c \in ById |-> Outcome(c)] EXCEPT ![e] = o]
      /\ [c \in ById |-> Outcome(c)][e] = "none"
  BY <1>2, OutcomeIsSeen, OutcomeIsSeenNext
<1>4. Contract!Conclude(e, o)
  BY <1>1, <1>3 DEF Contract!Conclude, Contract!Pending, Asked, Answered, Failed
<1>5. (o = "answer" => e \in Answered) /\ (o = "error" => e \in Failed)
  BY DEF Answered, Failed
<1>6. Contract!End(e)
  BY <1>4, <1>5 DEF Contract!End, Contract!Return, Contract!Raise, Contract!GiveUp,
                    Contract!Settle, Answered, Failed
<1> QED
  BY <1>6 DEF Contract!Next

(***************************************************************************)
(* The steps                                                               *)
(***************************************************************************)

\* Setting an event settles at most the waiting call by id that owns it.
LEMMA FiresOne ==
  ASSUME IInv, IInv', NEW kind \in {"ok", "err"}, NEW e \in Calls \cup {NoCall},
         UNCHANGED pc, fired' = fired \cup Fire(kind, e),
         e \in ById => pc[e] = "waiting"
  PROVE  [Contract!Next]_(Contract!vars)
<1>1. CASE e \in ById /\ <<kind, e>> \notin fired
  <2>1. e # NoCall
    BY <1>1, ByIdCalls, CallsAssumption
  <2>2. fired' = fired \cup {<<kind, e>>}
    BY <2>1 DEF Fire
  <2>3. \A c \in ById : Seen(c)' = Seen(c)
    <3>1. ASSUME NEW c \in ById PROVE Seen(c)' = Seen(c)
      <4>1. CASE c = e
        BY <1>1, <4>1 DEF Seen
      <4>2. CASE c # e
        BY <2>2, <4>2 DEF Seen
      <4> QED
        BY <4>1, <4>2
    <3> QED
      BY <3>1
  <2> QED
    BY <1>1, <2>2, <2>3, OneSettles
<1>2. CASE e \notin ById \/ <<kind, e>> \in fired
  <2>1. ASSUME NEW c \in ById PROVE Same(c)
    <3>1. \A k \in {"ok", "err"} : <<k, c>> \in fired' <=> <<k, c>> \in fired
      BY <1>2 DEF Fire
    <3> QED
      BY <3>1 DEF Same, Seen
  <2> QED
    BY <2>1, Stutters
<1> QED
  BY <1>1, <1>2

\* A step that sets no event and moves no call by id is not seen.
LEMMA FiresNone ==
  ASSUME IInv, IInv', UNCHANGED fired, \A c \in ById : pc'[c] = pc[c]
  PROVE  [Contract!Next]_(Contract!vars)
<1>1. \A c \in ById : Same(c)
  BY DEF Same, Seen
<1> QED
  BY <1>1, Stutters

LEMMA Registered ==
  ASSUME IInv
  PROVE  /\ \A k \in Keys : /\ response_events[k] \in Calls \cup {NoCall}
                            /\ response_events[k] \in ById => pc[response_events[k]] = "waiting"
         /\ \A i \in ErrIds : /\ error_events[i] \in Calls \cup {NoCall}
                              /\ error_events[i] \in ById => pc[error_events[i]] = "waiting"
<1>1. NoCall \notin ById
  BY ByIdCalls, CallsAssumption
<1>2. /\ response_events \in [Keys -> Calls \cup {NoCall}]
      /\ error_events \in [ErrIds -> Calls \cup {NoCall}]
  BY DEF IInv, TInv, TypeOK
<1>3. EventsInv
  BY DEF IInv
<1>4. \A k \in Keys : response_events[k] \in ById => pc[response_events[k]] = "waiting"
  BY <1>1, <1>3 DEF EventsInv, SuccessEventOf
<1>5. \A i \in ErrIds : error_events[i] \in ById => pc[error_events[i]] = "waiting"
  BY <1>1, <1>3 DEF EventsInv, ErrorEventOf, ErrIds
<1> QED
  BY <1>2, <1>4, <1>5

LEMMA IssueImplements ==
  ASSUME IInv, IInv', NEW c \in Calls, Issues(c)
  PROVE  [Contract!Next]_(Contract!vars)
<1>1. PICK i \in Ids : ~Issued(c) /\ pc[c] # "no_id" /\ Issue(c, i)
  BY DEF Issues
<1>2. /\ pc[c] \in {"idle", "need_id"} /\ pc'[c] = "waiting"
      /\ \A x \in Calls \ {c} : pc'[x] = pc[x]
  <2>1. TypeOK /\ TypeOK'
    BY DEF IInv, TInv
  <2> QED
    BY <1>1, <2>1 DEF Issue, TypeOK, Issued
<1>3. \A x \in ById : \A k \in {"ok", "err"} : <<k, x>> \in fired' <=> <<k, x>> \in fired
  <2>1. CASE fired' = fired
    BY <2>1
  <2>2. ASSUME NEW e \in ErrIds, fired' = fired \cup Fire("err", error_events[e]), srv' = srv
        PROVE  \A x \in ById : \A k \in {"ok", "err"} : <<k, x>> \in fired' <=> <<k, x>> \in fired
    <3>1. SUFFICES ASSUME NEW x \in ById, x = error_events[e] PROVE <<"err", x>> \in fired
      BY <2>2 DEF Fire
    <3>2. x \in Calls /\ x # NoCall
      BY ByIdCalls, CallsAssumption
    <3>3. <<"err", x>> \in fired'
      BY <2>2, <3>1, <3>2 DEF Fire
    <3>4. srv[x] = "failed"
      BY <2>2, <3>2, <3>3 DEF IInv, TasksInv
    <3>5. pc[x] = "waiting"
      BY <3>1, Registered
    <3> QED
      BY <3>4, <3>5 DEF IInv, WaitingInv, AwaitsOwn
  <2>3. i \in ErrIds /\ NoValidId \in ErrIds
    BY DEF ErrIds
  <2> QED
    BY <1>1, <2>1, <2>2, <2>3 DEF Issue, SetError
<1>4. ASSUME NEW x \in ById, x # c PROVE Same(x)
  <2>1. pc'[x] = pc[x]
    BY <1>2, <1>4, ByIdCalls
  <2> QED
    BY <1>3, <2>1 DEF Same, Seen
<1>5. Seen(c)' = Seen(c)
  BY <1>2 DEF Seen
<1>6. CASE c \in ById /\ pc[c] = "idle"
  BY <1>2, <1>3, <1>4, <1>5, <1>6, OneAsked
<1>7. CASE c \in ById /\ pc[c] = "need_id"
  <2>1. Same(c)
    BY <1>2, <1>3, <1>5, <1>7 DEF Same
  <2> QED
    BY <1>4, <2>1, Stutters
<1>8. CASE c \notin ById
  BY <1>4, <1>8, Stutters
<1> QED
  BY <1>2, <1>6, <1>7, <1>8

LEMMA EndImplements ==
  ASSUME IInv, IInv', NEW c \in Calls, Ends(c)
  PROVE  [Contract!Next]_(Contract!vars)
<1>1. PICK outcome \in {"returned", "tws_error", "timed_out"}, d \in Data, cancels \in BOOLEAN :
        /\ pc[c] = "waiting" /\ Finish(c, outcome, d) /\ Cleanup(c, cancels)
        /\ outcome = "returned" => "ok" \in done[c] \/ Method[c] = "executions"
  BY DEF Ends
<1>2. /\ pc'[c] = outcome /\ \A x \in Calls \ {c} : pc'[x] = pc[x]
      /\ UNCHANGED <<fired, srv>>
  BY <1>1 DEF Finish, IInv, TInv, TypeOK
<1>3. ASSUME NEW x \in ById, x # c PROVE Same(x)
  <2>1. pc'[x] = pc[x]
    BY <1>2, <1>3, ByIdCalls
  <2> QED
    BY <1>2, <2>1 DEF Same, Seen
<1>4. CASE c \notin ById
  BY <1>3, <1>4, Stutters
<1>5. CASE c \in ById
  <2>1. ASSUME outcome = "tws_error" PROVE <<"err", c>> \in fired
    <3>1. srv[c] = "failed"
      BY <1>2, <2>1 DEF IInv, ResultInv
    <3> QED
      BY <1>1, <1>5, <3>1 DEF IInv, WaitingInv, AwaitsOwn
  <2>2. "ok" \in done[c] => <<"ok", c>> \in fired
    <3>1. waits[c] = [ok |-> c, err |-> c]
      BY <1>1, <1>5 DEF IInv, WaitingInv, AwaitsOwn
    <3>2. \A kind \in done[c] : <<kind, waits[c][kind]>> \in fired
      BY DEF IInv, TasksInv
    <3>3. [ok |-> c, err |-> c]["ok"] = c
      OBVIOUS
    <3> QED
      BY <3>1, <3>2, <3>3
  <2>3. PICK o \in {"answer", "error", "gave_up", "partial"} :
          /\ Seen(c)' = o
          /\ o = "answer" => <<"ok", c>> \in fired
          /\ o = "error" => <<"err", c>> \in fired
          /\ o = "partial" => Method[c] = "executions"
    BY <1>1, <1>2, <2>1, <2>2 DEF Seen
  <2> QED
    BY <1>1, <1>2, <1>3, <1>5, <2>3, OneEnds
<1> QED
  BY <1>4, <1>5

LEMMA CallbackImplements ==
  ASSUME IInv, IInv', NEW c \in Calls, Callback(c)
  PROVE  [Contract!Next]_(Contract!vars)
<1>1. UNCHANGED pc
  BY DEF Callback, ItemCallback, EndCallback, LastTicksCallback, PayloadCallback, ErrorCallback,
         tasks
<1>2. Key(c) \in Keys /\ ErrId(c) \in ErrIds
  BY KeyType DEF IInv, TInv, TypeOK, Key, ErrId, ErrIds
<1>3. \/ fired' = fired
      \/ fired' = fired \cup Fire("ok", response_events[Key(c)])
      \/ fired' = fired \cup Fire("err", error_events[ErrId(c)])
  BY DEF Callback, ItemCallback, EndCallback, LastTicksCallback, PayloadCallback, ErrorCallback,
         SetEvent, SetError, tables
<1> QED
  BY <1>1, <1>2, <1>3, FiresOne, FiresNone, Registered

LEMMA OtherImplements ==
  ASSUME IInv, IInv', Other
  PROVE  [Contract!Next]_(Contract!vars)
<1> USE DEF client, tables, objects, tasks, tws
<1>0. TypeOK
  BY DEF IInv, TInv
<1>1. ASSUME NEW c \in Calls, CallEarly(c) \/ GaveUpOnId(c)
      PROVE  [Contract!Next]_(Contract!vars)
  <2>1. c \in ById
    BY <1>1 DEF CallEarly, GaveUpOnId, IInv, Untouched, ById
  <2>2. UNCHANGED fired /\ \A x \in Calls \ {c} : pc'[x] = pc[x]
    BY <1>0, <1>1 DEF CallEarly, GaveUpOnId, TypeOK
  <2>3. ASSUME NEW x \in ById, x # c PROVE Same(x)
    <3>1. pc'[x] = pc[x]
      BY <2>2, <2>3, ByIdCalls
    <3> QED
      BY <2>2, <3>1 DEF Same, Seen
  <2>4. CASE CallEarly(c)
    <3>1. pc[c] = "idle" /\ pc'[c] = "need_id"
      BY <1>0, <2>4 DEF CallEarly, TypeOK
    <3>2. Seen(c)' = Seen(c)
      BY <3>1 DEF Seen
    <3> QED
      BY <2>1, <2>2, <2>3, <3>1, <3>2, OneAsked
  <2>5. CASE GaveUpOnId(c)
    <3>1. pc[c] = "need_id" /\ pc'[c] = "no_id"
      BY <1>0, <2>5 DEF GaveUpOnId, TypeOK
    <3>2. Seen(c)' = "gave_up"
      BY <3>1 DEF Seen
    <3> QED
      BY <2>1, <2>2, <2>3, <3>1, <3>2, OneEnds
  <2> QED
    BY <1>1, <2>4, <2>5
<1>2. ASSUME NEW c \in Calls, CallCached(c)
      PROVE  [Contract!Next]_(Contract!vars)
  <2>1. c \notin ById
    BY <1>2 DEF CallCached, ById, ByReqId
  <2>2. UNCHANGED fired /\ \A x \in ById : pc'[x] = pc[x]
    BY <1>0, <1>2, <2>1, ByIdCalls DEF CallCached, TypeOK
  <2> QED
    BY <2>2, FiresNone
<1>3. CASE PushManagedAccounts
  <2>1. UNCHANGED pc /\ fired' = fired \cup Fire("ok", response_events[<<"managed_accounts", 0>>])
    BY <1>3 DEF PushManagedAccounts, SetEvent
  <2>2. <<"managed_accounts", 0>> \in Keys
    BY BoundsAssumption DEF Keys, Ids
  <2> QED
    BY <2>1, <2>2, FiresOne, Registered
<1>4. CASE UNCHANGED <<fired, pc>>
  BY <1>4, FiresNone
<1> QED
  BY <1>1, <1>2, <1>3, <1>4 DEF Other, ServerCancels, WaiterDone, NextValidId, Drop, Reconnect

\* While TWS announces no used id, get_* calls by id keep their contract: each
\* step asks, answers, fails or ends one call the way the contract allows, or is
\* not seen.  A call concludes once; it returns only its own whole answer, raises
\* only TWS's error for it, or gives up.
THEOREM CallsKeepContract ==
  ASSUME ~StaleNextId
  PROVE  Spec => Contract!Init /\ [][Contract!Next]_(Contract!vars)
<1>1. Init => Contract!Init
  <2> SUFFICES ASSUME Init PROVE Contract!Init
    OBVIOUS
  <2>1. \A c \in ById : c \in Calls /\ pc[c] = "idle"
    BY ByIdCalls DEF Init
  <2>2. \A c \in ById : Outcome(c) = "none"
    BY <2>1 DEF Outcome
  <2> QED
    BY <2>1, <2>2 DEF Init, Contract!Init
<1>2. IInv /\ RegisteredInv /\ [Next]_vars /\ IInv' => [Contract!Next]_(Contract!vars)
  <2> SUFFICES ASSUME IInv, RegisteredInv, [Next]_vars, IInv'
               PROVE  [Contract!Next]_(Contract!vars)
    OBVIOUS
  <2>1. CASE UNCHANGED vars
    <3>1. UNCHANGED fired /\ \A c \in ById : pc'[c] = pc[c]
      BY <2>1 DEF vars, tables, tasks
    <3> QED
      BY <3>1, FiresNone
  <2>2. CASE Next
    BY <2>2, Steps, IssueImplements, EndImplements, CallbackImplements, OtherImplements
  <2> QED
    BY <2>1, <2>2
<1>3. Spec => []IInv
  BY Invariance
<1>4. Spec => []RegisteredInv
  BY RegisteredInvariance
<1> QED
  BY <1>1, <1>2, <1>3, <1>4, PTL DEF Spec
=============================================================================
